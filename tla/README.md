# Promptobus in TLA+

TLA+ models of the parts of Promptobus that several processes run at once over
one directory tree, TLC instances of them, and TLAPS proofs about them. The
models are written from the source under `src/`, `lib/` and `bin/`; where a
document or a comment says something else than the code does, the code is what
is modelled and the difference is told under *Known disagreements*.

## The system

Promptobus is a message bus for agents of one repository. There is no broker:
every command, MCP server, warden and service is an operating system process
that works on the same journals under one store home. What keeps them consistent
is `mkdir`, `rename`, `link` and exclusive file creation, a few lock
directories, and the order in which records are written.

| component | state | operations | interacts by | hard part |
| --- | --- | --- | --- | --- |
| Directory lock (`src/fs/lock.ts`) | a lock directory, its `owner` file, a `.reclaim` claim | take, wait, release, drop a dead holder's directory | file system calls of any process | reclamers racing the next holder; reused inode numbers; crash anywhere |
| Message order (`src/v1/message-order.ts`) | `message-order.json`, the high-water id; the retained ids | reserve, rebuild, list in order | commit lock | clock rollback, counter overflow, lost head, prune |
| Messages (`src/v1/messages.ts`) | `intents/`, their leases, `messages/`, `inbox/`, `history/`, `broken/` | send, assign, fan out, read, recover, facts | task lock, commit lock, hard links | crash between two links; two recoverers; slow or dead writers |
| Task store (`src/v1/store.ts`) | a journal per task; link intents of child tasks | create root and child, add participant, close, recover links | task lock | two journals, no transaction |
| Engine (`src/v1/engine.ts`) | none of its own | the public operations over the three above | calls | checks made before and again under the lock |
| Artifacts (`src/v1/artifacts.ts`) | payload blobs and records | publish, adopt, sweep | blob lock | payload before record beside the sweep |
| Sidecar (`src/sidecar.ts`) | warden mark, wake points, health | claim, clear, bind | task directory | marks of dead processes |
| Supervisor (`src/supervisor.ts`) | health, notices, knocks of one round | survey, knock, retry, report | drivers (external programs) | read-modify-write across an answer |
| Warden in the service (`lib/service-warden.ts`, `lib/warden-worker.ts`, `lib/warden.ts`) | demands and their file, loops, the mark | ensure, abort, settle, recover, close | worker messages | an event of an old generation after a new demand; restart |
| Machine and clone lease (`lib/lease.ts`) | lock directory, owner and child pids, waiter files | take in order, run a command, recover | file system, child process | wrapper dies, command lives |
| Shared service (`lib/service*.ts`) | `owner.lock`, `startup.lock`, `service.json`, grants, sessions, request receipts | start, find, register, initialize, call, revoke, reap, shut down | HTTP, files | request repeated after a crash; a handler asleep across a revocation |
| Roots and native admission (`lib/*root*.ts`, `lib/native-*.ts`) | reservations and proofs in the journal, the native registry | reserve, bind, release, retain a stop, admit | journal, registry | partial launch, late answers |
| Lifecycle commands (`lib/spawn.ts`, `lib/stop.ts`, `lib/sweep.ts`, `lib/done.ts`, `lib/abandon.ts`, `lib/review.ts`, ...) | participants' entries, the rebind file, worktrees | lift, lift again, stop, sweep, abandon, close | journals, git, drivers | five commands over one seat; roll back of a partial lift; two journals |
| Bus adapter (`lib/store.ts`) | the command's view of the journals | address, bind, lock two tasks | engine | |
| Guard (`lib/guard.ts`) | waits record | decide whether a turn may end | sidecar, engine | decision on stale reads |
| Drivers and holders (`lib/driver-*.ts`, `lib/codex-session.ts`, ...) | session records, the holder's account of turns | launch, wake, stop, confirm | external programs, a pipe | notifications and answers in any order; a stop over work in flight |
| Model routing (`lib/model-routing/`, `lib/models.ts`) | catalog, overlay, cache | resolve, calibrate, cache | files | pure decision over many inputs |
| BB integration (`integrations/`) | delivery receipts, control | deliver, admit | HTTP host | plugin of another host |

`PROJECT.json` names every component with its sources and says what is not
modelled and why.

What makes the modelled ones correct:

- **directory lock**: at most one process inside; a live holder's directory is
  never moved by a reclaimer, however late; a dead holder's is eventually
  dropped; a claim is removed only by who made it or by the holder.
- **message order**: an id is above everything retained when it is reserved,
  through clock rollback, overflow, loss of the head and prune; a readable head
  never falls.
- **messages**: a committed message is lost to nobody silently; an acknowledged
  send has placed every ref; facts that do not refuse are complete; nothing is
  committed after close; a boundary only rises; what a crashed sender left
  arrives.
- **task tree**: a done root is quiet; half a link is always traced and later
  finished; no concurrent write loses a seat or a journal.
- **task warden**: a loop has its task's seat for as long as it runs; an end
  reported by an older loop uses up no newer demand; nothing called off runs
  on; every standing demand is served, through failures and restarts.
- **keyed lease**: one command at a time per key, also when wrappers are killed,
  and only a dead lease is recovered, up to one race of the recheck that the code
  leaves open (disagreement 3); commands run in the order of the calls; a dead
  lease is recovered.
- **supervisor round**: the health mark a round rewrites is coherent; mail is
  left out of a postcard only when the driver took one about it; knocks keep
  their distance; a mailbox nobody empties is said to be silent; the owner is
  knocked on about all its mail.
- **shared service**: one service; a call takes effect at most once over
  retries, crashes and restarts, under a grant and an ownership that still
  stand; whoever asks for the service gets an answer.
- **teamlead rebind**: the two journals agree or the rebind file says how to
  finish; one live native session; no journal goes back to an earlier session.
- **worker's seat**: a native session that runs has its record and its seat; no
  cleanup takes a worktree from under it and no close leaves it behind; a seat
  whose lift failed or whose session was stopped can be lifted again.
- **session holder**: what the holder says of its child is true; a confirmed
  stop cut nothing off; every stop is answered.

## Modules

| module | what it is | code |
| --- | --- | --- |
| `ExclusiveLock` | what a lock promises: acquire, release, a dead holder dispossessed | contract of `src/fs/lock.ts`, and of the lock of a key in `lib/lease.ts` |
| `DirLock` | the lock, one file system call per step; implements `ExclusiveLock` | `src/fs/lock.ts` |
| `MessageOrder` | the high-water head and the evidence it is rebuilt from | `src/v1/message-order.ts`, `commitIntent`, `prune` |
| `MessageStore` | send, assign, recover, facts, read and close over one task | `src/v1/messages.ts`, `src/v1/engine.ts` |
| `TaskTree` | one root and its children in several journals | `src/v1/store.ts` |
| `TaskWarden` | demands, the two halves of the task warden and their channels, the seat | `lib/service-warden.ts`, `lib/warden-worker.ts`, `lib/warden.ts`, the mark of `src/sidecar.ts` |
| `KeyedLease` | wrappers, their commands, waiter files and the lock of one key; implements `ExclusiveLock` until a live lease is robbed | `lib/lease.ts` |
| `Supervision` | the rounds of a warden over one mailbox | `src/supervisor.ts`, the health mark of `src/sidecar.ts` |
| `SharedService` | launchers, the service process, its handlers, what is on disk | `lib/service.ts`, `lib/service-client.ts`, `lib/service-state.ts` |
| `OneLead` | what two journals and a rebind file promise: one register of the teamlead's session, and two copies that catch up | contract of `recoverTeamleadRebind` and the rebind in `lib/spawn.ts` |
| `TeamleadRebind` | a teamlead lifted again, recovered and stopped over two journals; implements `OneLead` | `lib/spawn.ts`, `lib/native-lifecycle.ts`, `lib/driver-codex.ts` |
| `WorkerSeat` | spawn, stop, sweep, abandon and done of one seat | `lib/spawn.ts`, `lib/native-lifecycle.ts`, `lib/driver-codex.ts`, `lib/sweep.ts`, `lib/abandon.ts`, `lib/done.ts` |
| `SessionHolder` | the process that holds a Codex session | `lib/codex-session.ts` |
| `*_proofs` | theorems of the module they are named for; `MessageStore_proofs` also those of `MessageOrder`, `TaskWarden_proofs` those of `SharedService`, `WorkerSeat_proofs` those of `SessionHolder` | |
| `MC*` | symmetry and entry point for TLC | |

`MessageStore`, `TaskTree` and the modules of `lib/` take a lock as one step and let a dead holder's
lock be taken: `DirLock` shows that this is what the directories give, with the
two exceptions named under *Known disagreements* and *What the lock leaves to a person*.
`MessageStore` takes ids as numbers that rise in the order of reservation:
`MessageOrder` shows that they do.

### DirLock

State: `dir` is the directory at the lock's path with its inode number, owner
file and `.reclaim` claim; `pc[p]` is the next file system call of process `p`;
`seen[p]` is what a reclaimer read so far. `maker` and `serial` are auxiliary.
`MakeDirectory`, `WriteOwner` are `tryGrabDirLock`; `CheckNonce`,
`EmptyDirectory`, `RemoveDirectory` are `releaseDirLock` (a recursive `rm` is
two steps); `StatGeneration` to `DropClaim` are `dropDeadLock`, call by call.
`Refusable` names the generations whose rename may be refused (another error
than `ENOENT`, which leaves the claim to the `finally` block). `Crash` may happen at
any step; the process's memory goes with it. A path operation lands in whatever directory is
at the path when it runs, and a fresh directory may get any free inode number.

### MessageOrder

`headId` is the id in `message-order.json`, `file` whether that file is valid,
missing or damaged, `retained` the ids that messages, intents and quarantined
names give. An id is a time stamp and a counter in dictionary order. The clock
reads anything at any time. `ReserveMessageId` is the whole of
`reserveMessageId`; `Publish` and `LoseReservation` are the two ends of
`commitIntent`; `DropRecords` is prune, `Repair` a person emptying
`broken/messages`.

### MessageStore

Records are sets of ids by directory (`intent`, `canon`, `inbox`, `history`,
`quarantine`) and `lease`; `pc`, `job` and the working record of a process give
the place in its call. Every exclusive creation, write, link, rename and unlink
that another process can see is a step. `SlowWriters` says whether a live
writer may be taken for abandoned (a stall of 30 s, `INTENT_STALE_MS`);
`Refuse` is a busy commit lock at the retirement of an intent. `committed`,
`acked`, `dropped` and the like are auxiliary and only read by properties.

### TaskTree

`journal[c]` and `seat[c]` are the two halves of a child; `links` are the link
intents. `reading` is the journal a process read before it rewrites it whole.
Create, recover and add run under the root's lock; a root task (`CreateForeign`)
and a child's own close do not. Adding a participant stands for every
read-modify-write of a journal under its lock.

### TaskWarden

`demand[t]` is the record of `warden-demand.json`; a demand, and the generation
of the loop started for it, is a number. `entry[t]` is the service's record of a
loop, `loop[t]` the worker's; `toWorker` and `toService` are the two message
channels, first in, first out. `seat[t]` says whose pid the warden mark names.
`Ensure` and `AbortTask` are the calls of clients, `HandleEvent` and
`HandleCommand` the two message handlers, each in one step because each runs to
its end before the next message; `Settle` and `Fail` are what an event does.
`Unwind`, `EndLoop` and `FailLoop` are the end of `runTaskWarden`: the loop
leaves its rounds, then clears the mark and reports. `SaveFails`,
`SettleUnsaved`, `StartFails`, `WorkerDies` and `Crash` are the troubles. What
the rounds of a loop do is not in this module. `settled` and `cancelled` are
auxiliary.

### KeyedLease

`lock` is the lock directory with the pids in `owner` and `child.pid`, `since`
the waiter files with the time of their calls (the count of calls), `recovery`
the holder of the `.recovery` lock, `command[p]` the child process of wrapper `p`. The actions of
the first part are `underLease` up to the spawned command, those of the last
part `keyedState` and `dropDeadKeyedLock`. A recursive `rm` is two steps, and
every removal goes by path. `Kill` ends a wrapper anywhere and leaves its command
and files. `keyedState` is read as the code reads it, for the first verdict and for
the recheck under `.recovery`: whether the directory is there (`Look`), its owner
(`ReadOwner`), its child (`ReadChild`), then who is alive (`Judge`, `Rejudge`), and
others run between any two. `sight` is what has been read so far. Only the two
questions whether a pid is alive are one step: the dead stay dead, so whatever the
code finds is what one question at the first or at the last instant would. The
`.recovery` lock is one step, as in the modules above.

The recheck does not make the verdict one of an instant, and disagreement 3 is what
follows: the directory whose owner was read may be removed by its holder before the
child is read or the pids are asked for, and the next holder's renamed away. Two
auxiliary variables name exactly that. `switched` says that a directory went away
between the recheck's first read and its decision, `robbed` that after this a
directory was renamed away whose wrapper or command was alive. The code promises
exclusion up to the first robbery, and no more, so `CommandIsAlone` and
`LockUntilRobbed` stop there; the instance reaches it, and what is stated without it,
the order of the calls and the recovery of dead leases, is checked beyond it too. A
live lease that is renamed away without a switch, for example by a verdict that was
not rechecked, breaks `LockUntilRobbed`.

`LockUntilRobbed` is the refinement of the same abstract lock that `DirLock`
implements, step by step. A process of the abstract lock is a wrapper together with
its command: it crashes when the last of the two ends (`Alive`), so a wrapper
killed over its command is a stutter, and holds the lock it made (`Holder`) until
`RemoveLock` or, dead, `RenameAway`. The abstract lock may start with a holder that
died before, as this module does.

### Supervision

One mailbox over the rounds of its task's warden. `health` is the mark of the
address in the health file, `draft` the mark the round has in hand while the
driver is asked, `inbox` the unread mail, `owner` the session the address is
bound to and `point` the session whose contact point is on record. `Look` is
`supervisorRound` for this address up to the driver: whether the listing was
complete, what the turn marks show, the take it recognises, what it forgets or
carries, whether it knocks, and the write of the mark when it does not.
`Answer` is the driver's answer and the write after it, `Crash` the death of the
warden in between, which leaves the old mark to the next. The operators before
`Look` are the round's predicates, one each. Times are ages that stop at the
threshold they are held to. `news` is auxiliary. A point that is rewritten by
the session it names is one that is taken away and handed over again.

### SharedService

`startup`, `owner`, `discovery`, `grants`, `session` and `receipts` are the files;
`client` and `child` what a launcher does, `worker` the life of a service
process. A handler that waits at an `await` is in `flying`; what a handler does
between two awaits is a sequence of disk steps, `todo[w]`, that only a crash can
cut. `Ask` to `GiveUp` are `service-client.ts`; `Boot` and `Listen` the start of
the service, `Release` and `Exit` its close; `Register`, `Initialize`,
`DeleteSession`, `Send`, `ReadSession` and `Dispatch` its handlers; `ReapClient`
and `Revoke` what takes a grant away. The receipt of a call is written started,
the call is performed, the receipt is written completed: three steps. A client
deletes its session only with no attempt of its own in flight
(`lib/service.ts:421`, `:912`). A release leaves `owner.lock` without an owner by
design (`lib/service-state.ts:292`). `sends`, `applied`, `told` and `opened` are
auxiliary.

### TeamleadRebind

`lead` is the teamlead's seat in the root's journal, `owner` the orchestrator's
in the child's, `intent` the rebind file, `record` the native registry, `session`
what became of each generation. A lift plans from three unlocked reads
(`PlanRoot`, `PlanIntent`, and the child's with the decision), reserves both
seats when native (`ReserveRoot`, `ReserveChild`), prepares, launches, and
publishes the intent under the root's lock (`PublishIntent`). `Observe` to
`UnlinkStopped` are `recoverTeamleadRebind`, which the lifter and any later spawn
run; `StopHolder` to `DropRecord` are the stop of a native lead, which retains
its proof in both journals. `native` is chosen at the start. The first lift,
which creates the child, is in `TaskTree`.

`ImplementsOneLead` says what all of it amounts to: the session the teamlead is
bound to (`BoundTo`: the intent's generation while the file stands, the owner's
otherwise) is one register. It is replaced at the moment the file is published
(`PublishIntent`), by a newer session and only over two journals that agree;
`BindChild` and `BindRoot` are the copies catching up, the child's first; every
other step, a crash, a stop and a recovery that comes late among them, stutters.

### WorkerSeat

`seat` is the participant in the journal, `record` the registry, `session` the
session of each launch, `tree` the worktree. The actions come in the order of the
commands: spawn (plan, reserve, worktree, preparations, stage, start, the wait for
the thread, the binding, what is left to settle, and the ways it fails), stop, sweep,
abandon, done. The binding asks the journal only (`MayBind`): the session may be over
again since its thread was ready. A native stop is three steps with a deadline and a
possible death between any two: `AskShutdown` has the holder confirm, `RetainStop`
writes the proof into the journal, `DropRecord` removes the registry's record; under
one lock, yet two files. `DropTooLate` and a crash leave a retained stop beside a
record that stands, and the stop that is given again retains the same proof
(`MayRetain`). `StopFreesSeat` is that this ends, whichever of them fails; its premise
`LiftIsOver` leaves out a record whose own lift is about to drop it. `harness` is "codex", whose
launches are reserved and whose ends are proved, or "claude", whose entry is
written after its worktree and whose liveness is read off a list. A seat its
owner abandoned is exempt from what is promised of worktrees and of a close: its
launch was declared dead. That two Claude lifts of one address, planned at once,
start two sessions is not excluded by the code, and no property says so.

### SessionHolder

The first variables are the truth of the app-server (`app`, `turn`, `command`,
`unanswered`), `wire` is its output that the holder has not dispatched, the rest
is the holder: its main line (`phase`), its queue of requests and the one in
`flight`, its account of turns and commands, and the finalization of a stop.
`AppActive` to `AppCrashes` are the child; `Dispatch` hears one message;
`SendRequest`, `RequestSettles`, `RequestTimesOut` and `FirstTurnTimesOut` are
`requestTurn` and its continuation; `RecordWatch` is the watch of the session record,
`Lose` the loss of the launch, `StopRequested` to `Deadline` the stop. An answer's
continuation runs after the rest of its chunk was dispatched, in any number of
messages.

`thread/status/changed` moves `busy` beside the account: an active sets it, an idle
sets it to whether a turn is counted (`HearStatus`). The child may say active before
the start of a turn and idle after its end, as the harness of the tests does
(`test/harness-codex.mjs:882`, `:1084`), or nothing: the recorded schema nests the
status (`scripts/codex-schema-contract.mjs:412`), a form in which the handler finds
neither. `status` is what the child said last. So busy is not "a turn is counted": a
holder that heard an active and not yet the start is busy over nothing, and
`BusyIsHonest` allows that exactly while the announced turn has still to start. The
other direction, busy while a turn is counted, holds because an idle asks the account;
with an idle that is believed, TLC finds a holder that says idle over a turn. The idle
of a thread that starts is left out: nothing is busy then.

## Runs

| run | instance | shows |
| --- | --- | --- |
| `DirLock` | 3 processes, 2 inodes, 3 directories, renames of the first two refusable, fair | `LockIsSafe` (type, mutual exclusion, the holder finds its own nonce, a rename is claimed and rechecked), refinement of `ExclusiveLock`, a dead holder is reclaimed |
| `MessageOrder` | 3 stamps, 2 counters | `HeadIsSound` (the head bounds the evidence), a new id is above everything retained |
| `MessageStore_safety` | 2 processes, every call, 2 ids, slow writers | `StoreIsConsistent` (refs have a canon, facts complete), no commit after close, boundaries rise |
| `MessageStore_mail` | 2 processes, 2 recipients, 1 refusal, fair | `MailIsKept` (no mail lost, quarantine only of torn records, acknowledged is delivered), mail arrives |
| `TaskTree` | 2 processes, 2 children, 1 refusal, fair | `TreeIsTraced` (traced halves, one link at a time), quiet done root, links finished |
| `TaskWarden` | 1 task, 3 demands, 3 troubles, 3 aborts, fair | `SeatIsHeld` (one loop with the seat, successors wait), demands used up only by their own loop, called off means stopped, demands are served |
| `KeyedLease` | 3 callers and a wrapper dead before, 2 wrappers killed in all, reads torn, fair | `CommandIsAlone` and refinement of `ExclusiveLock` (only the dead is reclaimed), both until a live lease is robbed; oldest first, a dead lease is recovered |
| `Supervision` | 2 mails, 2 sessions, thresholds 1, 2, 3 | marks coherent, coverage earned, knocks spaced, silence said, the owner knocked on |
| `SharedService` | 2 clients, 2 workers, 1 session each, 2 sends, 1 crash | `ServiceIsSound` (one service, each call applied once), effects authorized, asking is answered |
| `TeamleadRebind` | 2 processes, 3 generations, 1 crash, both harnesses | `RebindIsTraced` (halves agree, recoverable), one fenced session, refinement of `OneLead`, a rebind is finished |
| `WorkerSeat` | 2 processes, 2 launches, 1 crash, both harnesses | `SeatIsSound` (handle, over means over), `CleanupSparesSession`, a lift that fails before its start frees the seat, and so does a stop that is repeated over the death of an earlier one |
| `SessionHolder` | 2 turns, 1 with a command, 2 stops, 3 messages unheard | `SnapshotIsHonest` (exact account, honest busy), a confirmed stop is quiet, a stop is answered |

Properties named by one word are conjunctions of the named parts in the module,
each with its own comment; every property the runs check has a mutant of a mapped
definition that breaks it under the same configuration, so none holds by the
smallness of its instance.

Why these bounds are enough to be of use:

- **lock**: the worst case is a reclaimer that read generation 1, a release or
  reclamation that replaced it by generation 2 with a reused inode, and a holder
  of generation 3. `MaxGenerations` and the inodes give exactly that; the proofs
  have any number.
- **messages**: fan-out races need a sender, a recoverer and two recipients, so
  that one ref exists and one does not; two ids are needed for orders
  (boundaries, facts). `Calls` says which calls an instance has.
- **task tree**: a link needs two processes, one of them crashed; a second child
  shows that links do not mix.
- **warden**: a demand whose loop ends, a second that arrives meanwhile and a
  third that is called off; tasks share only the channels, whose order of
  messages of one task is what matters, and the failure of the whole service,
  which one task meets as well. `MaxTroubles` counts crashes, failed saves,
  failed loops and outside wardens together: three allow a crash during the
  recovery from another trouble.
- **lease**: the robbery needs four wrappers: one that left a dead lease, one that
  judged it dead and rechecks, one that has recovered it meanwhile and ends, and one
  whose lock is taken. The first is the wrapper outside `Callers`, which left its lock
  in one of the initial states; in the others a caller is killed over its command.
  The instance reaches the robbery and the two commands that follow it.
- **supervision**: one mail under an accepted knock and one that arrives after,
  one owner before and after a rebind. Only the order of the three thresholds
  matters (`SupervisionAssumption`), as ages stop there.
- **service**: a launcher beside another, a service that dies and the one started
  after it, a call sent again to the same or the next.
- **rebind**: the generation the lead starts with, a rebind, the next over it and
  one that a second process planned meanwhile.
- **seat**: a lift and any other command between its steps; a second lift over
  the first; the death of one of them.
- **holder**: a turn that runs while another is asked for, one with a command; a
  stop that fails and its repetition. Three messages the holder has not heard are an
  active, a start and an answer, or a completion, an idle and the next active: every
  order of the kinds that meet in one chunk. The proofs have any number.

Every bound is a CONSTANT with a guard that names it (`MaxGenerations`, `MaxId`,
`MaxRefusals`, `MaxStamp`, `MaxCounter`, `MaxDemands`, `MaxTroubles`,
`MaxAborts`, `MaxKilled`, `MaxMail`, `MaxSession`, `MaxSends`, `MaxCrashes`,
`MaxGeneration`, `MaxLaunch`, `MaxTurns`, `MaxStops`, `MaxUnheard`).

Deadlock is not checked where the system may stop: every process crashed or at
rest, or the bound on ids, directories, turns or launches reached.

### Fairness

- `DirLock`: weak fairness of the steps of a process that runs; nothing of
  taking, retrying, giving up or crashing. Where every rename is refused for ever
  nothing is ever reclaimed: the last generation's is not.
- `MessageStore_mail`: strong fairness of the steps of a call, which polls for its
  locks, and of the begin of a recovery, as the adapter recovers a task whenever
  it opens it; an intent nobody writes grows old.
- `TaskTree`: strong fairness of a call's steps, since it polls for the lock every
  20 ms while others come and go, and of the begin of a recovery.
- `TaskWarden`: weak fairness of the two message handlers, of the winding up of an
  aborted loop and of its cleanup, of a closing service's next step, and that a
  service that is down is started (every command of a client does so); a loop
  that nobody aborts may run for ever.
- `KeyedLease`: weak fairness of a wrapper's steps, polling included; a command
  may run for ever and nobody has to ask or to give up.
- `Supervision`: time passes, a warden does not die in every round that knocks,
  and a listing succeeds now and then. `MailIsKnockedOn` has a premise of its own,
  `Reachable`: the session that owns the address hands over its point now and
  then and is found idle, with no question to the user and no refused turn. A
  session that never is may never be knocked on, and `SilenceIsSaid` holds of it
  all the same.
- `SharedService`: weak fairness of processes that run and of handlers whose await
  ends. The launcher's own deadline is not used: an answer comes without it.
- `TeamleadRebind`: a command that runs goes on; one that was refused or died is
  given again, as its message asks.
- `WorkerSeat`: whoever waits for the task's lock gets it in the end, and a stop is
  repeated while there is a session to stop. Of stops without end not all run out of
  their time before the lock is free, before the proof is written, or between the
  proof and the drop; each of them may. Deaths are bounded, and `FailureFreesSeat` is
  stated of a lift that fails once no more commands die, since one that dies where it
  would give its reservation back leaves it for a person.
- `SessionHolder`: the event loop runs what is due and the stop's deadline is a
  timer; the child, callers and the launch's owner owe nothing.

No fairness is assumed of crashes, refusals, clocks or people.

## Proofs

TLAPS checks, for any number of processes, inodes, directories, ids, stamps,
children, launches, commands, mails, sessions, tasks, demands, calls, turns and
intervals:

- `DirLock_proofs`: type correctness, mutual exclusion, that the holder is named,
  that only claimed directories of dead owners are renamed (together
  `LockIsSafe`), that a live generation stays at the path, and that `DirLock`
  implements `ExclusiveLock`. The properties are not inductive: that a reclaimer
  may rename rests on what it read still being in place, and why it does is a
  chain. The inductive invariant `IInv` adds: an owner file names the directory's
  maker and its serial (`OwnerIsMaker`); who is past `mkdir` and runs has its
  directory at the path (`OwnersAreThere`); an owner a reclaimer keeps is dead
  (`HeldIsDead`), so it does not come back under a new nonce; while it has
  matched the path, the claim there is its own (`ClaimIsInPlace`), and after the
  recheck the directory is still that one (`RecheckedIsInPlace`). The action
  theorems then follow from which steps change `dir` at all (`DirectoryLeaves`).
- `MessageOrder` (in `MessageStore_proofs`): a valid head bounds every retained id
  (`HeadIsSound`), hence a reserved id is above them (`NewIdsAreAbove`) and a rebuilt head is not
  below a valid one (`HeadNeverFalls`). The lemma underneath is `SuccIsAbove`: the
  successor of an id with the counter's overflow is above it, and everything at
  most it.
- `TaskTree_proofs`: all safety properties of `TaskTree`; that no write loses a
  seat (`SeatsAreKept`) or a journal (`JournalsAreKept`) is proved and not in the
  run. The invariant says that who is inside the section holds the lock
  (`SectionHoldsLock`), that what it read is still what the journal says
  (`ReadingIsCurrent`), and what it has established at each label (`Knowledge`);
  `Quiet` is what a closing process knows from its check to its write.
- `WorkerSeat_proofs`: all safety properties of `WorkerSeat`. What a native
  session needs rests on who owns its reservation: each launch has one lifter
  (`OneLifter`), and the seat is its own until it is bound (`SeatIsLifters`);
  `LiftsAreSingle` states of both that no two commands lift at once, or one lifts
  what the other still undoes. The registry and the
  session stand as the lift's place says (`RecordStands`), the record is the
  seat's launch (`RecordIsSeats`), so a session that runs has its record
  (`RunningHasRecord`). What a removal and a close rely on is that their marks
  are true (`MarksAreTrue`), the one of a stop because it was confirmed before it was
  retained (`StopConfirmed`), and that who removed or closed saw the seat free
  (`FreeWhenRemoved`, `FreeWhenClosed`). Nothing is claimed of Claude's seats,
  whose liveness is read off a list.
- `Supervision_proofs`: all safety properties of `Supervision`. A round that asks
  the driver keeps its draft to the record it read (`DraftStands`), the mark of
  the last attempt tells what there is to tell (`AttemptStands`) and for whom it
  was accepted (`AcceptedStands`).
- `MessageStore_proofs`: all safety properties of `MessageStore`; `MailKept` under
  `~SlowWriters`, as the code's age of a torn intent assumes. Who is inside a
  section holds its lock (`LocksHeld`) and sees the task open (`OpenInside`), a
  writer has the head (`WriterHasHead`), what a process keeps fits its place
  (`StepsFit`), an intent and a canon tell the truth of their message
  (`RecordsAreTrue`), a fan-out has placed what it has left behind
  (`FanoutHasPlaced`), facts that come to the messages have seen every intent
  gone (`FactsHaveSeen`), and an intent aged enough to be torn has no writer
  (`OldIsDead`).
- `TaskWarden_proofs`: all safety properties of `TaskWarden`, for finitely many
  tasks. The two halves share nothing but the two channels, so the invariant is an
  account of what is on its way: what the service started of a task is in one place,
  as a start, as a loop or as the event of its end, and is what the service's entry
  says (`OneAccount`). A process that is not up has nothing under way
  (`QuietBefore`), which a crash needs; the numbers of demands tell tasks and calls
  apart and one that stands was never called off (`NumbersDiffer`); an end that is
  reported has come (`StoppedIsSettled`).
- `KeyedLease_proofs`: all safety properties of `KeyedLease`, with no assumption on
  how its reads interleave. `HolderInv` holds until a live lease is robbed: who is
  past `mkdir` and runs made the lock and finds its own record in it
  (`HoldersAreThere`); a command that outlives its wrapper keeps that record
  (`CommandFits`); and what a recheck has read is of the lock that stands or of none,
  unless the directory went away under it (`RecoveryIsHeld`), so that the first live
  lease to be renamed away is one that `switched` announced (`ReclaimsDead`). The
  order of the calls does not rest on the lock and holds after a robbery too: a waiter
  stays registered (`WaitersAreFiled`) and a checked turn stands until the command
  starts (`TurnStands`). Until it is robbed the lease implements `ExclusiveLock`
  (`LeaseRefinement`): `MakeLock`
  acquires, `RemoveLock` releases, `RenameAway` dispossesses, and `Invisible` shows
  of the others that they change neither the holder nor who is inside.
  `ReclaimsOnlyTheDead` is proved apart; in the run it is what the `Dispossess` of
  `LockUntilRobbed` asks.
- `TeamleadRebind_proofs`: all safety properties of `TeamleadRebind`. While a
  rebind file stands, each seat is at the generation before it or at its own, and
  the owner's is moved first (`IntentStands`); without one the journals agree
  (`HalvesAgree`), and how far each binder got says which case it is in
  (`BindersFit`). A plan was read earlier than it is acted on: that it is behind
  the seats and ahead of nothing (`PlansArePast`) keeps a late recovery from taking
  a journal back. The same facts show that it implements `OneLead`, step by step
  (`Refinement`), and that no journal goes back (`MovesForward`, a consequence
  the run does not check apart). Of a native lead, the two reservations make a lift the only one
  that launches (`LiftersAlone`), the registry has the generation of the seat or of
  its reservation and a session that runs is in it (`RecordStands`), and a retained
  stop is one that was confirmed (`StopsAreTrue`, `RetainersFit`).
- `SharedService` (in `TaskWarden_proofs`): all safety properties of
  `SharedService`. A worker with disk steps left serves, so it is the owner and
  alone (`BusyServes`, `OneService`); hence what a step of it touches has not been
  touched by another process since the handler checked it. That a call sent again
  takes effect once rests on its receipt being there: a receipt is removed only
  after the session its call could come through is over, and a session that is
  over never comes back (`CallsFit`, `OneRegistration`). `TodosFit` lists what may
  be left of a handler's steps, and what each of them has established.
- `SessionHolder` (in `WorkerSeat_proofs`): both safety properties. The account is
  not the child's truth while something is unheard, so the invariant says by how
  much it may differ. The stream tells the truth in order: an end it tells is one,
  a start it tells stands or its end follows (`WireFits`), and an active it tells has
  its start to come or behind it on the wire (`StatusFits`). What the holder counts
  runs, was asked for or has its end on the wire; what runs is counted or has its
  start there; and what was asked for is counted or is the one request in flight
  (`ActiveFits`), which is why a stop waits for the requests first: past that wait
  nothing is in flight (`StopFits`), so an empty account is a child at rest
  (`DrainIsQuiet`). An answer counts its turn unless it was heard over
  (`HeardFits`); busy follows the account but for a turn announced and not heard to
  start (`BusyFits`), because one request at most is the first one (`FirstFits`).

Assumptions are those on the constants, which TLC evaluates in every run. The
ones of this kind that are not about numbers: an absent value is none of the
values it stands in for (an absent record is no record, an absent request no
request), and clients and workers of the shared service are different processes.

Only model-checked: everywhere the liveness properties, which are beyond the
prover (fairness, `ENABLED`).

## Known disagreements

Where the code does something else than a document or a comment of the repository
says. Each was met while modelling; the model follows the code, and the
properties the runs check are those that hold of it.

1. **A release that leaves the directory** (`src/fs/lock.ts:65-75`). A comment in
   `dropDeadLock` says a claim made in a replacement generation does not stop
   that holder from releasing. A claim that lands between the unlink and the
   rmdir of the release does: the emptied directory stays, names nobody and is
   never reclaimed. In `DirLock`, after `EmptyDirectory(p)` of the holder a
   reclaimer's `MakeClaim` puts a claim into it, and `RemoveDirectory(p)` finds a
   directory that is not empty.
2. **A message delivered twice** (`src/v1/messages.ts:171`,
   `docs/reference/04-protocol.md:256`). The protocol reference says a message
   read during recovery is not delivered again. Two recoverers and a reader
   between them put a read message back (`CheckDelivered` of one before, `LinkRef`
   after `MoveToHistory`), and as the history name is a link to the same file the
   next reads leave it in the inbox. It takes a third process beside the run's two.
3. **A live wrapper's lease renamed away** (`lib/lease.ts:86`,
   `docs/reference/03-cli.md:1376`). The reference says a keyed lock is reclaimed
   only after wrapper and command are dead. The verdict is read file by file, and
   its recheck as well, so that it can be of a directory that is there no more. A
   wrapper `x` has left a dead lease; `P` judges it dead and takes `.recovery`, after
   `S` has recovered it and made the lock. `P` reads `S` as owner and as child; `S` ends,
   removes its directory and exits; `R` makes the lock; `P` finds both pids dead and
   renames the directory of `R` away. `P` makes its own and runs its command beside
   that of `R`. The instance of the run reaches it (`robbed`): with `OneCommand` as an
   invariant in place of `CommandIsAlone`, TLC shows two commands running after 44
   states. It takes a holder that ends and another that starts between two reads of
   one recheck.
4. **A lift that skips its liveness check** (`lib/spawn.ts:862` and `:1699`,
   `docs/reference/03-cli.md:135`). The reference says a live teamlead refuses a
   second lift, and that after a replay the still live session does. The replan
   after a recovery asks neither question when a second rebind was published
   meanwhile, since both are guarded by the absence of one. In `TeamleadRebind`
   that is `MayLift` with a plan whose `pending` and `again` both hold;
   `ReservedOver` in `RebindIsFinished` is what remains of it for a native lead.
5. **A worktree swept from under a Claude session** (`lib/sweep.ts:331`,
   `docs/reference/03-cli.md:2320`). The reference says a lift of the swept address
   between the liveness check and the removals is refused by the mark. On Claude
   the entry is written before the start and again after it (`Reserve`,
   `BindLegacy`), and a session that comes up is not in the list at first. A sweep
   that marks the first entry and looks before the session shows reads it dead
   twice and takes the worktree under it. `TreeOutlivesSession` is stated for
   native seats; without its first conjunct the run violates it.
6. **A first turn that ran and "did not start"** (`lib/codex-session.ts:1900`). The
   note behind it says that turn/started and turn/completed may arrive in one
   chunk. When both come before the answer of turn/start is continued, the wait
   for the start begins after it is over, and the launch fails with a turn that
   ran. A start heard after a request timed out is taken for the next one's, by
   the same flag.

Seen while modelling, without a promise they would break. A contender that meets
a keyed lock between the mkdir and the owner record of its maker, or between the
two steps of a holder's `rm`, refuses with "no known wrapper"
(`lib/lease.ts:245`), although the lock is neither left behind nor damaged:
`Judge` ends its call there. The protocol reference
(`docs/reference/04-protocol.md:858`) still describes that a commit reassembles
its id on `EEXIST`; the code reserves under the lock and fails instead. A native
lift whose driver was asked and failed leaves its seat reserved for a person to
abandon, and one that fails after its binding (`lib/driver-codex.ts:1413`) leaves it
bound without a proof; a lift that died before it bound has no seat that its stop
could be retained in. Codex's recorded schema says a thread's status in a form that
the handler of `thread/status/changed` does not read
(`scripts/codex-schema-contract.mjs:412`, `lib/codex-session.ts:1353`).

### What the lock leaves to a person

A directory whose maker died before its owner file, and one with the claim of a
crashed reclaimer, block until somebody removes them (the reference says so).
`DeadHolderReclaimed` is stated for the rest. Reuse of a pid is not modelled.

## Not modelled

Inside the modelled parts:

- **lock**: the sets that nest or queue holders inside one process (`heldSync`,
  `heldAsync`, `asyncQueue`).
- **messages, engine**: policy decisions, artifacts, pages of history; prune as an
  actor beside recoverers (`MessageOrder` has what it removes).
- **supervision**: the orchestrator's status-only filter, pull drivers, aliases and
  mailboxes of several slots, broken refs, a clock that steps back, stalls.
- **service**: bind and realize, grants of root and BB runtimes, replayable reads,
  deadlines.
- **rebind and seat**: approvers and reviewers, launch files and dependencies, what
  is in a worktree; the watch of the session record in `WorkerSeat`.
- **holder**: the record's copy of `busy`, which the holder writes at a turn's start
  and end and once it is alive, and which an inspection reads; approvals, raw tool receipts and the cleanup
  that only audits; the holders of OpenCode and Cursor.

Parts without a module: artifacts and blobs (`src/v1/artifacts.ts`), admission and
standalone launch of root sessions (`lib/*root*.ts`), review (`lib/review.ts`),
the guard, model routing, BB integration. Artifacts beside the sweep and the
holders inside one process are the next with a protocol of their own; the routing
resolver, the guard and the pipeline are pure decisions over large records, whose
specification would be the function again.

External programs, the MCP rendering, argument parsing, installation, prompts,
schemas and the BB observer stay out: they keep no shared state that these
protocols do not already show, or are pure input and output.
