------------------------------ MODULE KeyedLease ------------------------------
(***************************************************************************)
(* The keyed publication lease of lib/lease.ts: `lease --key` runs one     *)
(* command per clone at a time.  Each caller is a wrapper process that     *)
(* registers as a waiter, makes the lock directory, runs its command as a  *)
(* child process and removes the directory.  The command records its own   *)
(* pid in the lock, so that a lock outlives a killed wrapper as long as    *)
(* the command does.  All removals go by the path of the lock.             *)
(***************************************************************************)
EXTENDS Naturals, FiniteSets

CONSTANTS
    Wrappers,   \* wrapper processes, each with one command; no pid is reused
    None,
    Callers,    \* the wrappers that call; another may have left its lock earlier
    MaxKilled   \* bound on the wrappers killed

ASSUME CallersAssumption == Callers \subseteq Wrappers
ASSUME BoundAssumption == MaxKilled \in Nat

VARIABLES
    lock,      \* the directory at the lock's path, or None
    since,     \* the waiter file of each wrapper: when it asked, or 0 for no file
    recovery,  \* the wrapper that holds the .recovery lock, or None
    running,   \* the wrappers that have not exited or been killed
    command,   \* the child process of each wrapper
    pc,        \* where each wrapper is
    sight,     \* the owner and the child each wrapper has read of a lock
    calls,     \* the calls so far, which is the time
    asked,     \* auxiliary: when each wrapper asked first
    switched,  \* auxiliary: the directory went away while it was judged again
    robbed     \* auxiliary: a live lease was renamed away after such a switch

auxiliary == <<asked, switched, robbed>>
vars == <<lock, since, recovery, running, command, pc, sight, calls, auxiliary>>

----------------------------------------------------------------------------
\* `owner` is the pid in the owner file, `child` the wrapper whose command
\* recorded itself.  `maker` is auxiliary: no file says it before `owner`.
Lock == [maker : Wrappers, owner : Wrappers \cup {None}, child : Wrappers \cup {None}]
ASSUME NoneAssumption == None \notin Wrappers /\ None \notin Lock

PCs == {"idle", "mkdir", "own", "turn", "start", "wait", "unlink", "rmdir",
        "yield", "yielded", "look", "owner", "child", "judge", "recover",
        "relook", "reowner", "rechild", "rejudge", "rename", "sleep", "end", "gone", "killed"}

\* What keyedState has read of the files of a lock.
Sight == [owner : Wrappers \cup {None}, child : Wrappers \cup {None}]
Nothing == [owner |-> None, child |-> None]

Exists == lock # None
Owner == IF Exists THEN lock.owner ELSE None
Child == IF Exists THEN lock.child ELSE None
CommandLives(p) == command[p] \in {"starting", "running"}

TypeOK ==
    /\ lock \in Lock \cup {None}
    /\ since \in [Wrappers -> Nat]
    /\ calls \in Nat
    /\ asked \in [Wrappers -> Nat]
    /\ recovery \in Wrappers \cup {None}
    /\ running \subseteq Wrappers
    /\ command \in [Wrappers -> {"none", "starting", "running", "ended"}]
    /\ pc \in [Wrappers -> PCs]
    /\ sight \in [Wrappers -> Sight]
    /\ switched \in BOOLEAN
    /\ robbed \in BOOLEAN

\* Nobody has asked yet; a wrapper killed earlier may have left its lock
\* with the record of a command that has ended since.
Init ==
    /\ since = [p \in Wrappers |-> 0]
    /\ calls = 0
    /\ asked = [p \in Wrappers |-> 0]
    /\ recovery = None
    /\ sight = [p \in Wrappers |-> Nothing]
    /\ switched = FALSE
    /\ robbed = FALSE
    /\ \/ /\ lock = None
          /\ running = Wrappers
          /\ command = [p \in Wrappers |-> "none"]
          /\ pc = [p \in Wrappers |-> "idle"]
       \/ \E x \in Wrappers \ Callers :
          /\ lock = [maker |-> x, owner |-> x, child |-> x]
          /\ running = Wrappers \ {x}
          /\ command = [p \in Wrappers |-> IF p = x THEN "ended" ELSE "none"]
          /\ pc = [p \in Wrappers |-> IF p = x THEN "killed" ELSE "idle"]

At(p, label) == p \in running /\ pc[p] = label
Goto(p, label) == pc' = [pc EXCEPT ![p] = label]
Forget(p) == sight' = [sight EXCEPT ![p] = Nothing]

----------------------------------------------------------------------------
(* Taking: register, make the directory, check the turn under it.          *)

\* mutant: a retry registers anew.
RegisterAgain(p) ==
    /\ p \in Callers
    /\ At(p, "idle") \/ At(p, "sleep")
    /\ calls' = calls + 1
    /\ since' = [since EXCEPT ![p] = calls + 1]
    /\ asked' = IF At(p, "idle") THEN [asked EXCEPT ![p] = calls + 1] ELSE asked
    /\ Goto(p, "mkdir")
    /\ UNCHANGED <<lock, recovery, running, command, sight, switched, robbed>>

\* The waiter file, once for the whole call.
Register(p) ==
    /\ p \in Callers
    /\ At(p, "idle")
    /\ calls' = calls + 1
    /\ since' = [since EXCEPT ![p] = calls + 1]
    /\ asked' = [asked EXCEPT ![p] = calls + 1]
    /\ Goto(p, "mkdir")
    /\ UNCHANGED <<lock, recovery, running, command, sight, switched, robbed>>

MakeLock(p) ==
    /\ At(p, "mkdir")
    /\ ~Exists
    /\ lock' = [maker |-> p, owner |-> None, child |-> None]
    /\ Goto(p, "own")
    /\ UNCHANGED <<since, recovery, running, command, sight, calls, auxiliary>>

MeetLock(p) ==
    /\ At(p, "mkdir")
    /\ Exists
    /\ Goto(p, "look")
    /\ UNCHANGED <<lock, since, recovery, running, command, sight, calls, auxiliary>>

\* A directory that is gone makes the write fail and the call with it.
WriteOwner(p) ==
    /\ At(p, "own")
    /\ IF Exists THEN lock' = [lock EXCEPT !.owner = p] /\ Goto(p, "turn")
       ELSE Goto(p, "unlink") /\ UNCHANGED lock
    /\ UNCHANGED <<since, recovery, running, command, sight, calls, auxiliary>>

\* The waiter file of p is the first of those there are.
IsOldest(p, files) == \A q \in Wrappers : files[q] = 0 \/ files[p] <= files[q]

\* Reading the waiters drops the files of the dead; who is not the oldest of
\* the others yields the lock again.
TakeTurn(p) ==
    /\ At(p, "turn")
    /\ since' = [q \in Wrappers |-> IF q \in running THEN since[q] ELSE 0]
    /\ Goto(p, IF IsOldest(p, since') THEN "start" ELSE "yield")
    /\ UNCHANGED <<lock, recovery, running, command, sight, calls, auxiliary>>

\* The waiter file goes, holder.json is written, the child is spawned.
StartCommand(p) ==
    /\ At(p, "start")
    /\ since' = [since EXCEPT ![p] = 0]
    /\ IF Exists THEN command' = [command EXCEPT ![p] = "starting"] /\ Goto(p, "wait")
       ELSE Goto(p, "unlink") /\ UNCHANGED command
    /\ UNCHANGED <<lock, recovery, running, sight, calls, auxiliary>>

----------------------------------------------------------------------------
(* The command: a shell that writes child.pid and then becomes it.  It     *)
(* goes on when its wrapper is killed.                                     *)

RecordChild(p) ==
    /\ command[p] = "starting"
    /\ IF Exists THEN lock' = [lock EXCEPT !.child = p] ELSE UNCHANGED lock
    /\ command' = [command EXCEPT ![p] = IF Exists THEN "running" ELSE "ended"]
    /\ UNCHANGED <<since, recovery, running, pc, sight, calls, auxiliary>>

CommandEnds(p) ==
    /\ CommandLives(p)
    /\ command' = [command EXCEPT ![p] = "ended"]
    /\ UNCHANGED <<lock, since, recovery, running, pc, sight, calls, auxiliary>>

----------------------------------------------------------------------------
(* Removing: a recursive rm, which empties the directory and then removes  *)
(* it if it still is empty.                                                *)

Finish(p) ==
    /\ At(p, "wait")
    /\ command[p] = "ended"
    /\ Goto(p, "unlink")
    /\ UNCHANGED <<lock, since, recovery, running, command, sight, calls, auxiliary>>

EmptyLock(p) ==
    /\ At(p, "unlink") \/ At(p, "yield")
    /\ lock' = IF Exists THEN [lock EXCEPT !.owner = None, !.child = None] ELSE None
    /\ Goto(p, IF pc[p] = "unlink" THEN "rmdir" ELSE "yielded")
    /\ UNCHANGED <<since, recovery, running, command, sight, calls, auxiliary>>

\* Somebody has read an owner again and has not decided yet.
Rechecking == \E q \in Wrappers : At(q, "rechild") \/ At(q, "rejudge")

\* Who yielded goes on waiting, unless the rm failed.
RemoveLock(p) ==
    /\ At(p, "rmdir") \/ At(p, "yielded")
    /\ LET removed == Owner = None /\ Child = None
       IN  /\ lock' = IF removed THEN None ELSE lock
           /\ Goto(p, IF pc[p] = "yielded" /\ removed THEN "look" ELSE "end")
           /\ switched' = (switched \/ (removed /\ Rechecking))
    /\ UNCHANGED <<since, recovery, running, command, sight, calls, asked, robbed>>

----------------------------------------------------------------------------
(* Waiting: keyedState reads the files of the lock one after another, and  *)
(* asks then which of the two pids are alive.  Others run in between.      *)

Look(p) ==
    /\ \/ At(p, "look") /\ Goto(p, IF Exists THEN "owner" ELSE "sleep") /\ UNCHANGED recovery
       \/ /\ At(p, "relook")
          /\ IF Exists THEN Goto(p, "reowner") /\ UNCHANGED recovery
             ELSE Goto(p, "sleep") /\ recovery' = None
    /\ UNCHANGED <<lock, since, running, command, sight, calls, auxiliary>>

ReadOwner(p) ==
    /\ \/ At(p, "owner") /\ Goto(p, "child") /\ UNCHANGED switched
       \/ At(p, "reowner") /\ Goto(p, "rechild") /\ switched' = FALSE
    /\ sight' = [sight EXCEPT ![p].owner = Owner]
    /\ UNCHANGED <<lock, since, recovery, running, command, calls, asked, robbed>>

ReadChild(p) ==
    /\ \/ At(p, "child") /\ Goto(p, "judge")
       \/ At(p, "rechild") /\ Goto(p, "rejudge")
    /\ sight' = [sight EXCEPT ![p].child = Child]
    /\ UNCHANGED <<lock, since, recovery, running, command, calls, auxiliary>>

\* mutant: a dead wrapper is enough.
VerdictOfWrapper(owner, child) ==
    IF owner \in running THEN "live"
    ELSE IF owner # None THEN "dead" ELSE "ambiguous"

\* The two pids are asked for as one: the dead stay dead, so each outcome is
\* one of the first or of the last instant.
Verdict(owner, child) ==
    IF owner \in running \/ (child # None /\ CommandLives(child)) THEN "live"
    ELSE IF owner # None /\ child # None THEN "dead" ELSE "ambiguous"
Judged(p) == Verdict(sight[p].owner, sight[p].child)

\* A lock without a live record and not known dead is refused: a person is
\* to look.
Judge(p) ==
    /\ At(p, "judge")
    /\ Goto(p, IF Judged(p) = "live" THEN "sleep"
               ELSE IF Judged(p) = "dead" THEN "recover" ELSE "end")
    /\ Forget(p)
    /\ UNCHANGED <<lock, since, recovery, running, command, calls, auxiliary>>

\* mutant: the .recovery lock of a dead wrapper is busy for ever.
TakeRecoveryFree(p) ==
    /\ At(p, "recover")
    /\ IF recovery = None
       THEN recovery' = p /\ Goto(p, "relook")
       ELSE Goto(p, "sleep") /\ UNCHANGED recovery
    /\ UNCHANGED <<lock, since, running, command, sight, calls, auxiliary>>

\* The .recovery lock, a directory lock tried once.
TakeRecovery(p) ==
    /\ At(p, "recover")
    /\ IF recovery \notin running
       THEN recovery' = p /\ Goto(p, "relook")
       ELSE Goto(p, "sleep") /\ UNCHANGED recovery
    /\ UNCHANGED <<lock, since, running, command, sight, calls, auxiliary>>

\* mutant: the decision stays with the first look.
RejudgeNothing(p) ==
    /\ At(p, "rejudge")
    /\ Goto(p, "rename")
    /\ UNCHANGED <<lock, since, recovery, running, command, sight, calls, auxiliary>>

\* The state is read again under the lock.
Rejudge(p) ==
    /\ At(p, "rejudge")
    /\ IF Judged(p) = "dead"
       THEN Goto(p, "rename") /\ UNCHANGED recovery
       ELSE Goto(p, "sleep") /\ recovery' = None
    /\ Forget(p)
    /\ UNCHANGED <<lock, since, running, command, calls, auxiliary>>

\* A wrapper and its command are one process of the lease: it is alive while
\* either is.
Alive == {p \in Wrappers : p \in running \/ CommandLives(p)}

\* The rename, then the release of the .recovery lock.
RenameAway(p) ==
    /\ At(p, "rename")
    /\ lock' = None
    /\ recovery' = None
    /\ Goto(p, IF Exists THEN "mkdir" ELSE "sleep")
    /\ robbed' = (robbed \/ (switched /\ Exists /\ lock.maker \in Alive))
    /\ UNCHANGED <<since, running, command, sight, calls, asked, switched>>

Retry(p) ==
    /\ At(p, "sleep")
    /\ Goto(p, "mkdir")
    /\ UNCHANGED <<lock, since, recovery, running, command, sight, calls, auxiliary>>

\* The bound on waiting has passed.
GiveUp(p) ==
    /\ At(p, "sleep")
    /\ Goto(p, "end")
    /\ UNCHANGED <<lock, since, recovery, running, command, sight, calls, auxiliary>>

\* The call ends, with the waiter file, and the wrapper exits.
Leave(p) ==
    /\ At(p, "end")
    /\ since' = [since EXCEPT ![p] = 0]
    /\ running' = running \ {p}
    /\ Goto(p, "gone")
    /\ UNCHANGED <<lock, recovery, command, sight, calls, auxiliary>>

\* A wrapper is killed; its command and its files stay.
Killed == {p \in Wrappers : pc[p] = "killed"}
Kill(p) ==
    /\ p \in running
    /\ Cardinality(Killed) < MaxKilled
    /\ running' = running \ {p}
    /\ Goto(p, "killed")
    /\ Forget(p)
    /\ UNCHANGED <<lock, since, recovery, command, calls, auxiliary>>

----------------------------------------------------------------------------
Poll(p) ==
    \/ Look(p) \/ ReadOwner(p) \/ ReadChild(p) \/ Judge(p) \/ TakeRecovery(p)
    \/ Rejudge(p) \/ RenameAway(p) \/ Retry(p)

Step(p) ==
    \/ MakeLock(p) \/ MeetLock(p) \/ WriteOwner(p) \/ TakeTurn(p) \/ StartCommand(p)
    \/ Finish(p) \/ EmptyLock(p) \/ RemoveLock(p) \/ Poll(p) \/ Leave(p)

Next == \E p \in Wrappers :
    Register(p) \/ Step(p) \/ RecordChild(p) \/ CommandEnds(p) \/ GiveUp(p) \/ Kill(p)

Spec == Init /\ [][Next]_vars

\* A wrapper keeps executing and polling.  Nobody has to ask or to give up,
\* and a command may run for ever.
Fairness == \A p \in Wrappers : WF_vars(Step(p))
FairSpec == Spec /\ Fairness

----------------------------------------------------------------------------
(* Properties *)

\* Two commands never run at once under one key, whichever wrappers were
\* killed and however their lock was recovered.  One way is left: a recheck
\* that has read the owner of one directory ends in the rename of another,
\* whose wrapper or command is live.
OneCommand ==
    \A p, q \in Wrappers : CommandLives(p) /\ CommandLives(q) => p = q
CommandIsAlone == TypeOK /\ (robbed \/ OneCommand)

\* A lock is reclaimed only after both the wrapper that made it and its
\* command are dead, or when the directory was replaced while the recheck was
\* between its first read and its decision.
ReclaimsOnlyTheDead ==
    [][ \A p \in Wrappers :
          pc[p] = "rename" /\ pc'[p] = "mkdir" =>
              lock.maker \notin Alive \/ switched \/ robbed ]_vars

\* A wrapper is inside from the directory it made until it removed it or its
\* command ended.
Owning == {"own", "turn", "start", "wait", "unlink", "rmdir", "yield", "yielded"}
Inside == {p \in Alive : pc[p] \in Owning \/ CommandLives(p)}
Holder == IF Exists THEN lock.maker ELSE None

Abstract == INSTANCE ExclusiveLock WITH
    Procs <- Wrappers, NoOwner <- None,
    holder <- Holder, inside <- Inside, running <- Alive

\* The lease is a lock: who made it stays its holder until it removes it
\* itself, killed or not as long as its command runs, and only a pair that is
\* dead is dispossessed.  It is one in every behaviour, and at each step of
\* one, until a live lease is robbed after a switch.
LockUntilRobbed ==
    /\ Abstract!Init
    /\ [][robbed' \/ Abstract!Next]_<<Holder, Inside, Alive>>

\* No command starts while a caller that asked earlier still waits: a later
\* waiter does not pass it by the timing of its retries.
Polling == {"mkdir", "look", "owner", "child", "judge", "recover", "relook", "reowner",
            "rechild", "rejudge", "rename", "sleep"}
Waiting(p) == p \in running /\ pc[p] \in Polling \cup {"own", "turn", "yield", "yielded"}
Before(q, p) == asked[q] # 0 /\ asked[q] < asked[p]
OldestFirst ==
    [][ \A p \in Wrappers :
          command[p] = "none" /\ command'[p] = "starting" =>
              \A q \in Wrappers : Before(q, p) => ~Waiting(q) ]_vars

\* The lock of a dead wrapper and a dead command does not stay while anybody
\* goes on waiting for it.
LeftBehind ==
    Exists /\ lock.maker \notin running /\ Verdict(lock.owner, lock.child) = "dead"
Waits(p) == p \in running /\ pc[p] \in Polling
DeadLeaseRecovered == LeftBehind ~> ~LeftBehind \/ ~(\E p \in Wrappers : Waits(p))
=============================================================================
