----------------------------- MODULE WorkerSeat -----------------------------
(***************************************************************************)
(* The life of one participant's seat in one task: spawn lifts a session    *)
(* into it, stop ends the session, sweep takes the worktree of an accepted  *)
(* piece, abandon records a death nobody can prove, done closes the task    *)
(* and cleans up.  Five commands, each a process of its own, meet in the    *)
(* participant's journal entry, the harness's session record, the worktree  *)
(* and the task's lock.                                                     *)
(*                                                                         *)
(* harness "codex" is the native one: a launch is reserved in the journal   *)
(* under the task's lock before anything else, and a seat is lifted again,  *)
(* swept or closed only with a proof that its last launch is over.  On      *)
(* "claude" the journal entry is written after the worktree is there, and   *)
(* liveness is what the session list says.                                  *)
(*                                                                         *)
(* The lock of the task is as module ExclusiveLock says; a crashed          *)
(* holder's lock is free again.                                             *)
(***************************************************************************)
EXTENDS Naturals, FiniteSets

CONSTANTS
    Procs,        \* the processes commands run in
    Harnesses,    \* a subset of {"codex", "claude"}
    MaxLaunch,    \* how many lifts reach the journal, at most
    MaxCrashes,   \* how many commands die in the middle, at most
    None

ASSUME WorkerSeatAssumption ==
    /\ Harnesses \subseteq {"codex", "claude"} /\ Harnesses # {}
    /\ MaxLaunch \in Nat \ {0}
    /\ MaxCrashes \in Nat
    /\ None \notin Procs \cup Nat

VARIABLES
    harness,   \* of the seat
    task,      \* "active" or "done"
    seat,      \* the participant in the journal, or None
    record,    \* the native registry: the launch whose record exists, or None
    session,   \* each launch's session: none, starting, alive, dead, or
               \* stopped with its receipts confirmed
    tree,      \* the worktree is on disk
    lock,      \* who holds the task's lock over more than one step
    pc,
    seen,      \* the participant a command read before it acts on it
    mine,      \* the launch a command works on
    launched,  \* the last launch given out
    crashes

vars == <<harness, task, seat, record, session, tree, lock, pc, seen, mine, launched, crashes>>
local == <<seen, mine>>

Launches == 1..MaxLaunch
native == harness = "codex"

(* The participant as the lift writes it: whole, so marks of the launch     *)
(* before it are gone.                                                      *)
Fresh(g) == [launch |-> g, bound |-> FALSE, stopped |-> FALSE,
             unlaunched |-> FALSE, abandoned |-> FALSE]

Seat == [launch : Launches, bound : BOOLEAN, stopped : BOOLEAN,
         unlaunched : BOOLEAN, abandoned : BOOLEAN]

ASSUME NoSeatAssumption == None \notin Seat

Running == {g \in Launches : session[g] \in {"starting", "alive"}}
Visible == {g \in Launches : session[g] = "alive"}

(* What the harness answers about the seat's session.  A native record      *)
(* whose holder has not named a thread reads alive within the budget and    *)
(* dead after it; a Claude session is read off the list of sessions.        *)
ReadsAlive ==
    IF native THEN record # None /\ session[record] \in {"none", "starting", "alive"}
              ELSE Visible # {}
ReadsDead ==
    IF native THEN record # None => session[record] # "alive"
              ELSE Visible = {}

(* terminalProof: no session record, and a launch that never reached its    *)
(* driver or one whose confirmed stop is retained.                          *)
Over(p) ==
    /\ record = None
    /\ p.unlaunched \/ (p.bound /\ p.stopped)

(* abandonmentAllowsClose: the mark counts while the session reads dead.    *)
Retired(p) == p.abandoned /\ ReadsDead

\* mutant: a piece is judged by what the session registry says alone
IdleByLiveness == seat # None => ReadsDead

(* requireNativeIdle for this seat, registry walk included.                 *)
Idle ==
    native /\ seat # None /\ ~Over(seat) =>
        /\ Retired(seat)
        /\ record # None => session[record] \in {"dead", "stopped"}

LockFree == lock = None
At(p, step) == pc[p] = step
Go(p, step) == pc' = [pc EXCEPT ![p] = step]

(* The command ends: done, refused, or failed.                              *)
Leave(p) ==
    /\ Go(p, "idle")
    /\ seen' = [seen EXCEPT ![p] = None]
    /\ mine' = [mine EXCEPT ![p] = None]

Init ==
    /\ harness \in Harnesses
    /\ task = "active"
    /\ seat = None
    /\ record = None
    /\ session = [g \in Launches |-> "none"]
    /\ tree = FALSE
    /\ lock = None
    /\ pc = [p \in Procs |-> "idle"]
    /\ seen = [p \in Procs |-> None]
    /\ mine = [p \in Procs |-> None]
    /\ launched = 0
    /\ crashes = 0

-----------------------------------------------------------------------------
(* spawn                                                                    *)

(* planSpawn reads the participant, then asks after its session.            *)
PlanLift(p) ==
    /\ At(p, "idle") /\ task = "active" /\ launched < MaxLaunch
    /\ seen' = [seen EXCEPT ![p] = seat]
    /\ Go(p, "look")
    /\ UNCHANGED <<harness, task, seat, record, session, tree, lock, mine, launched, crashes>>

LiftRefused(p) ==
    /\ At(p, "look")
    /\ seen[p] # None /\ ReadsAlive
    /\ Leave(p)
    /\ UNCHANGED <<harness, task, seat, record, session, tree, lock, launched, crashes>>

LiftPlanned(p) ==
    /\ At(p, "look")
    /\ seen[p] = None \/ ReadsDead
    /\ Go(p, IF native THEN "reserve" ELSE "tree")
    /\ UNCHANGED <<harness, task, seat, record, session, tree, lock, local, launched, crashes>>

\* mutant: the seat is reserved over whatever stands in it
ReserveOverAny(p) == task = "active"

(* reserveNativeParticipant: the task still runs, the native seat is the    *)
(* one the lift was planned over, and its last launch is over.              *)
MayReserve(p) ==
    /\ task = "active"
    /\ native => /\ seat = seen[p]
                 /\ seat # None => Over(seat)

Reserve(p) ==
    /\ At(p, "reserve") /\ LockFree /\ MayReserve(p)
    /\ launched < MaxLaunch
    /\ launched' = launched + 1
    /\ mine' = [mine EXCEPT ![p] = launched']
    /\ seat' = Fresh(launched')
    /\ Go(p, IF native THEN "tree" ELSE "prepare")
    /\ UNCHANGED <<harness, task, record, session, tree, lock, seen, crashes>>

ReserveRefused(p) ==
    /\ At(p, "reserve") /\ LockFree
    /\ ~MayReserve(p) \/ launched = MaxLaunch
    /\ Leave(p)
    /\ UNCHANGED <<harness, task, seat, record, session, tree, lock, launched, crashes>>

(* The worktree: there from an earlier lift, or created now.                *)
MakeTree(p) ==
    /\ At(p, "tree")
    /\ tree' = TRUE
    /\ Go(p, IF native THEN "prepare" ELSE "reserve")
    /\ UNCHANGED <<harness, task, seat, record, session, lock, local, launched, crashes>>

(* Dependencies, the repository's generator, the client of the shared       *)
(* service, the launch files.                                               *)
Prepare(p) ==
    /\ At(p, "prepare")
    /\ Go(p, IF native THEN "stage" ELSE "start")
    /\ UNCHANGED <<harness, task, seat, record, session, tree, lock, local, launched, crashes>>

(* Either of the two fails before the driver is asked.                      *)
LiftFails(p) ==
    /\ pc[p] \in {"tree", "prepare"}
    /\ IF native THEN Go(p, "release") /\ UNCHANGED local ELSE Leave(p)
    /\ UNCHANGED <<harness, task, seat, record, session, tree, lock, launched, crashes>>

\* mutant: the failed lift gives nothing back
ReleaseForgets(p) == seat

(* releaseNativeReservation: the launch is marked as never launched, unless *)
(* the seat moved on.                                                       *)
Released(p) ==
    IF /\ task = "active" /\ seat.launch = mine[p]
       /\ ~seat.bound /\ ~seat.stopped /\ record = None
    THEN [seat EXCEPT !.unlaunched = TRUE] ELSE seat

Release(p) ==
    /\ At(p, "release") /\ LockFree
    /\ seat' = Released(p)
    /\ Leave(p)
    /\ UNCHANGED <<harness, task, record, session, tree, lock, launched, crashes>>

(* driver-codex spawn: the record is staged before anything that can fail.  *)
Stage(p) ==
    /\ At(p, "stage")
    /\ record' = mine[p]
    /\ Go(p, "start")
    /\ UNCHANGED <<harness, task, seat, session, tree, lock, local, launched, crashes>>

(* The holder, or claude --bg, is started; it runs on whatever becomes of   *)
(* the command.  A command line needs its directory.                        *)
Start(p) ==
    /\ At(p, "start") /\ tree
    /\ session' = [session EXCEPT ![mine[p]] = "starting"]
    /\ Go(p, "bind")
    /\ UNCHANGED <<harness, task, seat, record, tree, lock, local, launched, crashes>>

StartFails(p) ==
    /\ At(p, "start")
    /\ IF native THEN Go(p, "discard") /\ UNCHANGED local ELSE Leave(p)
    /\ UNCHANGED <<harness, task, seat, record, session, tree, lock, launched, crashes>>

(* waitReady: the holder named its thread in the record of this launch.     *)
ThreadReady(p) ==
    /\ At(p, "bind") /\ native
    /\ session[mine[p]] = "alive" /\ record = mine[p]
    /\ Go(p, "persist")
    /\ UNCHANGED <<harness, task, seat, record, session, tree, lock, local, launched, crashes>>

ThreadLate(p) ==
    /\ At(p, "bind") /\ native
    /\ Go(p, "reap")
    /\ UNCHANGED <<harness, task, seat, record, session, tree, lock, local, launched, crashes>>

(* persistNativeParticipant, under the task's lock: the seat still waits    *)
(* for this launch.  What became of the session meanwhile is not asked.     *)
MayBind(p) ==
    /\ task = "active" /\ seat.launch = mine[p]
    /\ ~seat.stopped /\ ~seat.unlaunched

Bind(p) ==
    /\ At(p, "persist") /\ LockFree /\ MayBind(p)
    /\ seat' = [seat EXCEPT !.bound = TRUE]
    /\ Go(p, "settle")
    /\ UNCHANGED <<harness, task, record, session, tree, lock, local, launched, crashes>>

BindRefused(p) ==
    /\ At(p, "persist")
    /\ LockFree => ~MayBind(p)
    /\ Go(p, "reap")
    /\ UNCHANGED <<harness, task, seat, record, session, tree, lock, local, launched, crashes>>

(* The service is told, the holder starts the first turn and says so; or    *)
(* one of these fails over a seat that is bound.                            *)
Settled(p) ==
    /\ At(p, "settle")
    /\ session[mine[p]] = "alive" /\ record = mine[p]
    /\ Leave(p)
    /\ UNCHANGED <<harness, task, seat, record, session, tree, lock, launched, crashes>>

SettleFails(p) ==
    /\ At(p, "settle")
    /\ Go(p, "reap")
    /\ UNCHANGED <<harness, task, seat, record, session, tree, lock, local, launched, crashes>>

(* persistLegacyParticipant writes the entry of this lift whole; what it    *)
(* saw of the session does not matter to the entry.                         *)
BindLegacy(p) ==
    /\ At(p, "bind") /\ ~native /\ LockFree
    /\ IF task = "active" THEN seat' = [Fresh(mine[p]) EXCEPT !.bound = TRUE]
                          ELSE UNCHANGED seat
    /\ Leave(p)
    /\ UNCHANGED <<harness, task, record, session, tree, lock, launched, crashes>>

(* reapHolder: a running holder of this launch is shut down, and one that   *)
(* has no thread yet cannot confirm it.                                     *)
Reap(p) ==
    /\ At(p, "reap")
    /\ record = mine[p] /\ session[mine[p]] # "starting"
    /\ session' = IF session[mine[p]] = "alive"
                  THEN [session EXCEPT ![mine[p]] = "stopped"] ELSE session
    /\ Go(p, "discard")
    /\ UNCHANGED <<harness, task, seat, record, tree, lock, local, launched, crashes>>

ReapUnconfirmed(p) ==
    /\ At(p, "reap")
    /\ Leave(p)
    /\ UNCHANGED <<harness, task, seat, record, session, tree, lock, launched, crashes>>

(* discardLaunch: the record of this launch is dropped.  The seat keeps its *)
(* reservation or its binding: the driver was asked.                        *)
Discard(p) ==
    /\ At(p, "discard") /\ LockFree
    /\ record' = IF record = mine[p] THEN None ELSE record
    /\ Leave(p)
    /\ UNCHANGED <<harness, task, seat, session, tree, lock, launched, crashes>>

-----------------------------------------------------------------------------
(* stop, alone and as a part of done                                        *)

Retiring == [idle |-> "retire", stopall |-> "closeRetire"]
AfterStop(p) == IF pc[p] \in {"stopall", "closeRetire"} THEN "clear" ELSE "idle"

(* The driver's stop asks the holder, unless an earlier stop was confirmed. *)
CanConfirm == record # None /\ session[record] \in {"alive", "stopped"}

AskShutdown(p) ==
    /\ pc[p] \in {"idle", "stopall"} /\ native
    /\ At(p, "idle") => seat # None
    /\ CanConfirm
    /\ session' = [session EXCEPT ![record] = "stopped"]
    /\ mine' = [mine EXCEPT ![p] = record]
    /\ Go(p, Retiring[pc[p]])
    /\ UNCHANGED <<harness, task, seat, record, tree, lock, seen, launched, crashes>>

(* The stop is over: done has its worktrees left to clear.                  *)
EndStop(p) ==
    IF pc[p] \in {"closeRetire", "closeDrop"}
    THEN Go(p, "clear") /\ mine' = [mine EXCEPT ![p] = None] /\ UNCHANGED seen
    ELSE Leave(p)

\* mutant: a stop that is retained already is refused
MayRetainOnce(p) ==
    /\ record = mine[p]
    /\ seat.launch = mine[p] /\ seat.bound /\ ~seat.stopped

(* Under the task's and the session's lock: the record is still this        *)
(* launch's and the seat names its session.  The same proof is retained     *)
(* again.                                                                   *)
MayRetain(p) ==
    /\ record = mine[p]
    /\ seat.launch = mine[p] /\ seat.bound

Dropping == [retire |-> "drop", closeRetire |-> "closeDrop"]

(* retainNativeStop: the proof goes into the journal first.                 *)
RetainStop(p) ==
    /\ pc[p] \in {"retire", "closeRetire"} /\ LockFree /\ MayRetain(p)
    /\ seat' = [seat EXCEPT !.stopped = TRUE]
    /\ lock' = p
    /\ Go(p, Dropping[pc[p]])
    /\ UNCHANGED <<harness, task, record, session, tree, local, launched, crashes>>

(* The record changed, the seat is another's, or the deadline has elapsed.  *)
RetainRefused(p) ==
    /\ pc[p] \in {"retire", "closeRetire"}
    /\ EndStop(p)
    /\ UNCHANGED <<harness, task, seat, record, session, tree, lock, launched, crashes>>

(* dropSession, under the same locks.                                       *)
DropRecord(p) ==
    /\ pc[p] \in {"drop", "closeDrop"}
    /\ record' = None
    /\ lock' = None
    /\ EndStop(p)
    /\ UNCHANGED <<harness, task, seat, session, tree, launched, crashes>>

(* The deadline elapses between the two: a stop is retained and the record  *)
(* stands.                                                                  *)
DropTooLate(p) ==
    /\ pc[p] \in {"drop", "closeDrop"}
    /\ lock' = None
    /\ EndStop(p)
    /\ UNCHANGED <<harness, task, seat, record, session, tree, launched, crashes>>

(* claude stop ends the one session it finds by its name.                   *)
StopLegacy(p) ==
    /\ pc[p] \in {"idle", "stopall"} /\ ~native
    /\ At(p, "idle") => seat # None
    /\ \E g \in Visible : session' = [session EXCEPT ![g] = "dead"]
    /\ Go(p, AfterStop(p))
    /\ UNCHANGED <<harness, task, seat, record, tree, lock, local, launched, crashes>>

(* stopManaged: nothing reads alive, or a stop that is not confirmed.       *)
StopSkipped(p) ==
    /\ At(p, "stopall")
    /\ Go(p, "clear")
    /\ UNCHANGED <<harness, task, seat, record, session, tree, lock, local, launched, crashes>>

-----------------------------------------------------------------------------
(* sweep                                                                    *)

(* A sweep starts from a session that reads dead, and keeps a mark of the   *)
(* lift it saw.                                                             *)
LookAtPiece(p) ==
    /\ At(p, "idle") /\ task = "active" /\ seat # None /\ ReadsDead
    /\ mine' = [mine EXCEPT ![p] = seat.launch]
    /\ Go(p, "take")
    /\ UNCHANGED <<harness, task, seat, record, session, tree, lock, seen, launched, crashes>>

(* takePiece, under the task's lock: the same lift, still dead, and idle.   *)
MayTake(p) == seat.launch = mine[p] /\ ReadsDead /\ Idle

TakePiece(p) ==
    /\ At(p, "take") /\ LockFree /\ MayTake(p)
    /\ lock' = p
    /\ Go(p, "remove")
    /\ UNCHANGED <<harness, task, seat, record, session, tree, local, launched, crashes>>

TakeRefused(p) ==
    /\ At(p, "take") /\ LockFree /\ ~MayTake(p)
    /\ Leave(p)
    /\ UNCHANGED <<harness, task, seat, record, session, tree, lock, launched, crashes>>

(* After the harness's own hook was awaited: the tree goes, or stays when   *)
(* it is dirty or holds work that is not in the default branch.             *)
RemoveTree(p) ==
    /\ At(p, "remove")
    /\ tree' \in {tree, FALSE}
    /\ lock' = None
    /\ Leave(p)
    /\ UNCHANGED <<harness, task, seat, record, session, launched, crashes>>

-----------------------------------------------------------------------------
(* abandon: a session that reads dead before the lock and under it is       *)
(* recorded as one whose stop nobody can prove.                             *)

LookAtDead(p) ==
    /\ At(p, "idle") /\ seat # None /\ ~Retired(seat) /\ ReadsDead
    /\ Go(p, "abandon")
    /\ UNCHANGED <<harness, task, seat, record, session, tree, lock, local, launched, crashes>>

Abandon(p) ==
    /\ At(p, "abandon") /\ LockFree
    /\ seat' = IF ReadsDead THEN [seat EXCEPT !.abandoned = TRUE] ELSE seat
    /\ Leave(p)
    /\ UNCHANGED <<harness, task, record, session, tree, lock, launched, crashes>>

-----------------------------------------------------------------------------
(* done                                                                     *)

(* The task is closed under its lock, once its native seats are idle; a     *)
(* second done cleans up again, on a native task not even that.             *)
Close(p) ==
    /\ At(p, "idle") /\ LockFree /\ seat # None
    /\ IF task = "active" THEN Idle ELSE ~native
    /\ task' = "done"
    /\ Go(p, "stopall")
    /\ UNCHANGED <<harness, seat, record, session, tree, lock, local, launched, crashes>>

(* sweepWorktrees of a closed task: the tree of a dead session, under no    *)
(* lock, some time after the session was looked at.                         *)
Clear(p) ==
    /\ At(p, "clear")
    /\ IF ReadsDead /\ tree THEN Go(p, "cleartree") /\ UNCHANGED local ELSE Leave(p)
    /\ UNCHANGED <<harness, task, seat, record, session, tree, lock, launched, crashes>>

ClearTree(p) ==
    /\ At(p, "cleartree")
    /\ tree' \in {tree, FALSE}
    /\ Leave(p)
    /\ UNCHANGED <<harness, task, seat, record, session, lock, launched, crashes>>

-----------------------------------------------------------------------------
(* The sessions, on their own; a native one lives as long as its record     *)
(* names it.                                                                *)

SessionRises(g) ==
    /\ session[g] = "starting"
    /\ session' = [session EXCEPT ![g] = "alive"]
    /\ UNCHANGED <<harness, task, seat, record, tree, lock, pc, local, launched, crashes>>

SessionDies(g) ==
    /\ session[g] \in {"starting", "alive"}
    /\ session' = [session EXCEPT ![g] = "dead"]
    /\ UNCHANGED <<harness, task, seat, record, tree, lock, pc, local, launched, crashes>>

(* A command dies; its lock is found dead and dropped.                      *)
Crash(p) ==
    /\ pc[p] # "idle" /\ crashes < MaxCrashes
    /\ crashes' = crashes + 1
    /\ lock' = IF lock = p THEN None ELSE lock
    /\ Leave(p)
    /\ UNCHANGED <<harness, task, seat, record, session, tree, launched>>

Lift(p) == \/ PlanLift(p) \/ LiftRefused(p) \/ LiftPlanned(p)
           \/ Reserve(p) \/ ReserveRefused(p) \/ MakeTree(p) \/ Prepare(p)
           \/ LiftFails(p) \/ Release(p) \/ Stage(p) \/ Start(p) \/ StartFails(p)
           \/ ThreadReady(p) \/ ThreadLate(p) \/ Bind(p) \/ BindRefused(p)
           \/ Settled(p) \/ SettleFails(p) \/ BindLegacy(p)
           \/ Reap(p) \/ ReapUnconfirmed(p) \/ Discard(p)
Stop(p) == \/ AskShutdown(p) \/ RetainStop(p) \/ RetainRefused(p)
           \/ DropRecord(p) \/ DropTooLate(p) \/ StopLegacy(p) \/ StopSkipped(p)
Sweep(p) == LookAtPiece(p) \/ TakePiece(p) \/ TakeRefused(p) \/ RemoveTree(p)
GiveUp(p) == LookAtDead(p) \/ Abandon(p)
Done(p) == Close(p) \/ Clear(p) \/ ClearTree(p)

Next ==
    \/ \E p \in Procs : Lift(p) \/ Stop(p) \/ Sweep(p) \/ GiveUp(p) \/ Done(p) \/ Crash(p)
    \/ \E g \in Launches : SessionRises(g) \/ SessionDies(g)

(* The steps a command takes once it is begun.  Whoever waits for the       *)
(* task's lock gets it in the end, the owner of a session that should end   *)
(* repeats the stop, and of stops without end not all run out of their time *)
(* before the lock is free, before the proof is written, or after it.       *)
Continue(p) == pc[p] # "idle" /\ (Lift(p) \/ Stop(p) \/ Sweep(p) \/ GiveUp(p) \/ Done(p))

StopWaits == \E p \in Procs : pc[p] \in {"retire", "closeRetire"}

Fairness ==
    /\ \A p \in Procs : SF_vars(Continue(p))
    /\ SF_vars(\E p \in Procs : At(p, "idle") /\ AskShutdown(p))
    /\ <>[]~StopWaits \/ []<>(StopWaits /\ LockFree)
    /\ SF_vars(\E p \in Procs : RetainStop(p))
    /\ SF_vars(\E p \in Procs : DropRecord(p))

Spec == Init /\ [][Next]_vars /\ Fairness

-----------------------------------------------------------------------------
(* Properties                                                               *)

(* Every variable stays in its set, and a lock's holder is a sweep that     *)
(* removes or a stop that drops the record.                                 *)
Steps == {"idle", "look", "reserve", "tree", "prepare", "release", "stage", "start",
          "bind", "persist", "settle", "reap", "discard", "retire", "drop", "take", "remove", "abandon",
          "stopall", "closeRetire", "closeDrop", "clear", "cleartree"}

TypeOK ==
    /\ harness \in Harnesses
    /\ task \in {"active", "done"}
    /\ seat \in Seat \cup {None}
    /\ record \in Launches \cup {None}
    /\ session \in [Launches -> {"none", "starting", "alive", "dead", "stopped"}]
    /\ tree \in BOOLEAN
    /\ lock \in Procs \cup {None}
    /\ pc \in [Procs -> Steps]
    /\ seen \in [Procs -> Seat \cup {None}]
    /\ mine \in [Procs -> Launches \cup {None}]
    /\ launched \in 0..MaxLaunch
    /\ crashes \in 0..MaxCrashes
    /\ lock # None => pc[lock] \in {"remove", "drop", "closeDrop"}

(* spawn.ts, driver-codex.ts: a native session that runs is the one the     *)
(* registry's record names, whatever failed or was refused on the way, and  *)
(* the seat is still its launch's.  So there is at most one, and a command  *)
(* that wants to stop it has a handle.                                      *)
SessionHasHandle ==
    native => \A g \in Running : record = g /\ seat # None /\ seat.launch = g

(* sweep.ts, done.ts: no cleanup takes the worktree from under a native     *)
(* session, or from under a lift that is about to start one.  A seat its    *)
(* owner abandoned is the exception: its launch was declared dead.          *)
Lifting == {p \in Procs : pc[p] \in {"prepare", "stage", "start", "bind", "persist"}}

TreeOutlivesSession ==
    native /\ seat # None /\ ~seat.abandoned /\ (Running # {} \/ Lifting # {})
        => tree

(* done.ts:337-345: a native task is closed only over sessions that are     *)
(* proved over, and none comes up behind the close.                         *)
ClosedIsOver ==
    native /\ task = "done" /\ ~seat.abandoned =>
        Running = {} /\ record = None /\ Lifting = {}

SeatIsOver == seat # None /\ Over(seat)
SessionDied == seat # None /\ session[seat.launch] = "dead"

(* native-lifecycle.ts:229-242: a launch marked as never launched has had   *)
(* no session, and a launch a lift may replace is really over.              *)
OverMeansOver ==
    native /\ SeatIsOver =>
        /\ session[seat.launch] \in {"none", "dead", "stopped"}
        /\ seat.unlaunched => session[seat.launch] = "none"
        /\ \A p \in Lifting : mine[p] # seat.launch

(* What the commands of an address read of each other holds: the seat and   *)
(* the record name the session that runs, and over is over.                 *)
SeatIsSound == TypeOK /\ SessionHasHandle /\ OverMeansOver

(* No cleanup and no close works under a session.                           *)
CleanupSparesSession == TreeOutlivesSession /\ ClosedIsOver

(* native-lifecycle.ts:229: a native lift that fails before its driver is   *)
(* asked gives the seat back, whatever else runs and whoever died before:   *)
(* stated of a lift that fails once no more commands die.                   *)
FailureFreesSeat ==
    (crashes = MaxCrashes /\ task = "active" /\ \E p \in Procs : At(p, "release"))
        ~> (SeatIsOver \/ task = "done")

(* The lift that bound the seat has come to its end, or died.               *)
LiftIsOver ==
    \A p \in Procs : pc[p] \in {"settle", "reap", "discard"} => mine[p] # seat.launch

(* driver-codex.ts:1459-1512: a bound session that is stopped, again if     *)
(* need be, leaves a seat that can be lifted again, though a command that   *)
(* stops it runs out of time or dies between any two of the confirmation,   *)
(* the proof in the journal and the drop of the record.                     *)
StopFreesSeat ==
    (native /\ seat # None /\ seat.bound /\ record = seat.launch /\ LiftIsOver)
        ~> (SeatIsOver \/ SessionDied)

=============================================================================
