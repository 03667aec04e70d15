------------------------- MODULE WorkerSeat_proofs -------------------------
(***************************************************************************)
(* Proofs about WorkerSeat, for any number of processes, lifts and crashes. *)
(* What makes them go through is a reading of a native seat that no single  *)
(* command has: a launch has one lift, the seat is that lift's from its     *)
(* reservation to its binding, and nothing may retire, release or replace   *)
(* what it reserved before that.  After the binding the seat belongs to     *)
(* whoever stops it, while the lift may still be at work behind.            *)
(***************************************************************************)
EXTENDS WorkerSeat, SessionHolder, SequenceTheorems, TLAPS

\* The places of a native lift: before its record is staged, while the seat
\* waits for it, and after it was bound or refused.
Early == {"tree", "prepare", "release", "stage"}
AtWork == Early \cup {"start", "bind", "persist"}
Late == {"settle", "reap", "discard"}
LiftPcs == AtWork \cup Late

\* The places of a native stop: before its proof is written, and after.
Retaining == {"retire", "closeRetire"}
DropPcs == {"drop", "closeDrop"}
Stopping == Retaining \cup DropPcs

\* What a place says of the command that is there.
StepsFit ==
    \A p \in Procs :
        /\ pc[p] \in (LiftPcs \ {"tree"}) \cup Stopping => mine[p] \in 1..launched
        /\ native /\ pc[p] = "tree" => mine[p] \in 1..launched
        /\ pc[p] \in {"release", "stage", "persist"} \cup Late \cup Stopping => native
        /\ pc[p] \in {"take", "abandon"} => seat # None
        /\ pc[p] \in {"stopall", "closeRetire", "closeDrop", "clear", "cleartree"} => task = "done"
        /\ pc[p] \in {"remove"} \cup DropPcs => lock = p

\* A launch that was not given out has left nothing.
Unused ==
    /\ record # None => record <= launched
    /\ \A g \in Launches : g > launched => session[g] = "none"

\* The seat is the lift's for as long as it waits for the lift.
SeatIsLifters ==
    native => \A p \in Procs : pc[p] \in AtWork =>
        /\ seat # None /\ seat.launch = mine[p]
        /\ ~seat.bound /\ ~seat.stopped /\ ~seat.unlaunched

\* Every launch has one lift.
OneLifter ==
    native => \A p, q \in Procs :
        pc[p] \in LiftPcs /\ pc[q] \in LiftPcs /\ mine[p] = mine[q] => p = q

\* What the registry and the session are at each place of a lift.
RecordStands ==
    native => \A p \in Procs :
        /\ pc[p] \in Early => record = None
        /\ pc[p] \in AtWork \ Early => record = mine[p]
        /\ pc[p] \in Early \cup {"start"} => session[mine[p]] = "none"
        /\ pc[p] = "discard" => session[mine[p]] \notin {"starting", "alive"}

RecordIsSeats == native /\ record # None => seat # None /\ seat.launch = record

RunningHasRecord == native => \A g \in Running : record = g

\* The journal's marks are what happened.
MarksAreTrue ==
    native /\ seat # None =>
        /\ seat.stopped => seat.bound /\ session[seat.launch] = "stopped"
        /\ seat.unlaunched => record = None /\ session[seat.launch] = "none"

\* A stop that reached the journal asked a holder that confirmed, and the
\* record it is about to drop is the one of the seat it marked.
StopConfirmed ==
    \A p \in Procs :
        /\ pc[p] \in Stopping => session[mine[p]] = "stopped"
        /\ pc[p] \in DropPcs => seat # None /\ seat.stopped

\* Who removes a worktree, and who closed a task, saw the seat free.
SeatIsFree == seat # None /\ (Over(seat) \/ seat.abandoned)
FreeWhenRemoved == native => \A p \in Procs : pc[p] = "remove" => SeatIsFree
FreeWhenClosed == native /\ task = "done" => SeatIsFree

IInv ==
    /\ TypeOK
    /\ StepsFit
    /\ Unused
    /\ SeatIsLifters
    /\ OneLifter
    /\ RecordStands
    /\ RecordIsSeats
    /\ RunningHasRecord
    /\ MarksAreTrue
    /\ StopConfirmed
    /\ FreeWhenRemoved
    /\ FreeWhenClosed
    /\ TreeOutlivesSession

----------------------------------------------------------------------------
\* The invariant holds at first.
LEMMA InitIInv == Init => IInv
  <1> SUFFICES ASSUME Init PROVE IInv
    OBVIOUS
  <1> USE WorkerSeatAssumption, NoSeatAssumption DEF Init
  <1>1. TypeOK
    <2>1. /\ seat \in Seat \cup {None} /\ record \in Launches \cup {None}
          /\ session \in [Launches -> {"none", "starting", "alive", "dead", "stopped"}]
      OBVIOUS
    <2>2. launched \in 0..MaxLaunch /\ crashes \in 0..MaxCrashes
      OBVIOUS
    <2>3. /\ pc \in [Procs -> Steps] /\ seen \in [Procs -> Seat \cup {None}]
          /\ mine \in [Procs -> Launches \cup {None}]
      BY DEF Steps
    <2> QED
      BY <2>1, <2>2, <2>3 DEF TypeOK
  <1>2. StepsFit /\ SeatIsLifters /\ OneLifter /\ RecordStands /\ StopConfirmed /\ FreeWhenRemoved
    BY DEF StepsFit, SeatIsLifters, OneLifter, RecordStands, StopConfirmed, FreeWhenRemoved,
           LiftPcs, Early, AtWork, Late, Retaining, DropPcs, Stopping
  <1>3. Unused /\ RecordIsSeats /\ RunningHasRecord /\ MarksAreTrue
    BY DEF Unused, RecordIsSeats, RunningHasRecord, MarksAreTrue, Running
  <1>4. FreeWhenClosed /\ TreeOutlivesSession
    BY DEF FreeWhenClosed, TreeOutlivesSession
  <1> QED
    BY <1>1, <1>2, <1>3, <1>4 DEF IInv

----------------------------------------------------------------------------
(* Types.                                                                   *)

\* What a lift writes is a seat.
LEMMA FreshIsSeat == ASSUME NEW g \in Launches PROVE Fresh(g) \in Seat
  BY DEF Fresh, Seat

\* A mark leaves a seat a seat.
LEMMA MarkIsSeat ==
    ASSUME NEW s \in Seat
    PROVE  /\ [s EXCEPT !.bound = TRUE] \in Seat /\ [s EXCEPT !.stopped = TRUE] \in Seat
           /\ [s EXCEPT !.unlaunched = TRUE] \in Seat /\ [s EXCEPT !.abandoned = TRUE] \in Seat
  BY DEF Seat

\* What a command marks in a seat is never mistaken for no seat.
LEMMA MarkedStands ==
    ASSUME NEW s \in Seat \cup {None}
    PROVE  s # None => /\ [s EXCEPT !.bound = TRUE] # None /\ [s EXCEPT !.stopped = TRUE] # None
                       /\ [s EXCEPT !.unlaunched = TRUE] # None
                       /\ [s EXCEPT !.abandoned = TRUE] # None
  BY MarkIsSeat, NoSeatAssumption

\* A binding marks the seat and changes nothing else of it.
LEMMA BoundFields ==
    ASSUME NEW s \in Seat, NEW t, t = [s EXCEPT !.bound = TRUE]
    PROVE  /\ t # None /\ t.launch = s.launch /\ t.stopped = s.stopped
           /\ t.unlaunched = s.unlaunched /\ t.abandoned = s.abandoned
  <1>1. t # None
    BY MarkedStands, NoSeatAssumption
  <1>2. t.launch = s.launch /\ t.stopped = s.stopped
    BY DEF Seat
  <1>3. t.unlaunched = s.unlaunched /\ t.abandoned = s.abandoned
    BY DEF Seat
  <1> QED
    BY <1>1, <1>2, <1>3

\* Every step keeps the types.
LEMMA TypeStep == IInv /\ [Next]_vars => TypeOK'
  <1> SUFFICES ASSUME IInv, [Next]_vars PROVE TypeOK'
    OBVIOUS
  <1> USE WorkerSeatAssumption, NoSeatAssumption DEF TypeOK, Steps, At, Go, Leave, LockFree, local
  <1>0. TypeOK
    BY DEF IInv
  <1>1. CASE UNCHANGED vars
    BY <1>0, <1>1 DEF vars
  <1>2. ASSUME NEW p \in Procs,
               PlanLift(p) \/ LiftRefused(p) \/ LiftPlanned(p) \/ ReserveRefused(p) \/ LiftFails(p)
        PROVE TypeOK'
    BY <1>0, <1>2 DEF PlanLift, LiftRefused, LiftPlanned, ReserveRefused, LiftFails
  <1>3. ASSUME NEW p \in Procs, Reserve(p) PROVE TypeOK'
    <2>1. launched' \in Launches /\ launched' \in 0..MaxLaunch
      BY <1>0, <1>3 DEF Reserve, Launches
    <2>2. seat' \in Seat
      BY <1>3, <2>1, FreshIsSeat DEF Reserve
    <2> QED
      BY <1>0, <1>3, <2>1, <2>2 DEF Reserve
  <1>4. ASSUME NEW p \in Procs,
               \/ MakeTree(p) \/ Prepare(p) \/ StartFails(p) \/ ReapUnconfirmed(p) \/ Settled(p)
               \/ ThreadReady(p) \/ ThreadLate(p) \/ BindRefused(p) \/ SettleFails(p)
        PROVE TypeOK'
    <2>1. CASE \/ MakeTree(p) \/ Prepare(p) \/ ThreadReady(p) \/ ThreadLate(p)
               \/ BindRefused(p) \/ SettleFails(p)
      <3>1. \E step \in Steps : Go(p, step)
        BY <2>1, Zenon DEF MakeTree, Prepare, ThreadReady, ThreadLate, BindRefused, SettleFails
      <3>2. /\ tree' \in BOOLEAN
            /\ UNCHANGED <<harness, task, seat, record, session, lock, local, launched, crashes>>
        BY <1>0, <2>1 DEF MakeTree, Prepare, ThreadReady, ThreadLate, BindRefused, SettleFails
      <3>3. lock # None => lock # p
        BY <1>0, <2>1 DEF MakeTree, Prepare, ThreadReady, ThreadLate, BindRefused, SettleFails
      <3> QED
        BY <1>0, <3>1, <3>2, <3>3
    <2>2. CASE StartFails(p)
      <3>1. CASE native
        BY <1>0, <2>2, <3>1 DEF StartFails
      <3>2. CASE ~native
        BY <1>0, <2>2, <3>2 DEF StartFails
      <3> QED
        BY <3>1, <3>2
    <2>3. CASE ReapUnconfirmed(p) \/ Settled(p)
      BY <1>0, <2>3 DEF ReapUnconfirmed, Settled
    <2> QED
      BY <1>4, <2>1, <2>2, <2>3
  <1>5. ASSUME NEW p \in Procs, Release(p) PROVE TypeOK'
    <2>1. native
      BY <1>5 DEF IInv, StepsFit, Release
    <2>2. seat \in Seat
      BY <1>0, <1>5, <2>1 DEF IInv, SeatIsLifters, Release, AtWork, Early
    <2>3. seat' \in Seat
      BY <1>5, <2>2, MarkIsSeat DEF Release, Released
    <2> QED
      BY <1>0, <1>5, <2>3 DEF Release
  <1>6. ASSUME NEW p \in Procs, Stage(p) \/ Start(p) \/ Reap(p) \/ Discard(p) PROVE TypeOK'
    <2>1. mine[p] \in Launches
      BY <1>0, <1>6 
         DEF IInv, StepsFit, Stage, Start, Reap, Discard, LiftPcs, AtWork, Early, Late, Launches
    <2> QED
      BY <1>0, <1>6, <2>1 DEF Stage, Start, Reap, Discard
  <1>7. ASSUME NEW p \in Procs, Bind(p) PROVE TypeOK'
    <2>1. native
      BY <1>7 DEF IInv, StepsFit, Bind
    <2>2. seat \in Seat
      BY <1>0, <1>7, <2>1 DEF IInv, SeatIsLifters, Bind, AtWork
    <2> QED
      BY <1>0, <1>7, <2>2, MarkIsSeat DEF Bind
  <1>8. ASSUME NEW p \in Procs, BindLegacy(p) PROVE TypeOK'
    <2>1. mine[p] \in Launches
      BY <1>0, <1>8 DEF IInv, StepsFit, BindLegacy, LiftPcs, AtWork, Launches
    <2>2. [Fresh(mine[p]) EXCEPT !.bound = TRUE] \in Seat
      BY <2>1, FreshIsSeat, MarkIsSeat
    <2> QED
      BY <1>0, <1>8, <2>2 DEF BindLegacy
  <1>9. ASSUME NEW p \in Procs, AskShutdown(p) PROVE TypeOK'
    <2>1. record \in Launches
      BY <1>0, <1>9 DEF AskShutdown, CanConfirm
    <2>2. Retiring[pc[p]] \in {"retire", "closeRetire"}
      BY <1>9 DEF AskShutdown, Retiring
    <2> QED
      BY <1>0, <1>9, <2>1, <2>2 DEF AskShutdown
  <1>10. ASSUME NEW p \in Procs, RetainStop(p) PROVE TypeOK'
    <2>1. native /\ seat \in Seat
      BY <1>0, <1>10
         DEF IInv, StepsFit, RecordIsSeats, RetainStop, MayRetain, Stopping, Retaining, Launches
    <2>2. seat' \in Seat
      BY <1>10, <2>1, MarkIsSeat DEF RetainStop
    <2>3. Dropping[pc[p]] \in {"drop", "closeDrop"}
      BY <1>10 DEF RetainStop, Dropping
    <2> QED
      BY <1>0, <1>10, <2>2, <2>3 DEF RetainStop
  <1>17. ASSUME NEW p \in Procs, RetainRefused(p) \/ DropRecord(p) \/ DropTooLate(p) PROVE TypeOK'
    <2>1. pc' \in [Procs -> Steps] /\ mine' \in [Procs -> Launches \cup {None}]
          /\ seen' \in [Procs -> Seat \cup {None}]
      BY <1>0, <1>17 DEF RetainRefused, DropRecord, DropTooLate, EndStop
    <2>2. /\ UNCHANGED <<harness, task, seat, session, tree, launched, crashes>>
          /\ record' \in {record, None} /\ lock' \in {lock, None}
          /\ pc[p] \in {"retire", "closeRetire"} \/ lock' = None
          /\ \A q \in Procs : q # p => pc'[q] = pc[q]
      BY <1>0, <1>17 DEF RetainRefused, DropRecord, DropTooLate, EndStop
    <2> QED
      BY <1>0, <2>1, <2>2
  <1>11. ASSUME NEW p \in Procs, StopLegacy(p) \/ StopSkipped(p) PROVE TypeOK'
    BY <1>0, <1>11 DEF StopLegacy, StopSkipped, AfterStop
  <1>12. ASSUME NEW p \in Procs, Sweep(p) PROVE TypeOK'
    <2>1. CASE LookAtPiece(p)
      BY <1>0, <2>1 DEF LookAtPiece, Seat
    <2>2. CASE TakePiece(p) \/ TakeRefused(p)
      BY <1>0, <2>2 DEF TakePiece, TakeRefused
    <2>3. CASE RemoveTree(p)
      <3>1. tree' \in BOOLEAN
        BY <1>0, <2>3, Zenon DEF RemoveTree
      <3> QED
        BY <1>0, <2>3, <3>1 DEF RemoveTree
    <2> QED
      BY <1>12, <2>1, <2>2, <2>3 DEF Sweep
  <1>13. ASSUME NEW p \in Procs, GiveUp(p) PROVE TypeOK'
    <2>1. CASE LookAtDead(p)
      BY <1>0, <2>1 DEF LookAtDead
    <2>2. CASE Abandon(p)
      <3>1. seat \in Seat
        BY <1>0, <2>2 DEF IInv, StepsFit, Abandon
      <3> QED
        BY <1>0, <2>2, <3>1, MarkIsSeat DEF Abandon
    <2> QED
      BY <1>13, <2>1, <2>2 DEF GiveUp
  <1>14. ASSUME NEW p \in Procs, Done(p) PROVE TypeOK'
    <2>1. CASE Close(p)
      BY <1>0, <2>1 DEF Close
    <2>2. CASE Clear(p)
      BY <1>0, <2>2 DEF Clear
    <2>3. CASE ClearTree(p)
      <3>1. tree' \in BOOLEAN
        BY <1>0, <2>3, Zenon DEF ClearTree
      <3> QED
        BY <1>0, <2>3, <3>1 DEF ClearTree
    <2> QED
      BY <1>14, <2>1, <2>2, <2>3 DEF Done
  <1>15. ASSUME NEW p \in Procs, Crash(p) PROVE TypeOK'
    BY <1>0, <1>15 DEF Crash
  <1>16. ASSUME NEW g \in Launches, SessionRises(g) \/ SessionDies(g) PROVE TypeOK'
    BY <1>0, <1>16 DEF SessionRises, SessionDies
  <1> QED
    BY <1>1, <1>2, <1>3, <1>4, <1>5, <1>6, <1>7, <1>8, <1>9, <1>10, <1>11, <1>12, <1>13,
       <1>14, <1>15, <1>16, <1>17 DEF Next, Lift, Stop

----------------------------------------------------------------------------
(* The places of the commands.                                              *)

\* Every step keeps what the places say, and gives out launches in order.
LEMMA FitStep == IInv /\ TypeOK' /\ [Next]_vars => StepsFit' /\ Unused'
  <1> SUFFICES ASSUME IInv, TypeOK', [Next]_vars PROVE StepsFit' /\ Unused'
    OBVIOUS
  <1>a. TypeOK /\ StepsFit /\ Unused
    BY DEF IInv
  <1> USE WorkerSeatAssumption, NoSeatAssumption
      DEF TypeOK, Steps, StepsFit, Unused, LiftPcs, AtWork, Early, Late, Stopping, Retaining, DropPcs,
          Launches, At, Go, Leave, LockFree, local, native
  <1>1. CASE UNCHANGED vars
    BY <1>a, <1>1 DEF vars
  <1>2. ASSUME NEW p \in Procs, PlanLift(p) \/ LiftRefused(p) \/ LiftPlanned(p) \/ ReserveRefused(p)
        PROVE StepsFit' /\ Unused'
    BY <1>a, <1>2 DEF PlanLift, LiftRefused, LiftPlanned, ReserveRefused
  <1>3. ASSUME NEW p \in Procs, Reserve(p) PROVE StepsFit' /\ Unused'
    <2>1. seat' # None /\ launched' = launched + 1 /\ launched < MaxLaunch
      <3>1. launched' \in Launches
        BY <1>a, <1>3 DEF Reserve
      <3> QED
        BY <1>3, <3>1, FreshIsSeat DEF Reserve
    <2>2. Unused'
      BY <1>a, <1>3, <2>1 DEF Reserve
    <2>3. mine'[p] = launched' /\ pc'[p] \in {"tree", "prepare"} /\ (pc'[p] = "prepare" => ~native)
      BY <1>a, <1>3 DEF Reserve
    <2>4. \A q \in Procs : q # p => pc'[q] = pc[q] /\ mine'[q] = mine[q]
      BY <1>a, <1>3 DEF Reserve
    <2>5. UNCHANGED <<harness, task, lock>>
      BY <1>3 DEF Reserve
    <2> QED
      BY <1>a, <2>1, <2>2, <2>3, <2>4, <2>5
  <1>4. ASSUME NEW p \in Procs, MakeTree(p) \/ Prepare(p) \/ LiftFails(p)
        PROVE StepsFit' /\ Unused'
    <2>1. CASE MakeTree(p)
      BY <1>a, <2>1 DEF MakeTree
    <2>2. CASE Prepare(p)
      BY <1>a, <2>2 DEF Prepare
    <2>3. CASE LiftFails(p)
      BY <1>a, <2>3 DEF LiftFails
    <2> QED
      BY <1>4, <2>1, <2>2, <2>3
  <1>5. ASSUME NEW p \in Procs, Stage(p) \/ Start(p) \/ StartFails(p)
        PROVE StepsFit' /\ Unused'
    BY <1>a, <1>5 DEF Stage, Start, StartFails
  <1>6. ASSUME NEW p \in Procs, ThreadReady(p) \/ ThreadLate(p) \/ BindRefused(p) \/ SettleFails(p)
        PROVE StepsFit' /\ Unused'
    BY <1>a, <1>6 DEF ThreadReady, ThreadLate, BindRefused, SettleFails
  <1>14. ASSUME NEW p \in Procs, Settled(p) \/ ReapUnconfirmed(p) \/ Reap(p) \/ Discard(p)
        PROVE StepsFit' /\ Unused'
    BY <1>a, <1>14 DEF Settled, ReapUnconfirmed, Reap, Discard
  <1>7. ASSUME NEW p \in Procs, Release(p) \/ Bind(p) \/ BindLegacy(p) \/ Abandon(p)
        PROVE StepsFit' /\ Unused'
    <2>1. seat # None => seat' # None
      <3>1. CASE Release(p)
        BY <1>a, <3>1, MarkedStands DEF Release, Released
      <3>2. CASE Bind(p) \/ Abandon(p)
        BY <1>a, <3>2, MarkedStands DEF Bind, Abandon
      <3>3. CASE BindLegacy(p)
        <4>1. mine[p] \in Launches
          BY <1>a, <3>3 DEF BindLegacy
        <4>2. Fresh(mine[p]) \in Seat
          BY <4>1, FreshIsSeat
        <4>3. [Fresh(mine[p]) EXCEPT !.bound = TRUE] \in Seat
          BY <4>2, MarkIsSeat
        <4> QED
          BY <3>3, <4>3 DEF BindLegacy
      <3> QED
        BY <1>7, <3>1, <3>2, <3>3
    <2> QED
      BY <1>a, <1>7, <2>1 DEF Release, Bind, BindLegacy, Abandon
  <1>8. ASSUME NEW p \in Procs, AskShutdown(p) PROVE StepsFit' /\ Unused'
    BY <1>a, <1>8 DEF AskShutdown, Retiring, CanConfirm
  <1>9. ASSUME NEW p \in Procs, RetainStop(p) PROVE StepsFit' /\ Unused'
    <2>0. seat # None => seat' # None
      BY <1>a, <1>9, MarkedStands DEF RetainStop
    <2>1. CASE At(p, "retire")
      BY <1>a, <1>9, <2>0, <2>1 DEF RetainStop, Dropping
    <2>2. CASE At(p, "closeRetire")
      BY <1>a, <1>9, <2>0, <2>2 DEF RetainStop, Dropping
    <2> QED
      BY <1>9, <2>1, <2>2 DEF RetainStop
  <1>15. ASSUME NEW p \in Procs, RetainRefused(p) PROVE StepsFit' /\ Unused'
    BY <1>a, <1>15 DEF RetainRefused, EndStop
  <1>16. ASSUME NEW p \in Procs, DropRecord(p) \/ DropTooLate(p) PROVE StepsFit' /\ Unused'
    <2>1. CASE DropRecord(p)
      BY <1>a, <2>1 DEF DropRecord, EndStop
    <2>2. CASE DropTooLate(p)
      BY <1>a, <2>2 DEF DropTooLate, EndStop
    <2> QED
      BY <1>16, <2>1, <2>2
  <1>10. ASSUME NEW p \in Procs, StopLegacy(p) \/ StopSkipped(p) PROVE StepsFit' /\ Unused'
    BY <1>a, <1>10 DEF StopLegacy, StopSkipped, AfterStop, Visible
  <1>11. ASSUME NEW p \in Procs, Sweep(p) PROVE StepsFit' /\ Unused'
    <2>1. CASE LookAtPiece(p)
      BY <1>a, <2>1 DEF LookAtPiece
    <2>2. CASE TakePiece(p)
      BY <1>a, <2>2 DEF TakePiece
    <2>3. CASE TakeRefused(p)
      BY <1>a, <2>3 DEF TakeRefused
    <2>4. CASE RemoveTree(p)
      BY <1>a, <2>4 DEF RemoveTree
    <2> QED
      BY <1>11, <2>1, <2>2, <2>3, <2>4 DEF Sweep
  <1>12. ASSUME NEW p \in Procs, LookAtDead(p) \/ Done(p) \/ Crash(p) PROVE StepsFit' /\ Unused'
    <2>1. CASE LookAtDead(p)
      BY <1>a, <2>1 DEF LookAtDead
    <2>2. CASE Close(p)
      BY <1>a, <2>2 DEF Close
    <2>3. CASE Clear(p)
      BY <1>a, <2>3 DEF Clear
    <2>4. CASE ClearTree(p)
      BY <1>a, <2>4 DEF ClearTree
    <2>5. CASE Crash(p)
      BY <1>a, <2>5 DEF Crash
    <2> QED
      BY <1>12, <2>1, <2>2, <2>3, <2>4, <2>5 DEF Done
  <1>13. ASSUME NEW g \in Launches, SessionRises(g) \/ SessionDies(g) PROVE StepsFit' /\ Unused'
    BY <1>a, <1>13 DEF SessionRises, SessionDies
  <1> QED
    BY <1>1, <1>2, <1>3, <1>4, <1>5, <1>6, <1>7, <1>8, <1>9, <1>10, <1>11, <1>12, <1>13,
       <1>14, <1>15, <1>16 DEF Next, Lift, Stop, GiveUp

----------------------------------------------------------------------------
(* The seat.  Everything said of it is said of a native one, but for the    *)
(* stops, which only a native seat has.                                     *)

SeatInv ==
    /\ SeatIsLifters
    /\ OneLifter
    /\ RecordStands
    /\ RecordIsSeats
    /\ RunningHasRecord
    /\ MarksAreTrue
    /\ StopConfirmed
    /\ FreeWhenRemoved
    /\ FreeWhenClosed
    /\ TreeOutlivesSession

\* A seat stays with its harness.
LEMMA HarnessStays == [Next]_vars => harness' = harness
  <1> SUFFICES ASSUME [Next]_vars PROVE harness' = harness
    OBVIOUS
  <1>1. ASSUME NEW p \in Procs, Lift(p) PROVE harness' = harness
    BY <1>1 DEF Lift, PlanLift, LiftRefused, LiftPlanned, Reserve, ReserveRefused, MakeTree, Prepare,
       LiftFails, Release, Stage, Start, StartFails, ThreadReady, ThreadLate, Bind, BindRefused,
       Settled, SettleFails, BindLegacy, Reap, ReapUnconfirmed, Discard
  <1>2. ASSUME NEW p \in Procs, Stop(p) \/ Sweep(p) \/ GiveUp(p) \/ Done(p) \/ Crash(p)
        PROVE harness' = harness
    BY <1>2 DEF Stop, AskShutdown, RetainStop, RetainRefused, DropRecord, DropTooLate, StopLegacy,
       StopSkipped, Sweep, LookAtPiece, TakePiece, TakeRefused, RemoveTree, GiveUp, LookAtDead, Abandon,
       Done, Close, Clear, ClearTree, Crash
  <1> QED
    BY <1>1, <1>2 DEF Next, SessionRises, SessionDies, vars

\* Nothing is claimed of a seat that is not native.
LEMMA ForeignStep == ~native /\ StepsFit' /\ [Next]_vars => SeatInv'
  BY HarnessStays DEF native, StepsFit, Stopping, Retaining, DropPcs, SeatInv, SeatIsLifters, OneLifter,
                      RecordStands,
     RecordIsSeats, RunningHasRecord, MarksAreTrue, StopConfirmed, FreeWhenRemoved, FreeWhenClosed,
     TreeOutlivesSession

\* A step of a command that is outside a lift, a stop and a removal, and
\* writes nothing, keeps what is said of the seat.
LEMMA QuietStep ==
    ASSUME IInv, native, NEW p \in Procs,
           NEW step \in Steps \ (LiftPcs \cup Stopping \cup {"remove"}), Go(p, step),
           \A q \in Procs : q # p => mine'[q] = mine[q],
           UNCHANGED <<harness, task, seat, record, session, tree>>
    PROVE  SeatInv'
  <1> USE DEF IInv, native
  <1>0. \A q \in Procs : pc'[q] = IF q = p THEN step ELSE pc[q]
    BY DEF TypeOK, Go
  <1>1. SeatIsLifters' /\ OneLifter' /\ RecordStands'
    BY <1>0 DEF SeatIsLifters, OneLifter, RecordStands, LiftPcs, AtWork, Early, Late
  <1>2. RecordIsSeats' /\ RunningHasRecord' /\ MarksAreTrue'
    BY DEF RecordIsSeats, RunningHasRecord, MarksAreTrue, Running
  <1>3. StopConfirmed' /\ FreeWhenRemoved' /\ FreeWhenClosed'
    BY <1>0 DEF StopConfirmed, FreeWhenRemoved, FreeWhenClosed, SeatIsFree, Over, Stopping, DropPcs
  <1>4. TreeOutlivesSession'
    BY <1>0 DEF TreeOutlivesSession, Running, Lifting, LiftPcs, AtWork, Early
  <1> QED
    BY <1>1, <1>2, <1>3, <1>4 DEF SeatInv

\* What the mark of a retained stop leaves as it was.
LEMMA StoppedSeat ==
    ASSUME NEW s \in Seat, NEW t, t = [s EXCEPT !.stopped = TRUE]
    PROVE  /\ t # None /\ t.stopped /\ t.launch = s.launch /\ t.bound = s.bound
           /\ t.unlaunched = s.unlaunched /\ t.abandoned = s.abandoned
  <1>1. t \in Seat
    BY MarkIsSeat
  <1>2. /\ t.stopped /\ t.launch = s.launch /\ t.bound = s.bound
        /\ t.unlaunched = s.unlaunched /\ t.abandoned = s.abandoned
    BY DEF Seat
  <1> QED
    BY <1>1, <1>2, NoSeatAssumption

\* What the mark of an abandoned launch leaves as it was.
LEMMA AbandonedSeat ==
    ASSUME NEW s \in Seat, NEW t, t = s \/ t = [s EXCEPT !.abandoned = TRUE]
    PROVE  /\ t # None /\ (s.abandoned => t.abandoned) /\ t.launch = s.launch
           /\ t.bound = s.bound /\ t.stopped = s.stopped /\ t.unlaunched = s.unlaunched
  <1>1. CASE t = s
    BY <1>1, NoSeatAssumption
  <1>2. CASE t = [s EXCEPT !.abandoned = TRUE]
    <2>1. t \in Seat
      BY <1>2, MarkIsSeat
    <2>2. /\ t.abandoned /\ t.launch = s.launch
          /\ t.bound = s.bound /\ t.stopped = s.stopped /\ t.unlaunched = s.unlaunched
      BY <1>2 DEF Seat
    <2> QED
      BY <2>1, <2>2, NoSeatAssumption
  <1> QED
    BY <1>1, <1>2

\* Over a free seat that nobody abandoned nothing runs and nobody lifts.
LEMMA FreeIsQuiet ==
    ASSUME IInv, native, SeatIsFree, ~seat.abandoned
    PROVE  record = None /\ Running = {} /\ Lifting = {}
  <1>1. Over(seat)
    BY DEF SeatIsFree
  <1>2. record = None /\ (seat.unlaunched \/ seat.stopped)
    BY <1>1 DEF Over
  <1>3. Running = {}
    BY <1>2, WorkerSeatAssumption DEF IInv, RunningHasRecord, Running, Launches
  <1>4. Lifting = {}
    BY <1>2 DEF IInv, MarksAreTrue, SeatIsFree, SeatIsLifters, Lifting, AtWork, Early
  <1> QED
    BY <1>2, <1>3, <1>4

\* The steps that write nothing, and are in no lift, stop or removal after.
Quiet(p) ==
    \/ PlanLift(p) \/ LiftRefused(p) \/ LiftPlanned(p) \/ ReserveRefused(p)
    \/ Settled(p) \/ ReapUnconfirmed(p) \/ RetainRefused(p) \/ DropTooLate(p) \/ StopSkipped(p)
    \/ LookAtPiece(p) \/ TakeRefused(p) \/ LookAtDead(p) \/ Clear(p) \/ Crash(p)

\* They keep what is said of the seat.
LEMMA QuietAction == ASSUME IInv, native, NEW p \in Procs, Quiet(p) PROVE SeatInv'
  <1> USE DEF Quiet, PlanLift, LiftRefused, LiftPlanned, ReserveRefused, Settled, ReapUnconfirmed,
          RetainRefused, DropTooLate, EndStop, StopSkipped, LookAtPiece, TakeRefused, LookAtDead, Clear,
          Crash, Leave, local
  <1>1. \E step \in {"idle", "look", "reserve", "take", "abandon", "clear", "cleartree"} : Go(p, step)
    BY Zenon
  <1>2. \A q \in Procs : q # p => mine'[q] = mine[q]
    BY DEF IInv, TypeOK
  <1>3. UNCHANGED <<harness, task, seat, record, session, tree>>
    OBVIOUS
  <1> QED
    BY <1>1, <1>2, <1>3, QuietStep DEF Steps, LiftPcs, AtWork, Early, Late, Stopping, Retaining, DropPcs

\* Every step keeps what is said of a native seat.
LEMMA NativeStep == IInv /\ native /\ TypeOK' /\ StepsFit' /\ Unused' /\ [Next]_vars => SeatInv'
  <1> SUFFICES ASSUME IInv, native, TypeOK', StepsFit', Unused', [Next]_vars PROVE SeatInv'
    OBVIOUS
  <1>0. ASSUME NEW p \in Procs, Quiet(p) PROVE SeatInv'
    BY <1>0, QuietAction
  <1> USE WorkerSeatAssumption, NoSeatAssumption
      DEF IInv, native, TypeOK, StepsFit, Unused, SeatIsLifters, OneLifter, RecordStands, RecordIsSeats,
          RunningHasRecord, MarksAreTrue, StopConfirmed, FreeWhenRemoved, FreeWhenClosed, SeatIsFree,
          TreeOutlivesSession, Over, Running, Lifting,
          LiftPcs, AtWork, Early, Late, Stopping, Retaining, DropPcs,
          At, Go, Leave, LockFree, local
  <1>1. ASSUME NEW p \in Procs, Reserve(p) PROVE SeatInv'
    <2>a. record = None /\ Running = {}
      BY <1>1 DEF Reserve, MayReserve, Launches
    <2>b. \A q \in Procs : pc[q] \notin AtWork \cup DropPcs \cup {"remove"}
      BY <1>1 DEF Reserve, MayReserve
    <2>f. \A q \in Procs : pc[q] \in LiftPcs => mine[q] \in 1..launched
      BY <1>1
    <2>c. launched' \in Launches /\ session[launched'] = "none"
      BY <1>1 DEF Reserve, Launches
    <2>d. /\ seat' # None /\ seat'.launch = launched'
          /\ ~seat'.bound /\ ~seat'.stopped /\ ~seat'.unlaunched
      BY <1>1, <2>c, FreshIsSeat DEF Reserve, Fresh
    <2>e. /\ \A q \in Procs : q # p => pc'[q] = pc[q] /\ mine'[q] = mine[q]
          /\ pc'[p] = "tree" /\ mine'[p] = launched'
          /\ task' = "active" /\ UNCHANGED <<harness, record, session>>
      BY <1>1 DEF Reserve, MayReserve
    <2>1. SeatIsLifters' /\ OneLifter'
      BY <1>1, <2>a, <2>b, <2>c, <2>d, <2>e, <2>f DEF Reserve, MayReserve
    <2>2. RecordStands'
      BY <1>1, <2>a, <2>b, <2>c, <2>d, <2>e DEF Reserve, MayReserve
    <2>3. RecordIsSeats' /\ RunningHasRecord' /\ MarksAreTrue'
      BY <1>1, <2>a, <2>b, <2>c, <2>d, <2>e DEF Reserve, MayReserve
    <2>4. StopConfirmed' /\ FreeWhenRemoved' /\ FreeWhenClosed'
      BY <1>1, <2>a, <2>b, <2>c, <2>d, <2>e DEF Reserve, MayReserve
    <2>5. TreeOutlivesSession'
      BY <2>a, <2>b, <2>e
    <2> QED
      BY <2>1, <2>2, <2>3, <2>4, <2>5 DEF SeatInv
  <1>2. ASSUME NEW p \in Procs, MakeTree(p) PROVE SeatInv'
    BY <1>2 DEF MakeTree, SeatInv
  <1>3. ASSUME NEW p \in Procs, Prepare(p) PROVE SeatInv'
    BY <1>3 DEF Prepare, SeatInv
  <1>4. ASSUME NEW p \in Procs, LiftFails(p) PROVE SeatInv'
    BY <1>4 DEF LiftFails, SeatInv
  <1>5. ASSUME NEW p \in Procs, Release(p) PROVE SeatInv'
    BY <1>5 DEF Release, Released, SeatInv
  <1>6. ASSUME NEW p \in Procs, Stage(p) PROVE SeatInv'
    <2>a. seat # None /\ seat.launch = mine[p] /\ ~seat.stopped /\ ~seat.unlaunched /\ Running = {}
      BY <1>6 DEF Stage, Launches
    <2> QED
      BY <1>6, <2>a DEF Stage, SeatInv
  <1>7. ASSUME NEW p \in Procs, Start(p) PROVE SeatInv'
    BY <1>7 DEF Start, SeatInv
  <1>8. ASSUME NEW p \in Procs, StartFails(p) PROVE SeatInv'
    BY <1>8 DEF StartFails, SeatInv
  <1>9. ASSUME NEW p \in Procs, Bind(p) PROVE SeatInv'
    <2>a. seat \in Seat
      BY <1>9 DEF Bind
    <2>1. seat' = [seat EXCEPT !.bound = TRUE]
      BY <1>9 DEF Bind
    <2>b. /\ seat' # None /\ seat'.launch = seat.launch /\ seat'.stopped = seat.stopped
          /\ seat'.unlaunched = seat.unlaunched /\ seat'.abandoned = seat.abandoned
      BY <2>a, <2>1, BoundFields
    <2> QED
      BY <1>9, <2>a, <2>b DEF Bind, MayBind, SeatInv
  <1>10. ASSUME NEW p \in Procs, ThreadReady(p) \/ ThreadLate(p) \/ BindRefused(p) \/ SettleFails(p)
        PROVE SeatInv'
    <2>1. CASE ThreadReady(p)
      BY <2>1 DEF ThreadReady, SeatInv
    <2>2. CASE ThreadLate(p)
      BY <2>2 DEF ThreadLate, SeatInv
    <2>3. CASE BindRefused(p)
      BY <2>3 DEF BindRefused, SeatInv
    <2>4. CASE SettleFails(p)
      BY <2>4 DEF SettleFails, SeatInv
    <2> QED
      BY <1>10, <2>1, <2>2, <2>3, <2>4
  <1>11. ASSUME NEW p \in Procs, Reap(p) PROVE SeatInv'
    BY <1>11 DEF Reap, SeatInv
  <1>12. ASSUME NEW p \in Procs, Discard(p) PROVE SeatInv'
    BY <1>12 DEF Discard, SeatInv
  <1>13. ASSUME NEW p \in Procs, AskShutdown(p) PROVE SeatInv'
    BY <1>13 DEF AskShutdown, CanConfirm, Retiring, SeatInv
  <1>14. ASSUME NEW p \in Procs, RetainStop(p) PROVE SeatInv'
    <2>a. seat \in Seat /\ seat' = [seat EXCEPT !.stopped = TRUE]
      BY <1>14 DEF RetainStop, MayRetain
    <2>b. /\ seat' # None /\ seat'.stopped /\ seat'.launch = seat.launch /\ seat'.bound = seat.bound
          /\ seat'.unlaunched = seat.unlaunched /\ seat'.abandoned = seat.abandoned
      BY <2>a, StoppedSeat
    <2>c. /\ pc'[p] \in DropPcs /\ \A q \in Procs : q # p => pc'[q] = pc[q]
          /\ UNCHANGED <<harness, task, record, session, tree, mine>>
      BY <1>14 DEF RetainStop, Dropping
    <2>d. seat.bound /\ record = mine[p] /\ seat.launch = mine[p] /\ session[mine[p]] = "stopped"
      BY <1>14 DEF RetainStop, MayRetain
    <2>1. SeatIsLifters' /\ OneLifter' /\ RecordStands'
      BY <2>b, <2>c, <2>d
    <2>2. RecordIsSeats' /\ RunningHasRecord' /\ MarksAreTrue'
      BY <2>b, <2>c, <2>d
    <2>3. StopConfirmed'
      BY <2>b, <2>c, <2>d
    <2>4. FreeWhenRemoved' /\ FreeWhenClosed' /\ TreeOutlivesSession'
      BY <2>b, <2>c, <2>d
    <2> QED
      BY <2>1, <2>2, <2>3, <2>4 DEF SeatInv
  <1>24. ASSUME NEW p \in Procs, DropRecord(p) PROVE SeatInv'
    <2>a. seat # None /\ seat.stopped /\ seat.bound /\ session[seat.launch] = "stopped"
      BY <1>24 DEF DropRecord
    <2>b. /\ pc'[p] \in {"idle", "clear"}
          /\ \A q \in Procs : q # p => pc'[q] = pc[q] /\ mine'[q] = mine[q]
          /\ record' = None /\ UNCHANGED <<harness, task, seat, session, tree>>
      BY <1>24 DEF DropRecord, EndStop
    <2>c. Running = {}
      BY <2>a, WorkerSeatAssumption DEF Launches
    <2>1. SeatIsLifters' /\ OneLifter' /\ RecordStands'
      BY <2>a, <2>b
    <2>2. RecordIsSeats' /\ RunningHasRecord' /\ MarksAreTrue'
      BY <2>a, <2>b, <2>c
    <2>3. StopConfirmed' /\ FreeWhenRemoved' /\ FreeWhenClosed'
      BY <2>a, <2>b
    <2>4. TreeOutlivesSession'
      BY <2>a, <2>b, <2>c
    <2> QED
      BY <2>1, <2>2, <2>3, <2>4 DEF SeatInv
  <1>15. ASSUME NEW p \in Procs, TakePiece(p) PROVE SeatInv'
    BY <1>15 DEF TakePiece, MayTake, Idle, Retired, SeatInv
  <1>16. ASSUME NEW p \in Procs, RemoveTree(p) PROVE SeatInv'
    <2>a. ~seat.abandoned => Running = {} /\ Lifting = {}
      BY <1>16, FreeIsQuiet DEF RemoveTree
    <2> QED
      BY <1>16, <2>a DEF RemoveTree, SeatInv
  <1>17. ASSUME NEW p \in Procs, Abandon(p) PROVE SeatInv'
    <2>a. seat \in Seat
      BY <1>17 DEF Abandon
    <2>b. seat' = seat \/ seat' = [seat EXCEPT !.abandoned = TRUE]
      BY <1>17 DEF Abandon
    <2>c. /\ seat' # None /\ (seat.abandoned => seat'.abandoned)
          /\ seat'.launch = seat.launch /\ seat'.bound = seat.bound
          /\ seat'.stopped = seat.stopped /\ seat'.unlaunched = seat.unlaunched
      BY <2>a, <2>b, AbandonedSeat
    <2> QED
      BY <1>17, <2>a, <2>c DEF Abandon, SeatInv
  <1>18. ASSUME NEW p \in Procs, Close(p) PROVE SeatInv'
    BY <1>18 DEF Close, Idle, Retired, SeatInv
  <1>19. ASSUME NEW p \in Procs, ClearTree(p) PROVE SeatInv'
    <2>a. ~seat.abandoned => Running = {} /\ Lifting = {}
      BY <1>19, FreeIsQuiet DEF ClearTree
    <2> QED
      BY <1>19, <2>a DEF ClearTree, SeatInv
  <1>20. ASSUME NEW g \in Launches, SessionRises(g) PROVE SeatInv'
    BY <1>20 DEF SessionRises, SeatInv
  <1>21. ASSUME NEW g \in Launches, SessionDies(g) PROVE SeatInv'
    BY <1>21 DEF SessionDies, SeatInv
  <1>22. ASSUME NEW p \in Procs, BindLegacy(p) \/ StopLegacy(p) PROVE SeatInv'
    BY <1>22 DEF BindLegacy, StopLegacy
  <1>23. CASE UNCHANGED vars
    BY <1>23 DEF vars, SeatInv
  <1> QED
    BY <1>0, <1>1, <1>2, <1>3, <1>4, <1>5, <1>6, <1>7, <1>8, <1>9, <1>10, <1>11, <1>12,
       <1>13, <1>14, <1>15, <1>16, <1>17, <1>18, <1>19, <1>20, <1>21, <1>22, <1>23, <1>24
       DEF Next, Lift, Stop, Sweep, GiveUp, Done, Quiet

\* Every step keeps the invariant.
LEMMA InductiveStep == IInv /\ [Next]_vars => IInv'
  <1> SUFFICES ASSUME IInv, [Next]_vars PROVE IInv'
    OBVIOUS
  <1>1. TypeOK'
    BY TypeStep
  <1>2. StepsFit' /\ Unused'
    BY <1>1, FitStep
  <1>3. SeatInv'
    BY <1>1, <1>2, ForeignStep, NativeStep
  <1> QED
    BY <1>1, <1>2, <1>3 DEF IInv, SeatInv

\* So it holds throughout.
LEMMA Invariant == Spec => []IInv
  BY InitIInv, InductiveStep, PTL DEF Spec

----------------------------------------------------------------------------
\* The invariant gives a running session its handle,
LEMMA RunningIsSeated == IInv => SessionHasHandle
  BY WorkerSeatAssumption DEF IInv, RunningHasRecord, RecordIsSeats, SessionHasHandle, Running, Launches

\* makes a proof that a launch is over true,
LEMMA ProofsAreTrue == IInv => OverMeansOver
  <1> SUFFICES ASSUME IInv, native, SeatIsOver
               PROVE  /\ session[seat.launch] \in {"none", "dead", "stopped"}
                      /\ seat.unlaunched => session[seat.launch] = "none"
                      /\ Lifting = {}
    BY DEF OverMeansOver
  <1>1. seat \in Seat /\ record = None /\ (seat.unlaunched \/ seat.stopped)
    BY DEF SeatIsOver, Over, IInv, TypeOK
  <1>2. Running = {}
    BY <1>1, WorkerSeatAssumption DEF IInv, RunningHasRecord, Running, Launches
  <1>3. session[seat.launch] \in {"none", "dead", "stopped"}
    BY <1>1, <1>2 DEF IInv, TypeOK, Running, Seat
  <1>4. seat.unlaunched => session[seat.launch] = "none"
    BY <1>1, NoSeatAssumption DEF IInv, MarksAreTrue
  <1>5. Lifting = {}
    BY <1>1 DEF IInv, SeatIsLifters, Lifting, AtWork, Early
  <1> QED
    BY <1>3, <1>4, <1>5

\* and leaves nothing behind a close.
LEMMA ClosesAreFinal == IInv => ClosedIsOver
  BY FreeIsQuiet DEF IInv, FreeWhenClosed, ClosedIsOver

\* spawn.ts, native-lifecycle.ts: for any number of commands, lifts and
\* crashes, every variable keeps its type.
THEOREM TypeCorrect == Spec => []TypeOK
  <1>1. IInv => TypeOK
    BY DEF IInv
  <1> QED
    BY <1>1, Invariant, PTL

\* driver-codex.ts, native-lifecycle.ts: a native session that runs has its
\* record and its seat, and a seat that may be lifted again is really over,
\* whatever commands meet over it and wherever they die.
THEOREM SeatSound == Spec => []SeatIsSound
  <1>1. IInv => SeatIsSound
    BY RunningIsSeated, ProofsAreTrue DEF SeatIsSound, IInv
  <1> QED
    BY <1>1, Invariant, PTL

\* sweep.ts, done.ts: no cleanup takes the worktree of a native session or of
\* a lift about to start one, and no task is closed over either, unless the
\* seat was abandoned.
THEOREM CleanupSpares == Spec => []CleanupSparesSession
  <1>1. IInv => CleanupSparesSession
    BY ClosesAreFinal DEF CleanupSparesSession, IInv
  <1> QED
    BY <1>1, Invariant, PTL

\* native-lifecycle.ts:192-217, driver-codex.ts:1404-1435: two commands never
\* lift one native address at once, and what a lift that came late or failed
\* still undoes is never the launch of another lift.
Holds(p) ==
    \/ pc[p] \in AtWork
    \/ pc[p] \in Late /\ seat # None /\ seat.launch = mine[p]
LiftsAlone == native => \A p, q \in Procs : Holds(p) /\ Holds(q) => p = q

THEOREM LiftsAreSingle == Spec => []LiftsAlone
  <1>1. IInv => LiftsAlone
    BY DEF IInv, SeatIsLifters, OneLifter, LiftsAlone, Holds, LiftPcs
  <1> QED
    BY <1>1, Invariant, PTL

-----------------------------------------------------------------------------
(***************************************************************************)
(* Proofs about SessionHolder, for any number of turns, commands and stops. *)
(* What the holder hears is late but in order: a start or an end that is    *)
(* told is true or is followed by its correction on the wire, so that the   *)
(* holder's account differs from the child's truth by what is unheard, and  *)
(* by the turn of the one request whose answer it waits for.                *)
(***************************************************************************)

\* What the child wrote and the holder has not dispatched; what comes later.
Said(k, t) == \E i \in 1..Len(wire) : wire[i].kind = k /\ wire[i].turn = t
Follows(i, k, t) == \E j \in 1..Len(wire) : i < j /\ wire[j].kind = k /\ wire[j].turn = t

\* The child's own truth: a command runs inside its turn, nothing is cut while
\* the child is up, and a child that is up has its holder.
TruthFits ==
    /\ \A t \in Turns : command[t] = "running" => turn[t] = "running"
    /\ app = "up" => \A t \in Turns : turn[t] # "cut" /\ command[t] # "cut"
    /\ app = "up" => Up

\* Turns are asked for in order, and no more of them than there are.
Waiting == IF flight # NoTurn /\ flight.turn = NoTurn THEN 1 ELSE 0
Binding == IF phase = "binding" THEN 1 ELSE 0
NumbersFit ==
    /\ \A t \in Turns : asked < t => turn[t] = "none"
    /\ asked + Len(queue) + Waiting + Binding <= MaxTurns

\* The stream tells the truth in order: an end it tells is one, and a start it
\* tells stands or is followed by its end.
WireFits ==
    \A i \in 1..Len(wire) :
        LET t == wire[i].turn
        IN  /\ wire[i].kind = "completed" => turn[t] = "over"
            /\ wire[i].kind = "ended" => command[t] = "over"
            /\ app = "up" /\ wire[i].kind = "started" => turn[t] = "running" \/ Follows(i, "completed", t)
            /\ app = "up" /\ wire[i].kind = "begun" => command[t] = "running" \/ Follows(i, "ended", t)

\* A status the holder has not heard calls the thread active for a turn that
\* has still to start, or whose start comes after it on the wire.
StatusFits ==
    app = "up" => \A i \in 1..Len(wire) :
        wire[i].kind = "active" => Announced \/ \E t : Follows(i, "started", t)

\* What the holder remembers as completed is.
HeardFits ==
    /\ flight # NoTurn => \A t \in flight.heard : turn[t] = "over"
    /\ lastTurn # NoTurn => turn[lastTurn] = "over"

\* The holder's account is the truth but for what is on the wire, and for the
\* turn of the request whose answer it waits for.
Open(t) == turn[t] \in {"asked", "running"}
ActiveFits ==
    app = "up" /\ owns =>
        /\ \A t \in active : Open(t) \/ Said("completed", t)
        /\ \A t \in Turns : turn[t] = "running" => t \in active \/ Said("started", t)
        /\ ~unresolved => \A t \in Turns : Open(t) => t \in active \/ (flight # NoTurn /\ flight.turn = t)
        /\ flight # NoTurn /\ flight.turn # NoTurn =>
              \/ Open(flight.turn)
              \/ Said("completed", flight.turn)
              \/ flight.turn \in flight.heard
PendingFits ==
    app = "up" /\ owns =>
        /\ \A t \in pending : command[t] = "running" \/ Said("ended", t)
        /\ \A t \in Turns : command[t] = "running" => t \in pending \/ Said("begun", t)

\* One request is the first one, while the main line waits for it; only what
\* was written is answered.
FirstFits ==
    /\ \A i \in 1..Len(queue) : queue[i] => phase = "first" /\ (flight # NoTurn => ~flight.first)
    /\ \A i, j \in 1..Len(queue) : queue[i] /\ queue[j] => i = j
    /\ flight # NoTurn /\ flight.first => phase = "first"
    /\ flight # NoTurn /\ flight.answered => flight.turn # NoTurn

\* Busy says that a turn is counted, or that one is about to be, but for a
\* holder whose first turn was answered and not heard to start.
AboutToStart == Announced \/ \E t : Said("started", t)
BusyFits ==
    /\ active # {} => busy
    /\ app = "up" /\ owns /\ busy /\ phase # "waitStarted" => active # {} \/ AboutToStart
    /\ phase \in {"binding", "first"} /\ turnStarted => current \in active

\* A stop past its first wait has no request left, and the end of the child's
\* input finds it at rest.
Rested == queue = <<>> /\ flight = NoTurn
NothingCut == \A t \in Turns : turn[t] \in {"none", "over"} /\ command[t] \in {"none", "over"}
StopFits ==
    /\ stop # "none" => stopping
    /\ stop \in {"commands", "interrupts", "drain", "close"} => Rested /\ ~unresolved
    /\ closingApp => stopping /\ Rested
    /\ closingApp /\ app = "up" => NothingCut
    /\ app = "exited" => NothingCut
    /\ confirmed => app = "exited"

HolderInv ==
    /\ HolderTypeOK
    /\ TruthFits
    /\ NumbersFit
    /\ WireFits
    /\ StatusFits
    /\ HeardFits
    /\ ActiveFits
    /\ PendingFits
    /\ FirstFits
    /\ BusyFits
    /\ StopFits

----------------------------------------------------------------------------
(* The stream.                                                              *)

LEMMA HolderTypes ==
    ASSUME HolderTypeOK
    PROVE  /\ turn \in [Turns -> {"none", "asked", "running", "over", "cut"}]
           /\ command \in [Turns -> {"none", "running", "over", "cut"}]
           /\ wire \in Seq(Message) /\ queue \in Seq(BOOLEAN)
           /\ active \subseteq Turns /\ pending \subseteq Turns
           /\ interrupts \in [Turns -> {"none", "pending", "done", "failed"}]
           /\ unanswered \subseteq Turns
  BY DEF HolderTypeOK

LEMMA TurnsAreSome == \A t \in Turns : t \in Nat /\ t # NoTurn
  <1>1. \A t \in Turns : t \in Nat
    BY SessionHolderAssumption DEF Turns
  <1>2. NoTurn \notin Nat
    BY SessionHolderAssumption
  <1> QED
    BY ONLY <1>1, <1>2

LEMMA FlightTypes ==
    ASSUME HolderTypeOK, flight # NoTurn
    PROVE  /\ flight \in Flight
           /\ flight.turn \in Turns \cup {NoTurn} /\ flight.first \in BOOLEAN
           /\ flight.heard \subseteq Turns /\ flight.answered \in BOOLEAN
  BY DEF HolderTypeOK, Flight

LEMMA HolderParts ==
    ASSUME HolderInv
    PROVE  /\ HolderTypeOK /\ TruthFits /\ NumbersFit /\ WireFits /\ StatusFits /\ HeardFits
           /\ ActiveFits /\ PendingFits /\ FirstFits /\ BusyFits /\ StopFits
  BY DEF HolderInv

\* The wire after more was written to it.
Longer ==
    /\ wire' \in Seq(Message) /\ Len(wire) <= Len(wire')
    /\ \A i \in 1..Len(wire) : wire'[i] = wire[i]
New(i) == i \in 1..Len(wire') /\ Len(wire) < i

LEMMA OneMore ==
    ASSUME wire \in Seq(Message), NEW k \in Kinds, NEW t \in Turns, Say(k, t)
    PROVE  /\ Longer
           /\ \A i : New(i) <=> i = Len(wire')
           /\ wire'[Len(wire')].kind = k /\ wire'[Len(wire')].turn = t
           /\ Len(wire') \in 1..Len(wire')
  <1> DEFINE m == [kind |-> k, turn |-> t]
  <1>1. m \in Message /\ m.kind = k /\ m.turn = t
    BY DEF Message
  <1> HIDE DEF m
  <1>2. wire' = Append(wire, m)
    BY DEF Say, m
  <1>3. /\ wire' \in Seq(Message) /\ Len(wire') = Len(wire) + 1 /\ Len(wire) \in Nat
        /\ \A i \in 1..Len(wire) : wire'[i] = wire[i]
        /\ wire'[Len(wire')] = m
    BY <1>1, <1>2
  <1> QED
    BY <1>1, <1>3 DEF Longer, New

LEMMA SaidStays ==
    ASSUME wire \in Seq(Message), Longer, NEW k, NEW t
    PROVE  /\ Said(k, t) => Said(k, t)'
           /\ \A i \in 1..Len(wire) : Follows(i, k, t) => Follows(i, k, t)'
  <1>1. Len(wire) \in Nat /\ Len(wire') \in Nat /\ Len(wire) <= Len(wire')
    BY DEF Longer
  <1>2. \A i \in 1..Len(wire) : i \in 1..Len(wire') /\ wire'[i] = wire[i]
    BY <1>1 DEF Longer
  <1> QED
    BY <1>2 DEF Said, Follows

\* What may be written: an end of what is over, a start of what runs, and the
\* end of what runs no more.
LEMMA WireGrows ==
    ASSUME HolderTypeOK, WireFits, Longer, app' = app \/ app' # "up",
           \A t \in Turns : turn[t] = "over" => turn'[t] = "over",
           \A t \in Turns : command[t] = "over" => command'[t] = "over",
           app' = "up" => \A t \in Turns : turn[t] = "running" /\ turn'[t] # "running" =>
               \E j : New(j) /\ wire'[j].kind = "completed" /\ wire'[j].turn = t,
           app' = "up" => \A t \in Turns : command[t] = "running" /\ command'[t] # "running" =>
               \E j : New(j) /\ wire'[j].kind = "ended" /\ wire'[j].turn = t,
           \A i : New(i) =>
               /\ wire'[i].kind = "completed" => turn'[wire'[i].turn] = "over"
               /\ wire'[i].kind = "ended" => command'[wire'[i].turn] = "over"
               /\ wire'[i].kind = "started" => turn'[wire'[i].turn] = "running"
               /\ wire'[i].kind = "begun" => command'[wire'[i].turn] = "running"
    PROVE  WireFits'
  <1> SUFFICES ASSUME NEW i \in 1..Len(wire')
               PROVE  /\ wire'[i].kind = "completed" => turn'[wire'[i].turn] = "over"
                      /\ wire'[i].kind = "ended" => command'[wire'[i].turn] = "over"
                      /\ app' = "up" /\ wire'[i].kind = "started" =>
                            turn'[wire'[i].turn] = "running" \/ Follows(i, "completed", wire[i].turn)'
                      /\ app' = "up" /\ wire'[i].kind = "begun" =>
                            command'[wire'[i].turn] = "running" \/ Follows(i, "ended", wire[i].turn)'
    BY DEF WireFits
  <1>0. wire \in Seq(Message) /\ Len(wire) \in Nat /\ Len(wire') \in Nat
    BY HolderTypes DEF Longer
  <1>1. CASE New(i)
    BY <1>1
  <1>2. CASE ~New(i)
    <2>1. i \in 1..Len(wire) /\ wire'[i] = wire[i]
      BY <1>0, <1>2 DEF New, Longer
    <2>2. wire[i].turn \in Turns
      <3>1. wire[i] \in Message
        BY <1>0, <2>1
      <3> QED
        BY <3>1 DEF Message
    <2>3. \A j : New(j) => i < j /\ j \in 1..Len(wire')
      BY <1>0, <2>1 DEF New
    <2> DEFINE t == wire[i].turn
    <2>4. wire[i].kind = "completed" => turn'[t] = "over"
      BY <2>1, <2>2 DEF WireFits
    <2>5. wire[i].kind = "ended" => command'[t] = "over"
      BY <2>1, <2>2 DEF WireFits
    <2>6. app' = "up" /\ wire[i].kind = "started" => turn'[t] = "running" \/ Follows(i, "completed", wire[i].turn)'
      <3> SUFFICES ASSUME app' = "up", wire[i].kind = "started", turn'[t] # "running"
                   PROVE  Follows(i, "completed", wire[i].turn)'
        OBVIOUS
      <3>1. app = "up"
        OBVIOUS
      <3>2. CASE turn[t] = "running"
        <4>1. PICK j : New(j) /\ wire'[j].kind = "completed" /\ wire'[j].turn = t
          BY <2>2, <3>2
        <4> QED
          BY <2>1, <2>3, <4>1 DEF Follows
      <3>3. CASE Follows(i, "completed", t)
        BY <1>0, <2>1, <3>3, SaidStays
      <3> QED
        BY <2>1, <3>1, <3>2, <3>3 DEF WireFits
    <2>7. app' = "up" /\ wire[i].kind = "begun" => command'[t] = "running" \/ Follows(i, "ended", wire[i].turn)'
      <3> SUFFICES ASSUME app' = "up", wire[i].kind = "begun", command'[t] # "running"
                   PROVE  Follows(i, "ended", wire[i].turn)'
        OBVIOUS
      <3>1. app = "up"
        OBVIOUS
      <3>2. CASE command[t] = "running"
        <4>1. PICK j : New(j) /\ wire'[j].kind = "ended" /\ wire'[j].turn = t
          BY <2>2, <3>2
        <4> QED
          BY <2>1, <2>3, <4>1 DEF Follows
      <3>3. CASE Follows(i, "ended", t)
        BY <1>0, <2>1, <3>3, SaidStays
      <3> QED
        BY <2>1, <3>1, <3>2, <3>3 DEF WireFits
    <2> QED
      BY <2>1, <2>4, <2>5, <2>6, <2>7
  <1> QED
    BY <1>1, <1>2

\* The head of the wire was dispatched.
LEMMA WireShrinks ==
    ASSUME HolderTypeOK, WireFits, wire # << >>, wire' = Tail(wire), UNCHANGED <<app, turn, command>>
    PROVE  /\ WireFits'
           /\ wire' \in Seq(Message)
           /\ \A k, t : Said(k, t) => Said(k, t)' \/ (Head(wire).kind = k /\ Head(wire).turn = t)
           /\ \A k, t : Follows(1, k, t) => Said(k, t)'
           /\ \A i \in 1..Len(wire') :
                 /\ i + 1 \in 1..Len(wire) /\ wire'[i] = wire[i + 1]
                 /\ \A k, t : Follows(i + 1, k, t) => Follows(i, k, t)'
  <1>0. wire \in Seq(Message) /\ Len(wire) \in Nat /\ Len(wire) > 0
    BY HolderTypes
  <1>1. /\ wire' \in Seq(Message) /\ Len(wire') = Len(wire) - 1
        /\ \A i \in 1..Len(wire') : wire'[i] = wire[i + 1]
        /\ Head(wire) = wire[1]
    BY <1>0
  <1>2. \A i \in 1..Len(wire') : i + 1 \in 1..Len(wire) /\ wire'[i] = wire[i + 1]
    BY <1>0, <1>1
  <1>3. \A j \in 1..Len(wire) : j = 1 \/ (j - 1 \in 1..Len(wire') /\ wire'[j - 1] = wire[j])
    BY <1>0, <1>1
  <1>4. ASSUME NEW k, NEW t, NEW i \in 1..Len(wire'), Follows(i + 1, k, t)
        PROVE  \E j \in 1..Len(wire') : i < j /\ wire'[j].kind = k /\ wire'[j].turn = t
    <2>1. PICK j \in 1..Len(wire) : i + 1 < j /\ wire[j].kind = k /\ wire[j].turn = t
      BY <1>4 DEF Follows
    <2>2. j - 1 \in 1..Len(wire') /\ wire'[j - 1] = wire[j] /\ i < j - 1
      BY <1>0, <1>3, <2>1
    <2> QED
      BY <2>1, <2>2
  <1>5. WireFits'
    <2> SUFFICES ASSUME NEW i \in 1..Len(wire')
                 PROVE  LET t == wire'[i].turn
                        IN /\ wire'[i].kind = "completed" => turn[t] = "over"
                           /\ wire'[i].kind = "ended" => command[t] = "over"
                           /\ app = "up" /\ wire'[i].kind = "started" =>
                                 \/ turn[t] = "running"
                                 \/ \E j \in 1..Len(wire') : i < j /\ wire'[j].kind = "completed" /\ wire'[j].turn = t
                           /\ app = "up" /\ wire'[i].kind = "begun" =>
                                 \/ command[t] = "running"
                                 \/ \E j \in 1..Len(wire') : i < j /\ wire'[j].kind = "ended" /\ wire'[j].turn = t
      BY DEF WireFits, Follows
    <2>1. i + 1 \in 1..Len(wire) /\ wire'[i] = wire[i + 1]
      BY <1>2
    <2>2. LET t == wire[i + 1].turn
          IN  /\ wire[i + 1].kind = "completed" => turn[t] = "over"
              /\ wire[i + 1].kind = "ended" => command[t] = "over"
              /\ app = "up" /\ wire[i + 1].kind = "started" => turn[t] = "running" \/ Follows(i + 1, "completed", t)
              /\ app = "up" /\ wire[i + 1].kind = "begun" => command[t] = "running" \/ Follows(i + 1, "ended", t)
      BY <2>1 DEF WireFits
    <2> QED
      BY <1>4, <2>1, <2>2
  <1>6. ASSUME NEW k, NEW t, Said(k, t)
        PROVE  Said(k, t)' \/ (Head(wire).kind = k /\ Head(wire).turn = t)
    BY <1>1, <1>3, <1>6 DEF Said
  <1>7. ASSUME NEW k, NEW t, Follows(1, k, t) PROVE Said(k, t)'
    <2>1. PICK j \in 1..Len(wire) : 1 < j /\ wire[j].kind = k /\ wire[j].turn = t
      BY <1>7 DEF Follows
    <2>2. j - 1 \in 1..Len(wire') /\ wire'[j - 1] = wire[j]
      BY <1>0, <1>3, <2>1
    <2> QED
      BY <2>1, <2>2 DEF Said
  <1>8. ASSUME NEW i \in 1..Len(wire'), NEW k, NEW t, Follows(i + 1, k, t)
        PROVE  Follows(i, k, t)'
    <2>1. \E j \in 1..Len(wire') : i < j /\ wire'[j].kind = k /\ wire'[j].turn = t
      BY ONLY <1>4, <1>8
    <2> QED
      BY ONLY <2>1 DEF Follows
  <1>9. \A i \in 1..Len(wire') : \A k, t : Follows(i + 1, k, t) => Follows(i, k, t)'
    BY <1>8
  <1> QED
    BY <1>1, <1>2, <1>5, <1>6, <1>7, <1>9

----------------------------------------------------------------------------
(* The holder's end: everything it remembered is gone, the child with it.   *)

LEMMA EndsTypes ==
    ASSUME HolderTypeOK, NEW how \in {"exited", "crashed"}, Ends(how)
    PROVE  /\ turn' \in [Turns -> {"none", "asked", "running", "over", "cut"}]
           /\ command' \in [Turns -> {"none", "running", "over", "cut"}]
           /\ app' = how /\ unanswered' = unanswered /\ status' = NoTurn
           /\ \A t \in Turns : /\ turn'[t] = IF Open(t) THEN "cut" ELSE turn[t]
                               /\ command'[t] = IF command[t] = "running" THEN "cut" ELSE command[t]
  <1>1. /\ turn' = [t \in Turns |-> IF Open(t) THEN "cut" ELSE turn[t]]
        /\ command' = [t \in Turns |-> IF command[t] = "running" THEN "cut" ELSE command[t]]
        /\ app' = how /\ unanswered' = unanswered /\ status' = NoTurn
    BY DEF Ends, Unfinished, Open
  <1> QED
    BY <1>1, HolderTypes

LEMMA NothingMore == \A m \in Nat : \A a \in 0..m : a + 0 + 0 + 0 <= m
  OBVIOUS

LEMMA GoneStep ==
    ASSUME HolderInv, NEW how \in {"gone", "notStarted"}, Gone(how)
    PROVE  HolderInv'
  <1> USE HolderParts
  <1>0. /\ phase' = how /\ wire' = << >> /\ queue' = << >> /\ flight' = NoTurn
        /\ active' = {} /\ busy' = FALSE /\ turnStarted' = FALSE
        /\ current' = NoTurn /\ pending' = {}
        /\ unresolved' = FALSE /\ broken' = FALSE /\ stopping' = FALSE /\ stop' = "none"
        /\ interrupts' = [t \in Turns |-> "none"]
        /\ closingApp' = FALSE /\ closed' = FALSE
        /\ UNCHANGED <<asked, lastTurn, owns, confirmed, stops>>
    BY DEF Gone
  <1>1. \/ UNCHANGED world /\ app # "up"
        \/ app = "up" /\ Ends("crashed")
    BY DEF Gone
  <1>2. /\ turn' \in [Turns -> {"none", "asked", "running", "over", "cut"}]
        /\ command' \in [Turns -> {"none", "running", "over", "cut"}]
        /\ unanswered' \subseteq Turns /\ status' \in Turns \cup {NoTurn}
        /\ app' \in {"exited", "crashed"} /\ (app' = "exited" => app = "exited" /\ UNCHANGED world)
        /\ \A t \in Turns : /\ turn[t] \in {"none", "over"} => turn'[t] = turn[t]
                            /\ command'[t] = "running" => turn'[t] = "running"
    <2>1. CASE UNCHANGED world /\ app # "up"
      BY <2>1, HolderTypes DEF world, HolderTypeOK, TruthFits
    <2>2. CASE app = "up" /\ Ends("crashed")
      BY <2>2, EndsTypes, HolderTypes DEF Open
    <2> QED
      BY <1>1, <2>1, <2>2
  <1>3. HolderTypeOK'
    <2>1. wire' \in Seq(Message) /\ queue' \in Seq(BOOLEAN)
      BY <1>0
    <2>2. interrupts' \in [Turns -> {"none", "pending", "done", "failed"}]
      BY <1>0
    <2>3. /\ asked' \in 0..MaxTurns /\ stops' \in 0..MaxStops
          /\ {current', lastTurn'} \subseteq Turns \cup {NoTurn}
          /\ flight' \in Flight \cup {NoTurn}
      BY <1>0 DEF HolderTypeOK
    <2>4. /\ {busy', turnStarted', unresolved', broken', owns', stopping', closingApp', closed', confirmed'} \subseteq BOOLEAN
          /\ stop' \in {"none"} \cup Timed
          /\ active' \subseteq Turns /\ pending' \subseteq Turns
          /\ phase' \in {"binding", "first", "waitStarted", "alive", "gone", "notStarted"}
      BY <1>0 DEF HolderTypeOK
    <2> QED
      BY <1>2, <2>1, <2>2, <2>3, <2>4 DEF HolderTypeOK
  <1>4. TruthFits'
    BY <1>2 DEF TruthFits
  <1>5. NumbersFit'
    <2>1. \A t \in Turns : asked' < t => turn'[t] = "none"
      BY <1>0, <1>2 DEF NumbersFit
    <2>2. Waiting' = 0 /\ Binding' = 0 /\ Len(queue') = 0
      BY <1>0 DEF Waiting, Binding
    <2>3. asked' \in 0..MaxTurns /\ MaxTurns \in Nat
      BY <1>3, SessionHolderAssumption DEF HolderTypeOK
    <2>4. asked' + Len(queue') + Waiting' + Binding' <= MaxTurns
      <3>1. asked' + 0 + 0 + 0 <= MaxTurns
        BY <2>3, NothingMore
      <3> QED
        BY <2>2, <3>1
    <2> QED
      BY <2>1, <2>4 DEF NumbersFit
  <1>6. WireFits' /\ StatusFits'
    BY <1>0 DEF WireFits, StatusFits
  <1>7. HeardFits'
    BY <1>0, <1>2 DEF HeardFits, HolderTypeOK
  <1>8. ActiveFits' /\ PendingFits'
    BY <1>2 DEF ActiveFits, PendingFits
  <1>9. FirstFits' /\ BusyFits'
    BY <1>0 DEF FirstFits, BusyFits
  <1>10. StopFits'
    <2>1. confirmed' => app' = "exited"
      <3>1. confirmed' => app = "exited"
        BY <1>0 DEF StopFits
      <3>2. app = "exited" => app' = "exited"
        BY <1>1 DEF world
      <3> QED
        BY <3>1, <3>2
    <2>2. app' = "exited" => NothingCut'
      BY <1>2 DEF StopFits, NothingCut, world
    <2> QED
      BY <1>0, <1>2, <2>1, <2>2 DEF StopFits
  <1> QED
    BY <1>3, <1>4, <1>5, <1>6, <1>7, <1>8, <1>9, <1>10 DEF HolderInv

----------------------------------------------------------------------------
(* What the child does.                                                     *)

HolderStays == UNCHANGED <<phase, queue, flight, asked, account, unresolved, broken, owns, ending>>
JustSaid(k, t) == \E i : New(i) /\ wire'[i].kind = k /\ wire'[i].turn = t
TurnMoves(t) ==
    \/ turn'[t] = turn[t]
    \/ turn[t] = "asked" /\ turn'[t] = "running" /\ JustSaid("started", t)
    \/ turn[t] = "running" /\ turn'[t] = "over" /\ command[t] # "running" /\ JustSaid("completed", t)
CommandMoves(t) ==
    \/ command'[t] = command[t]
    \/ turn[t] = "running" /\ command[t] = "none" /\ command'[t] = "running" /\ JustSaid("begun", t)
    \/ command[t] = "running" /\ command'[t] = "over" /\ JustSaid("ended", t)
OnlyOne(k, t) == \A i : New(i) => wire'[i].kind \in {"answer", "interrupted"} \/ (wire'[i].kind = k /\ wire'[i].turn = t)

\* One turn moves, or one command, and the wire tells it.
AppMoves ==
    /\ app = "up" /\ app' = "up" /\ HolderStays /\ Longer
    /\ turn' \in [Turns -> {"none", "asked", "running", "over", "cut"}]
    /\ command' \in [Turns -> {"none", "running", "over", "cut"}]
    /\ unanswered' \subseteq Turns /\ status' \in Turns \cup {NoTurn}
    /\ turn' = turn \/ command' = command
    /\ Announced => Announced' \/ \E t : JustSaid("started", t)
    /\ \A t \in Turns : TurnMoves(t) /\ CommandMoves(t)
    /\ \A i : New(i) =>
          /\ wire'[i].kind = "completed" => turn'[wire'[i].turn] = "over"
          /\ wire'[i].kind = "ended" => command'[wire'[i].turn] = "over"
          /\ wire'[i].kind = "started" => turn'[wire'[i].turn] = "running"
          /\ wire'[i].kind = "begun" => command'[wire'[i].turn] = "running"
          /\ wire'[i].kind = "active" => Announced'

LEMMA StaysAlone ==
    ASSUME HolderStays
    PROVE  UNCHANGED <<phase, queue, flight, asked, active, busy, turnStarted, current, lastTurn, pending,
                       unresolved, broken, owns, stopping, stop, interrupts, closingApp, closed, confirmed,
                       stops>>
  BY DEF HolderStays, account, ending

LEMMA SaidFresh ==
    ASSUME NEW k, NEW t, JustSaid(k, t)
    PROVE  Said(k, t)'
  BY DEF JustSaid, Said, New

LEMMA AppMovesStep ==
    ASSUME HolderInv, AppMoves
    PROVE  HolderInv'
  <1> USE HolderParts
  <1>0. /\ app = "up" /\ app' = "up" /\ Longer
        /\ UNCHANGED <<phase, queue, flight, asked, active, busy, turnStarted, current, lastTurn, pending,
                       unresolved, broken, owns, stopping, stop, interrupts, closingApp, closed, confirmed,
                       stops>>
    BY StaysAlone DEF AppMoves
  <1>1. \A t \in Turns : TurnMoves(t) /\ CommandMoves(t)
    BY DEF AppMoves
  <1>2. /\ turn' \in [Turns -> {"none", "asked", "running", "over", "cut"}]
        /\ command' \in [Turns -> {"none", "running", "over", "cut"}]
        /\ unanswered' \subseteq Turns /\ status' \in Turns \cup {NoTurn} /\ wire' \in Seq(Message)
    BY DEF AppMoves, Longer
  <1>3. \A k, t : /\ Said(k, t) => Said(k, t)'
                  /\ JustSaid(k, t) => Said(k, t)'
    BY <1>0, HolderTypes, SaidStays, SaidFresh
  <1>4. HolderTypeOK'
    BY <1>0, <1>2 DEF HolderTypeOK
  <1>5. TruthFits'
    <2>1. turn' = turn \/ command' = command
      BY DEF AppMoves
    <2>2. \A t \in Turns : command'[t] = "running" => turn'[t] = "running"
      BY <1>1, <2>1 DEF TruthFits, TurnMoves, CommandMoves
    <2>3. \A t \in Turns : turn'[t] # "cut" /\ command'[t] # "cut"
      BY <1>0, <1>1 DEF TruthFits, TurnMoves, CommandMoves
    <2>4. Up'
      BY <1>0 DEF TruthFits, Up
    <2> QED
      BY <2>2, <2>3, <2>4 DEF TruthFits
  <1>6. NumbersFit'
    <2>1. \A t \in Turns : asked' < t => turn'[t] = "none"
      BY <1>0, <1>1 DEF NumbersFit, TurnMoves
    <2>2. Waiting' = Waiting /\ Binding' = Binding /\ asked' = asked /\ queue' = queue
      BY <1>0 DEF Waiting, Binding
    <2> QED
      BY <2>1, <2>2 DEF NumbersFit
  <1>7. WireFits'
    <2>1. \A t \in Turns : /\ turn[t] = "over" => turn'[t] = "over"
                           /\ command[t] = "over" => command'[t] = "over"
                           /\ turn[t] = "running" /\ turn'[t] # "running" => JustSaid("completed", t)
                           /\ command[t] = "running" /\ command'[t] # "running" => JustSaid("ended", t)
      BY <1>1 DEF TurnMoves, CommandMoves
    <2>2. \A i : New(i) =>
              /\ wire'[i].kind = "completed" => turn'[wire'[i].turn] = "over"
              /\ wire'[i].kind = "ended" => command'[wire'[i].turn] = "over"
              /\ wire'[i].kind = "started" => turn'[wire'[i].turn] = "running"
              /\ wire'[i].kind = "begun" => command'[wire'[i].turn] = "running"
      BY DEF AppMoves
    <2> QED
      BY <1>0, <2>1, <2>2, WireGrows DEF JustSaid
  <1>8. HeardFits'
    <2>1. \A t \in Turns : turn[t] = "over" => turn'[t] = "over"
      BY <1>1 DEF TurnMoves
    <2>2. flight # NoTurn => flight.heard \subseteq Turns
      BY FlightTypes
    <2>3. lastTurn # NoTurn => lastTurn \in Turns
      BY DEF HolderTypeOK
    <2> QED
      BY <1>0, <2>1, <2>2, <2>3 DEF HeardFits
  <1>9. ActiveFits'
    <2> SUFFICES ASSUME owns
                 PROVE  /\ \A t \in active : Open(t)' \/ Said("completed", t)'
                        /\ \A t \in Turns : turn'[t] = "running" => t \in active \/ Said("started", t)'
                        /\ ~unresolved => \A t \in Turns : Open(t)' => t \in active \/ (flight # NoTurn /\ flight.turn = t)
                        /\ flight # NoTurn /\ flight.turn # NoTurn =>
                              \/ Open(flight.turn)'
                              \/ Said("completed", flight.turn)'
                              \/ flight.turn \in flight.heard
      BY <1>0 DEF ActiveFits
    <2>1. \A t \in Turns : /\ Open(t) \/ Said("completed", t) => Open(t)' \/ Said("completed", t)'
                           /\ Open(t)' => Open(t)
                           /\ turn'[t] = "running" => turn[t] = "running" \/ Said("started", t)'
      BY <1>1, <1>3 DEF TurnMoves, Open
    <2>2. \A t \in active : Open(t)' \/ Said("completed", t)'
      BY <1>0, <2>1, HolderTypes DEF ActiveFits
    <2>3. \A t \in Turns : turn'[t] = "running" => t \in active \/ Said("started", t)'
      BY <1>0, <1>3, <2>1 DEF ActiveFits
    <2>4. ~unresolved => \A t \in Turns : Open(t)' => t \in active \/ (flight # NoTurn /\ flight.turn = t)
      BY <1>0, <2>1 DEF ActiveFits
    <2>5. ASSUME flight # NoTurn, flight.turn # NoTurn
          PROVE  Open(flight.turn)' \/ Said("completed", flight.turn)' \/ flight.turn \in flight.heard
      <3>1. flight.turn \in Turns /\ flight' = flight
        BY <1>0, <2>5, FlightTypes
      <3>2. PICK t \in Turns : t = flight.turn
        BY <3>1
      <3>3. Open(t) \/ Said("completed", t) \/ t \in flight.heard
        BY <1>0, <2>5, <3>2 DEF ActiveFits
      <3>4. Open(t)' \/ Said("completed", t)' \/ t \in flight.heard
        BY <2>1, <3>3
      <3> QED
        BY <3>1, <3>2, <3>4 DEF Open, Said
    <2> QED
      BY <2>2, <2>3, <2>4, <2>5
  <1>10. PendingFits'
    <2>1. \A t \in Turns :
              /\ command[t] = "running" \/ Said("ended", t) => command'[t] = "running" \/ Said("ended", t)'
              /\ command'[t] = "running" => command[t] = "running" \/ Said("begun", t)'
      BY <1>1, <1>3 DEF CommandMoves
    <2> QED
      BY <1>0, <1>3, <2>1, HolderTypes DEF PendingFits
  <1>11. FirstFits'
    BY <1>0 DEF FirstFits
  <1>12. BusyFits'
    <2>1. AboutToStart => AboutToStart'
      BY <1>3 DEF AppMoves, AboutToStart
    <2> QED
      BY <1>0, <2>1 DEF BusyFits
  <1>13. StatusFits'
    <2> SUFFICES ASSUME NEW i \in 1..Len(wire'), wire'[i].kind = "active"
                 PROVE  Announced' \/ \E t : Follows(i, "started", t)'
      BY DEF StatusFits
    <2>1. CASE New(i)
      BY <2>1 DEF AppMoves
    <2>2. CASE ~New(i)
      <3>1. Len(wire) \in Nat /\ Len(wire') \in Nat
        BY <1>2, HolderTypes
      <3>2. i \in 1..Len(wire) /\ wire[i].kind = "active"
        BY <1>0, <2>2, <3>1 DEF New, Longer
      <3>3. CASE Announced
        <4>1. Announced' \/ \E t : JustSaid("started", t)
          BY <3>3 DEF AppMoves
        <4>2. \A j : New(j) => j \in 1..Len(wire') /\ i < j
          BY <3>1, <3>2 DEF New
        <4> QED
          BY <4>1, <4>2 DEF JustSaid, Follows
      <3>4. ASSUME NEW t, Follows(i, "started", t)
            PROVE  Follows(i, "started", t)'
        BY <1>0, <3>2, <3>4, HolderTypes, SaidStays
      <3> QED
        BY <1>0, <3>2, <3>3, <3>4 DEF StatusFits
    <2> QED
      BY <2>1, <2>2
  <1>14. StopFits'
    <2>1. closingApp => NothingCut'
      <3>1. NothingCut => NothingCut'
        BY <1>1 DEF NothingCut, TurnMoves, CommandMoves
      <3> QED
        BY <1>0, <3>1 DEF StopFits
    <2>2. Rested' <=> Rested
      BY <1>0 DEF Rested
    <2> QED
      BY <1>0, <2>1, <2>2 DEF StopFits
  <1> QED
    BY <1>4, <1>5, <1>6, <1>7, <1>8, <1>9, <1>10, <1>11, <1>12, <1>13, <1>14 DEF HolderInv

LEMMA FreshOne ==
    ASSUME HolderTypeOK, NEW k \in Kinds, NEW t \in Turns, Say(k, t)
    PROVE  Longer /\ JustSaid(k, t) /\ (\A i : New(i) => wire'[i].kind = k /\ wire'[i].turn = t)
  BY OneMore, HolderTypes DEF JustSaid

\* An interrupt that ends its turn writes two messages at once.
LEMMA FreshTwo ==
    ASSUME HolderTypeOK, NEW t \in Turns,
           wire' = wire \o <<[kind |-> "interrupted", turn |-> t], [kind |-> "completed", turn |-> t]>>
    PROVE  Longer /\ JustSaid("completed", t)
           /\ (\A i : New(i) => wire'[i].kind \in {"interrupted", "completed"} /\ wire'[i].turn = t)
  <1> DEFINE a == [kind |-> "interrupted", turn |-> t]
             b == [kind |-> "completed", turn |-> t]
  <1>1. /\ a \in Message /\ b \in Message /\ a.kind = "interrupted" /\ a.turn = t
        /\ b.kind = "completed" /\ b.turn = t
    BY DEF Message, Kinds
  <1>2. wire' = wire \o <<a, b>>
    OBVIOUS
  <1> HIDE DEF a, b
  <1>3. wire \in Seq(Message) /\ <<a, b>> \in Seq(Message) /\ Len(<<a, b>>) = 2 /\ Len(wire) \in Nat
    BY <1>1, HolderTypes
  <1>4. /\ wire' \in Seq(Message) /\ Len(wire') = Len(wire) + 2
        /\ \A i \in 1..Len(wire) : wire'[i] = wire[i]
        /\ wire'[Len(wire) + 1] = a /\ wire'[Len(wire) + 2] = b
    BY <1>2, <1>3
  <1>5. \A i : New(i) => i = Len(wire) + 1 \/ i = Len(wire) + 2
    BY <1>3, <1>4 DEF New
  <1>6. New(Len(wire) + 2)
    BY <1>3, <1>4 DEF New
  <1>7. Longer
    BY <1>3, <1>4 DEF Longer
  <1>8. JustSaid("completed", t)
    BY <1>1, <1>4, <1>6 DEF JustSaid
  <1> QED
    BY <1>1, <1>4, <1>5, <1>7, <1>8

LEMMA AppActs ==
    ASSUME HolderInv, NEW t \in Turns,
           \/ AppActive(t) \/ AppIdle(t)
           \/ AppStarts(t) \/ AppAnswers(t) \/ AppRuns(t) \/ AppRan(t) \/ AppCompletes(t)
           \/ AppInterrupts(t)
    PROVE  AppMoves
  <1> USE HolderParts DEF Kinds
  <1>0. /\ turn \in [Turns -> {"none", "asked", "running", "over", "cut"}]
        /\ command \in [Turns -> {"none", "running", "over", "cut"}]
        /\ unanswered \subseteq Turns /\ status \in Turns \cup {NoTurn} /\ t # NoTurn
    BY HolderTypes, TurnsAreSome DEF HolderTypeOK
  <1>1. app = "up" /\ app' = "up" /\ HolderStays
    BY DEF AppActive, AppIdle, AppStarts, AppAnswers, AppRuns, AppRan, AppCompletes, AppInterrupts,
           HolderStays
  <1>2. CASE AppStarts(t)
    <2>1. Say("started", t) /\ turn[t] = "asked" /\ turn' = [turn EXCEPT ![t] = "running"]
          /\ command' = command /\ unanswered' = unanswered /\ status' = status
      BY <1>2 DEF AppStarts
    <2>2. Longer /\ JustSaid("started", t) /\ (\A i : New(i) => wire'[i].kind = "started" /\ wire'[i].turn = t)
      BY <2>1, FreshOne
    <2> QED
      BY <1>0, <1>1, <2>1, <2>2 DEF AppMoves, TurnMoves, CommandMoves, Announced
  <1>3. CASE AppAnswers(t)
    <2>1. Say("answer", t) /\ turn' = turn /\ command' = command /\ unanswered' \subseteq unanswered
          /\ status' = status
      BY <1>3 DEF AppAnswers
    <2>2. Longer /\ (\A i : New(i) => wire'[i].kind = "answer" /\ wire'[i].turn = t)
      BY <2>1, FreshOne
    <2> QED
      BY <1>0, <1>1, <2>1, <2>2 DEF AppMoves, TurnMoves, CommandMoves, Announced
  <1>4. CASE AppRuns(t)
    <2>1. /\ Say("begun", t) /\ turn[t] = "running" /\ command[t] = "none"
          /\ command' = [command EXCEPT ![t] = "running"]
          /\ turn' = turn /\ unanswered' = unanswered /\ status' = status
      BY <1>4 DEF AppRuns
    <2>2. Longer /\ JustSaid("begun", t) /\ (\A i : New(i) => wire'[i].kind = "begun" /\ wire'[i].turn = t)
      BY <2>1, FreshOne
    <2> QED
      BY <1>0, <1>1, <2>1, <2>2 DEF AppMoves, TurnMoves, CommandMoves, Announced
  <1>5. CASE AppRan(t)
    <2>1. /\ Say("ended", t) /\ command[t] = "running" /\ command' = [command EXCEPT ![t] = "over"]
          /\ turn' = turn /\ unanswered' = unanswered /\ status' = status
      BY <1>5 DEF AppRan
    <2>2. Longer /\ JustSaid("ended", t) /\ (\A i : New(i) => wire'[i].kind = "ended" /\ wire'[i].turn = t)
      BY <2>1, FreshOne
    <2> QED
      BY <1>0, <1>1, <2>1, <2>2 DEF AppMoves, TurnMoves, CommandMoves, Announced
  <1>6. CASE AppCompletes(t)
    <2>1. /\ Say("completed", t) /\ turn[t] = "running" /\ command[t] # "running"
          /\ turn' = [turn EXCEPT ![t] = "over"]
          /\ command' = command /\ unanswered' = unanswered /\ status' = status
      BY <1>6 DEF AppCompletes
    <2>2. Longer /\ JustSaid("completed", t) /\ (\A i : New(i) => wire'[i].kind = "completed" /\ wire'[i].turn = t)
      BY <2>1, FreshOne
    <2> QED
      BY <1>0, <1>1, <2>1, <2>2 DEF AppMoves, TurnMoves, CommandMoves, Announced
  <1>7. CASE AppInterrupts(t)
    <2>1. CASE turn[t] = "running" /\ command[t] # "running"
      <3>1. /\ turn' = [turn EXCEPT ![t] = "over"] /\ command' = command
            /\ unanswered' = unanswered /\ status' = status
            /\ wire' = wire \o <<[kind |-> "interrupted", turn |-> t], [kind |-> "completed", turn |-> t]>>
        BY <1>7, <2>1 DEF AppInterrupts
      <3>2. Longer /\ JustSaid("completed", t)
            /\ (\A i : New(i) => wire'[i].kind \in {"interrupted", "completed"} /\ wire'[i].turn = t)
        BY <3>1, FreshTwo
      <3>3. turn' = turn \/ command' = command
        BY <3>1
      <3> HIDE DEF Message
      <3>4. \A u \in Turns : TurnMoves(u) /\ CommandMoves(u)
        BY <1>0, <2>1, <3>1, <3>2 DEF TurnMoves, CommandMoves
      <3>5. /\ turn' \in [Turns -> {"none", "asked", "running", "over", "cut"}]
            /\ turn'[t] = "over" /\ command' = command /\ unanswered' = unanswered /\ status' = status
            /\ Announced => Announced'
        BY <1>0, <2>1, <3>1 DEF Announced
      <3> QED
        BY ONLY <1>0, <1>1, <3>2, <3>3, <3>4, <3>5 DEF AppMoves
    <2>2. CASE ~(turn[t] = "running" /\ command[t] # "running")
      <3>1. Say("interrupted", t) /\ turn' = turn /\ command' = command
            /\ unanswered' = unanswered /\ status' = status
        BY <1>7, <2>2 DEF AppInterrupts
      <3>2. Longer /\ (\A i : New(i) => wire'[i].kind = "interrupted" /\ wire'[i].turn = t)
        BY <3>1, FreshOne
      <3> QED
        BY <1>0, <1>1, <3>1, <3>2 DEF AppMoves, TurnMoves, CommandMoves, Announced
    <2> QED
      BY <2>1, <2>2
  <1>8. CASE AppActive(t)
    <2>1. Say("active", t) /\ turn' = turn /\ command' = command /\ unanswered' = unanswered
          /\ status' = t /\ turn[t] = "asked"
      BY <1>8 DEF AppActive
    <2>2. Longer /\ (\A i : New(i) => wire'[i].kind = "active" /\ wire'[i].turn = t)
      BY <2>1, FreshOne
    <2> QED
      BY <1>0, <1>1, <2>1, <2>2 DEF AppMoves, TurnMoves, CommandMoves, Announced
  <1>9. CASE AppIdle(t)
    <2>1. Say("idle", t) /\ turn' = turn /\ command' = command /\ unanswered' = unanswered
          /\ status' = NoTurn /\ ~Announced
      BY <1>9 DEF AppIdle
    <2>2. Longer /\ (\A i : New(i) => wire'[i].kind = "idle" /\ wire'[i].turn = t)
      BY <2>1, FreshOne
    <2> QED
      BY <1>0, <1>1, <2>1, <2>2 DEF AppMoves, TurnMoves, CommandMoves
  <1> QED
    BY <1>2, <1>3, <1>4, <1>5, <1>6, <1>7, <1>8, <1>9

\* The child that ends by itself was at rest: its input ends no sooner.
LEMMA AppEnds ==
    ASSUME HolderInv, AppExits \/ AppCrashes
    PROVE  HolderInv'
  <1> USE HolderParts
  <1>0. /\ app = "up" /\ wire' = wire
        /\ \/ closingApp /\ Ends("exited")
           \/ Ends("crashed")
        /\ UNCHANGED <<phase, queue, flight, asked, active, busy, turnStarted, current, lastTurn, pending,
                       unresolved, broken, owns, stopping, stop, interrupts, closingApp, closed, confirmed,
                       stops>>
    BY DEF AppExits, AppCrashes, account, ending
  <1>1. /\ turn' \in [Turns -> {"none", "asked", "running", "over", "cut"}]
        /\ command' \in [Turns -> {"none", "running", "over", "cut"}]
        /\ app' \in {"exited", "crashed"} /\ unanswered' = unanswered /\ status' = NoTurn
        /\ \A t \in Turns : /\ turn'[t] = IF Open(t) THEN "cut" ELSE turn[t]
                            /\ command'[t] = IF command[t] = "running" THEN "cut" ELSE command[t]
    BY <1>0, EndsTypes
  <1>2. HolderTypeOK'
    BY <1>0, <1>1 DEF HolderTypeOK
  <1>3. TruthFits'
    BY <1>1, <1>2, HolderTypes DEF TruthFits
  <1>4. NumbersFit'
    <2>1. \A t \in Turns : asked' < t => turn'[t] = "none"
      BY <1>0, <1>1 DEF NumbersFit, Open
    <2>2. Waiting' = Waiting /\ Binding' = Binding /\ asked' = asked /\ queue' = queue
      BY <1>0 DEF Waiting, Binding
    <2> QED
      BY <2>1, <2>2 DEF NumbersFit
  <1>5. \A t \in Turns : turn[t] = "over" => turn'[t] = "over"
    BY <1>1 DEF Open
  <1>6. \A t \in Turns : command[t] = "over" => command'[t] = "over"
    BY <1>1
  <1>7. WireFits'
    <2>1. wire \in Seq(Message)
      BY HolderTypes
    <2>2. \A i \in 1..Len(wire) : wire[i].turn \in Turns
      <3>1. \A i \in 1..Len(wire) : wire[i] \in Message
        BY <2>1
      <3> QED
        BY <3>1 DEF Message
    <2> QED
      BY <1>0, <1>1, <1>5, <1>6, <2>2 DEF WireFits
  <1>8. HeardFits'
    <2>1. flight # NoTurn => flight.heard \subseteq Turns
      BY FlightTypes
    <2>2. lastTurn # NoTurn => lastTurn \in Turns
      BY DEF HolderTypeOK
    <2> QED
      BY <1>0, <1>5, <2>1, <2>2 DEF HeardFits
  <1>9. ActiveFits' /\ PendingFits' /\ StatusFits'
    BY <1>1 DEF ActiveFits, PendingFits, StatusFits
  <1>10. FirstFits' /\ BusyFits'
    BY <1>0, <1>1 DEF FirstFits, BusyFits
  <1>11. StopFits'
    <2>1. app' = "exited" => NothingCut'
      <3> SUFFICES ASSUME app' = "exited" PROVE NothingCut'
        OBVIOUS
      <3>1. closingApp
        BY <1>0 DEF Ends
      <3>2. NothingCut
        BY <1>0, <3>1 DEF StopFits
      <3> QED
        BY <1>1, <3>2 DEF NothingCut, Open
    <2>2. ~confirmed
      BY <1>0 DEF StopFits
    <2>3. Rested' <=> Rested
      BY <1>0 DEF Rested
    <2> QED
      BY <1>0, <1>1, <2>1, <2>2, <2>3 DEF StopFits
  <1> QED
    BY <1>2, <1>3, <1>4, <1>7, <1>8, <1>9, <1>10, <1>11 DEF HolderInv

LEMMA AppStep ==
    ASSUME HolderInv, App
    PROVE  HolderInv'
  BY AppActs, AppEnds, AppMovesStep DEF App

----------------------------------------------------------------------------
(* How a stop proceeds.                                                     *)

\* Steps that touch neither the child nor the account of its turns.
LEMMA AsideStep ==
    ASSUME HolderInv, HolderTypeOK', StopFits',
           UNCHANGED <<app, turn, command, status, wire, phase, queue, flight, asked, active, busy,
                       turnStarted,
                       current, lastTurn, pending, unresolved>>,
           owns' => owns
    PROVE  HolderInv'
  <1> USE HolderParts
  <1>1. TruthFits'
    BY DEF TruthFits, Up
  <1>2. NumbersFit'
    <2>1. Waiting' = Waiting /\ Binding' = Binding
      BY DEF Waiting, Binding
    <2> QED
      BY <2>1 DEF NumbersFit
  <1>3. WireFits' /\ StatusFits'
    BY DEF WireFits, StatusFits, Announced, Follows
  <1>4. HeardFits'
    BY DEF HeardFits
  <1>5. ActiveFits' /\ PendingFits'
    BY DEF ActiveFits, PendingFits, Open, Said
  <1>6. FirstFits' /\ BusyFits'
    BY DEF FirstFits, BusyFits, AboutToStart, Announced, Said
  <1> QED
    BY <1>1, <1>2, <1>3, <1>4, <1>5, <1>6 DEF HolderInv

\* When the input of a child is ended, every turn asked for was answered and
\* counted, and none is counted any more.
LEMMA DrainIsQuiet ==
    ASSUME HolderInv, stop = "drain", active = {}, owns, app = "up"
    PROVE  NothingCut
  <1> USE HolderParts
  <1>1. Rested /\ ~unresolved
    BY DEF StopFits
  <1>2. \A t \in Turns : ~Open(t)
    BY <1>1 DEF ActiveFits, Rested
  <1>3. \A t \in Turns : turn[t] # "cut" /\ command[t] # "cut" /\ command[t] # "running"
    BY <1>2 DEF TruthFits, Open
  <1> QED
    BY <1>2, <1>3, HolderTypes DEF NothingCut, Open

LEMMA FinalizeStep ==
    ASSUME HolderInv, Finalize \/ Lose
    PROVE  HolderInv'
  <1> USE HolderParts
  <1> DEFINE Same == UNCHANGED <<app, turn, command, unanswered, status, wire, phase, queue, flight, asked,
                                 active, busy, turnStarted, current, lastTurn, pending, unresolved>>
  <1>0. interrupts \in [Turns -> {"none", "pending", "done", "failed"}]
    BY HolderTypes
  <1>1. CASE StopRequested
    <2>1. /\ Same /\ UNCHANGED <<broken, owns, interrupts, closingApp, closed, confirmed>>
          /\ stopping' = TRUE /\ stop' \in {"none", "settle"}
      BY <1>1 DEF StopRequested, world, account
    <2>2. stops' \in 0..MaxStops
      <3>1. stops \in 0..MaxStops /\ stops < MaxStops /\ MaxStops \in Nat
        BY <1>1, SessionHolderAssumption DEF StopRequested, HolderTypeOK
      <3>2. stops + 1 \in 0..MaxStops
        BY <3>1
      <3> QED
        BY <1>1, <3>2 DEF StopRequested
    <2>3. HolderTypeOK'
      BY <2>1, <2>2 DEF HolderTypeOK, Timed
    <2>4. StopFits'
      BY <2>1 DEF StopFits, Rested, NothingCut
    <2> QED
      BY <2>1, <2>3, <2>4, AsideStep
  <1>2. CASE Settle
    <2>1. /\ Same /\ UNCHANGED <<broken, owns, interrupts, closingApp, closed, confirmed, stopping, stops>>
          /\ stop = "settle" /\ stop' \in {"none", "commands"}
          /\ stop' = "commands" => Rested /\ ~unresolved
      BY <1>2 DEF Settle, StopStep, world, account, RequestsSettled, Rested
    <2>2. HolderTypeOK'
      BY <2>1 DEF HolderTypeOK, Timed
    <2>3. StopFits'
      BY <2>1 DEF StopFits, Rested, NothingCut
    <2> QED
      BY <2>1, <2>2, <2>3, AsideStep
  <1>3. CASE Commands
    <2>1. /\ Same /\ UNCHANGED <<broken, owns, closingApp, closed, confirmed, stopping, stops>>
          /\ stop = "commands" /\ stop' \in {"none", "interrupts"}
      BY <1>3 DEF Commands, StopStep, world, account
    <2>2. interrupts' \in [Turns -> {"none", "pending", "done", "failed"}]
      BY <1>0, <1>3 DEF Commands
    <2>3. HolderTypeOK'
      BY <2>1, <2>2 DEF HolderTypeOK, Timed
    <2>4. StopFits'
      BY <2>1 DEF StopFits, Rested, NothingCut
    <2> QED
      BY <2>1, <2>3, <2>4, AsideStep
  <1>4. CASE Interrupts
    <2>1. /\ Same /\ UNCHANGED <<broken, owns, interrupts, closingApp, closed, confirmed, stopping, stops>>
          /\ stop = "interrupts" /\ stop' \in {"none", "drain"}
      BY <1>4 DEF Interrupts, StopStep, world, account
    <2>2. HolderTypeOK'
      BY <2>1 DEF HolderTypeOK, Timed
    <2>3. StopFits'
      BY <2>1 DEF StopFits, Rested, NothingCut
    <2> QED
      BY <2>1, <2>2, <2>3, AsideStep
  <1>5. CASE Drain
    <2>1. /\ Same /\ UNCHANGED <<broken, owns, interrupts, closed, confirmed, stopping, stops>>
          /\ stop = "drain" /\ stop' \in {"none", "close"}
          /\ \/ closingApp' = closingApp
             \/ closingApp' = TRUE /\ active = {} /\ owns
      BY <1>5 DEF Drain, StopStep, world, account
    <2>2. HolderTypeOK'
      BY <2>1 DEF HolderTypeOK, Timed
    <2>3. closingApp' /\ app' = "up" => NothingCut
      BY <2>1, DrainIsQuiet DEF StopFits
    <2>4. NothingCut' <=> NothingCut
      BY <2>1 DEF NothingCut
    <2>5. Rested' <=> Rested
      BY <2>1 DEF Rested
    <2>6. StopFits'
      BY <2>1, <2>3, <2>4, <2>5 DEF StopFits
    <2> QED
      BY <2>1, <2>2, <2>6, AsideStep
  <1>6. CASE Confirm
    <2>1. /\ Same /\ UNCHANGED <<broken, owns, interrupts, closingApp, closed, stopping, stops>>
          /\ stop' = "none" /\ confirmed' \in BOOLEAN
          /\ confirmed' => app = "exited"
      BY <1>6 DEF Confirm, CleanClose, world, account, HolderTypeOK
    <2>2. HolderTypeOK'
      BY <2>1 DEF HolderTypeOK, Timed
    <2>3. StopFits'
      BY <2>1 DEF StopFits, Rested, NothingCut
    <2> QED
      BY <2>1, <2>2, <2>3, AsideStep
  <1>7. CASE ConfirmedExit
    BY <1>7, GoneStep DEF ConfirmedExit
  <1>8. CASE Deadline
    <2>1. /\ Same /\ UNCHANGED <<broken, owns, closingApp, closed, confirmed, stopping, stops>>
          /\ stop' = "none"
      BY <1>8 DEF Deadline, StopStep, world, account
    <2>2. interrupts' \in [Turns -> {"none", "pending", "done", "failed"}]
      BY <1>0, <1>8 DEF Deadline
    <2>3. HolderTypeOK'
      BY <2>1, <2>2 DEF HolderTypeOK, Timed
    <2>4. StopFits'
      BY <2>1 DEF StopFits, Rested, NothingCut
    <2> QED
      BY <2>1, <2>3, <2>4, AsideStep
  <1>9. CASE Lose
    <2>1. /\ Same /\ owns' = FALSE
          /\ UNCHANGED <<broken, stopping, stop, interrupts, closingApp, closed, confirmed, stops>>
      BY <1>9 DEF Lose, world, account, ending
    <2>2. HolderTypeOK'
      BY <2>1 DEF HolderTypeOK, Timed
    <2>3. StopFits'
      BY <2>1 DEF StopFits, Rested, NothingCut
    <2> QED
      BY <2>1, <2>2, <2>3, AsideStep
  <1> QED
    BY <1>1, <1>2, <1>3, <1>4, <1>5, <1>6, <1>7, <1>8, <1>9 DEF Finalize

----------------------------------------------------------------------------
(* What the holder hears.                                                   *)

LEMMA HeardHead ==
    ASSUME HolderInv, NEW k \in Kinds, NEW t \in Turns, Hears(k, t),
           UNCHANGED <<app, turn, command, status>>
    PROVE  /\ WireFits' /\ StatusFits' /\ wire' \in Seq(Message)
           /\ \A l, u : Said(l, u) => Said(l, u)' \/ (l = k /\ u = t)
           /\ k = "completed" => turn[t] = "over"
           /\ k = "ended" => command[t] = "over"
           /\ k = "started" /\ app = "up" => turn[t] = "running" \/ Said("completed", t)'
           /\ k = "begun" /\ app = "up" => command[t] = "running" \/ Said("ended", t)'
           /\ k = "active" /\ app = "up" => AboutToStart'
           /\ k # "started" /\ AboutToStart => AboutToStart'
  <1> USE HolderParts
  <1> DEFINE m == [kind |-> k, turn |-> t]
  <1>1. wire # << >> /\ Head(wire) = m /\ wire' = Tail(wire)
    BY DEF Hears
  <1>2. m.kind = k /\ m.turn = t
    OBVIOUS
  <1> HIDE DEF m
  <1>3. Head(wire).kind = k /\ Head(wire).turn = t
    BY <1>1, <1>2
  <1>4. 1 \in 1..Len(wire) /\ wire[1].kind = k /\ wire[1].turn = t
    BY <1>1, <1>3, HolderTypes
  <1>5. /\ WireFits' /\ wire' \in Seq(Message)
        /\ \A l, u : Said(l, u) => Said(l, u)' \/ (Head(wire).kind = l /\ Head(wire).turn = u)
        /\ \A l, u : Follows(1, l, u) => Said(l, u)'
        /\ \A i \in 1..Len(wire') :
              /\ i + 1 \in 1..Len(wire) /\ wire'[i] = wire[i + 1]
              /\ \A l, u : Follows(i + 1, l, u) => Follows(i, l, u)'
    BY <1>1, WireShrinks
  <1>6. /\ k = "completed" => turn[t] = "over"
        /\ k = "ended" => command[t] = "over"
        /\ app = "up" /\ k = "started" => turn[t] = "running" \/ Follows(1, "completed", t)
        /\ app = "up" /\ k = "begun" => command[t] = "running" \/ Follows(1, "ended", t)
    BY <1>4 DEF WireFits
  <1>7. Announced' <=> Announced
    BY DEF Announced
  <1>8. StatusFits'
    <2> SUFFICES ASSUME app = "up", NEW i \in 1..Len(wire'), wire'[i].kind = "active"
                 PROVE  Announced' \/ \E u : Follows(i, "started", u)'
      BY DEF StatusFits
    <2>1. Announced \/ \E u : Follows(i + 1, "started", u)
      BY <1>5 DEF StatusFits
    <2> QED
      BY <1>5, <1>7, <2>1
  <1>9. k = "active" /\ app = "up" => AboutToStart'
    BY <1>4, <1>5, <1>7 DEF StatusFits, AboutToStart
  <1>10. k # "started" /\ AboutToStart => AboutToStart'
    BY <1>3, <1>5, <1>7 DEF AboutToStart
  <1> QED
    BY <1>3, <1>5, <1>6, <1>8, <1>9, <1>10

LEMMA FlightChanges ==
    ASSUME HolderTypeOK, flight # NoTurn, NEW t \in Turns
    PROVE  /\ LET f == [flight EXCEPT !.heard = @ \cup {t}]
              IN /\ f \in Flight /\ f # NoTurn
                 /\ f.turn = flight.turn /\ f.first = flight.first
                 /\ f.heard = flight.heard \cup {t} /\ f.answered = flight.answered
           /\ LET f == [flight EXCEPT !.answered = TRUE]
              IN /\ f \in Flight /\ f # NoTurn
                 /\ f.turn = flight.turn /\ f.first = flight.first /\ f.heard = flight.heard
           /\ LET f == [flight EXCEPT !.turn = t]
              IN /\ f \in Flight /\ f # NoTurn
                 /\ f.turn = t /\ f.first = flight.first /\ f.heard = flight.heard
  <1>1. flight \in Flight
    BY FlightTypes
  <1>2. \A f \in Flight : f # NoTurn
    BY NoFlightAssumption
  <1>3. /\ [flight EXCEPT !.heard = @ \cup {t}] \in Flight
        /\ [flight EXCEPT !.answered = TRUE] \in Flight
        /\ [flight EXCEPT !.turn = t] \in Flight
    BY <1>1 DEF Flight
  <1> QED
    BY <1>1, <1>2, <1>3 DEF Flight

\* The request in flight after something was heard: the same request.
SameFlight ==
    /\ flight' = NoTurn <=> flight = NoTurn
    /\ flight # NoTurn => flight'.turn = flight.turn /\ flight'.first = flight.first
    /\ flight # NoTurn /\ flight'.answered => flight.turn # NoTurn

\* Steps of the dispatch: the child and the requests stay.
LEMMA HearStep ==
    ASSUME HolderInv, HolderTypeOK', WireFits', StatusFits', Up', SameFlight,
           UNCHANGED <<app, turn, command, asked, queue, unresolved, owns,
                       stopping, stop, closingApp, confirmed>>,
           phase' = phase \/ (phase = "waitStarted" /\ phase' = "alive"),
           HeardFits', ActiveFits', PendingFits', BusyFits'
    PROVE  HolderInv'
  <1> USE HolderParts
  <1>1. TruthFits'
    BY DEF TruthFits
  <1>2. NumbersFit'
    <2>1. Waiting' = Waiting
      BY DEF Waiting, SameFlight
    <2>2. Binding' = Binding
      BY DEF Binding
    <2> QED
      BY <2>1, <2>2 DEF NumbersFit
  <1>3. FirstFits'
    BY DEF FirstFits, SameFlight
  <1>4. StopFits'
    <2>1. Rested' <=> Rested
      BY DEF Rested, SameFlight
    <2>2. NothingCut' <=> NothingCut
      BY DEF NothingCut
    <2> QED
      BY <2>1, <2>2 DEF StopFits
  <1> QED
    BY <1>1, <1>2, <1>3, <1>4 DEF HolderInv

\* What ActiveFits says, when the request in flight stays the same.
LEMMA ActiveHeard ==
    ASSUME HolderInv, UNCHANGED <<app, turn, owns, unresolved>>, SameFlight,
           app = "up" /\ owns =>
               /\ \A u \in active' : u \in Turns /\ (Open(u) \/ Said("completed", u)')
               /\ \A u \in Turns : turn[u] = "running" => u \in active' \/ Said("started", u)'
               /\ \A u \in active : u \in active' \/ turn[u] = "over"
               /\ flight # NoTurn /\ flight.turn # NoTurn =>
                     \/ Open(flight.turn)
                     \/ Said("completed", flight.turn)'
                     \/ flight.turn \in flight'.heard
    PROVE  ActiveFits'
  <1> USE HolderParts
  <1> SUFFICES ASSUME app = "up", owns
               PROVE  /\ \A u \in active' : Open(u)' \/ Said("completed", u)'
                      /\ \A u \in Turns : turn'[u] = "running" => u \in active' \/ Said("started", u)'
                      /\ ~unresolved' => \A u \in Turns : Open(u)' =>
                            u \in active' \/ (flight' # NoTurn /\ flight'.turn = u)
                      /\ flight' # NoTurn /\ flight'.turn # NoTurn =>
                            \/ Open(flight.turn)'
                            \/ Said("completed", flight.turn)'
                            \/ flight'.turn \in flight'.heard
    BY DEF ActiveFits, Open, Said
  <1>1. \A u : Open(u)' <=> Open(u)
    BY DEF Open
  <1>2. ~unresolved' => \A u \in Turns : Open(u)' => u \in active' \/ (flight' # NoTurn /\ flight'.turn = u)
    <2> SUFFICES ASSUME ~unresolved, NEW u \in Turns, Open(u)
                 PROVE  u \in active' \/ (flight' # NoTurn /\ flight'.turn = u)
      BY <1>1
    <2>1. u \in active \/ (flight # NoTurn /\ flight.turn = u)
      BY DEF ActiveFits
    <2>2. turn[u] # "over"
      BY DEF Open
    <2> QED
      BY <2>1, <2>2 DEF SameFlight
  <1>3. ASSUME flight' # NoTurn, flight'.turn # NoTurn
        PROVE  Open(flight.turn)' \/ Said("completed", flight.turn)' \/ flight'.turn \in flight'.heard
    <2>1. flight # NoTurn /\ flight'.turn = flight.turn
      BY <1>3 DEF SameFlight
    <2>2. Open(flight.turn) \/ Said("completed", flight.turn)' \/ flight.turn \in flight'.heard
      BY <1>3, <2>1
    <2> QED
      BY <2>1, <2>2 DEF Open, Said
  <1> QED
    BY <1>1, <1>2, <1>3

LEMMA HearsStarted ==
    ASSUME HolderInv, NEW t \in Turns, HearStarted(t)
    PROVE  HolderInv'
  <1> USE HolderParts
  <1>0. /\ Hears("started", t) /\ Up
        /\ UNCHANGED <<app, turn, command, unanswered, status, queue, flight, asked, lastTurn, pending,
                       unresolved, broken, owns, stopping, stop, interrupts, closingApp, closed, confirmed,
                       stops>>
        /\ \/ /\ owns /\ active' = active \cup {t} /\ busy' = TRUE /\ turnStarted' = TRUE /\ current' = t
              /\ phase' = IF phase = "waitStarted" THEN "alive" ELSE phase
           \/ ~owns /\ UNCHANGED <<active, busy, turnStarted, current, phase>>
    BY DEF HearStarted, Hears, world, ending
  <1>1. /\ WireFits' /\ StatusFits' /\ wire' \in Seq(Message)
        /\ \A l, u : Said(l, u) => Said(l, u)' \/ (l = "started" /\ u = t)
        /\ app = "up" => turn[t] = "running" \/ Said("completed", t)'
    BY <1>0, HeardHead DEF Kinds
  <1>2. /\ phase' = phase \/ (phase = "waitStarted" /\ phase' = "alive")
        /\ active' \subseteq Turns /\ active \subseteq active'
        /\ owns => t \in active' /\ active' = active \cup {t} /\ phase' # "waitStarted"
    BY <1>0, HolderTypes
  <1>3. HolderTypeOK'
    <2>1. busy' \in BOOLEAN /\ turnStarted' \in BOOLEAN
      BY <1>0 DEF HolderTypeOK
    <2>2. current' \in Turns \cup {NoTurn}
      BY <1>0 DEF HolderTypeOK
    <2>3. phase' \in {"binding", "first", "waitStarted", "alive", "gone", "notStarted"}
      BY <1>2 DEF HolderTypeOK
    <2> QED
      BY <1>0, <1>1, <1>2, <2>1, <2>2, <2>3 DEF HolderTypeOK
  <1>4. Up' /\ SameFlight /\ HeardFits'
    BY <1>0, <1>2 DEF Up, SameFlight, HeardFits, FirstFits
  <1>5. ActiveFits'
    <2> SUFFICES ASSUME app = "up", owns
                 PROVE  /\ \A u \in active' : u \in Turns /\ (Open(u) \/ Said("completed", u)')
                        /\ \A u \in Turns : turn[u] = "running" => u \in active' \/ Said("started", u)'
                        /\ \A u \in active : u \in active' \/ turn[u] = "over"
                        /\ flight # NoTurn /\ flight.turn # NoTurn =>
                              \/ Open(flight.turn)
                              \/ Said("completed", flight.turn)'
                              \/ flight.turn \in flight'.heard
      BY <1>0, <1>4, ActiveHeard
    <2>1. \A u \in active' : u \in Turns /\ (Open(u) \/ Said("completed", u)')
      BY <1>1, <1>2 DEF ActiveFits, Open
    <2>2. \A u \in Turns : turn[u] = "running" => u \in active' \/ Said("started", u)'
      BY <1>1, <1>2 DEF ActiveFits
    <2>3. ASSUME flight # NoTurn, flight.turn # NoTurn
          PROVE  Open(flight.turn) \/ Said("completed", flight.turn)' \/ flight.turn \in flight'.heard
      <3>1. Open(flight.turn) \/ Said("completed", flight.turn) \/ flight.turn \in flight.heard
        BY <2>3 DEF ActiveFits
      <3>2. PICK u : u = flight.turn
        OBVIOUS
      <3>3. Said("completed", u) => Said("completed", u)'
        BY <1>1
      <3>4. u = flight'.turn /\ flight' = flight
        BY <1>0, <3>2
      <3> QED
        BY <3>1, <3>2, <3>3, <3>4 DEF Said
    <2> QED
      BY <1>2, <2>1, <2>2, <2>3
  <1>6. PendingFits'
    BY <1>0, <1>1 DEF PendingFits
  <1>7. BusyFits'
    BY <1>0, <1>2 DEF BusyFits
  <1> QED
    BY <1>0, <1>1, <1>2, <1>3, <1>4, <1>5, <1>6, <1>7, HearStep

LEMMA HearsCompleted ==
    ASSUME HolderInv, NEW t \in Turns, HearCompleted(t)
    PROVE  HolderInv'
  <1> USE HolderParts
  <1>0. /\ Hears("completed", t) /\ Up
        /\ UNCHANGED <<app, turn, command, unanswered, status, phase, queue, asked, current, pending,
                       unresolved, broken, owns, stopping, stop, interrupts, closingApp, closed, confirmed,
                       stops>>
        /\ \/ /\ owns /\ active' = active \ {t} /\ busy' = BusyAfter(active')
              /\ turnStarted' = (turnStarted /\ t # current) /\ lastTurn' = t
              /\ flight' = IF flight # NoTurn THEN [flight EXCEPT !.heard = @ \cup {t}] ELSE NoTurn
           \/ ~owns /\ UNCHANGED <<active, busy, turnStarted, lastTurn, flight>>
    BY DEF HearCompleted, Hears, world, ending
  <1>1. /\ WireFits' /\ StatusFits' /\ wire' \in Seq(Message) /\ turn[t] = "over"
        /\ \A l, u : Said(l, u) => Said(l, u)' \/ (l = "completed" /\ u = t)
    BY <1>0, HeardHead DEF Kinds
  <1>2. /\ SameFlight /\ flight' \in Flight \cup {NoTurn}
        /\ flight = NoTurn => flight' = NoTurn
        /\ flight # NoTurn => flight'.heard \subseteq flight.heard \cup {t} /\ flight.heard \subseteq flight'.heard
        /\ flight # NoTurn /\ owns => t \in flight'.heard
    <2>1. CASE ~owns
      BY <1>0, <2>1 DEF HolderTypeOK, SameFlight, FirstFits
    <2>2. CASE owns /\ flight = NoTurn
      BY <1>0, <2>2 DEF SameFlight
    <2>3. CASE owns /\ flight # NoTurn
      BY <1>0, <2>3, FlightChanges DEF SameFlight, FirstFits
    <2> QED
      BY <2>1, <2>2, <2>3
  <1>3. /\ active' \subseteq Turns /\ active' \subseteq active
        /\ owns => active' = active \ {t}
    BY <1>0, HolderTypes
  <1>4. /\ {busy', turnStarted'} \subseteq BOOLEAN
        /\ lastTurn' \in Turns \cup {NoTurn}
        /\ owns => (busy' <=> active' # {}) /\ (turnStarted' => turnStarted /\ t # current)
    <2>1. CASE ~owns
      BY <1>0, <2>1 DEF HolderTypeOK
    <2>2. CASE owns
      <3>1. busy' = (active' # {}) /\ turnStarted' = (turnStarted /\ t # current) /\ lastTurn' = t
        BY <1>0, <2>2 DEF BusyAfter
      <3> QED
        BY <2>2, <3>1
    <2> QED
      BY <2>1, <2>2
  <1>5. HolderTypeOK'
    BY <1>0, <1>1, <1>2, <1>3, <1>4 DEF HolderTypeOK
  <1>6. Up'
    BY <1>0 DEF Up
  <1>7. HeardFits'
    <2>1. flight' # NoTurn => \A u \in flight'.heard : turn[u] = "over"
      BY <1>1, <1>2 DEF HeardFits
    <2>2. lastTurn' # NoTurn => turn[lastTurn'] = "over"
      BY <1>0, <1>1 DEF HeardFits
    <2> QED
      BY <1>0, <2>1, <2>2 DEF HeardFits
  <1>8. ActiveFits'
    <2> SUFFICES ASSUME app = "up", owns
                 PROVE  /\ \A u \in active' : u \in Turns /\ (Open(u) \/ Said("completed", u)')
                        /\ \A u \in Turns : turn[u] = "running" => u \in active' \/ Said("started", u)'
                        /\ \A u \in active : u \in active' \/ turn[u] = "over"
                        /\ flight # NoTurn /\ flight.turn # NoTurn =>
                              \/ Open(flight.turn)
                              \/ Said("completed", flight.turn)'
                              \/ flight.turn \in flight'.heard
      BY <1>0, <1>2, ActiveHeard
    <2>1. \A u \in active' : u \in Turns /\ (Open(u) \/ Said("completed", u)')
      BY <1>1, <1>3 DEF ActiveFits
    <2>2. \A u \in Turns : turn[u] = "running" => u \in active' \/ Said("started", u)'
      BY <1>1, <1>3 DEF ActiveFits
    <2>3. \A u \in active : u \in active' \/ turn[u] = "over"
      BY <1>1, <1>3
    <2>4. ASSUME flight # NoTurn, flight.turn # NoTurn
          PROVE  Open(flight.turn) \/ Said("completed", flight.turn)' \/ flight.turn \in flight'.heard
      <3>1. Open(flight.turn) \/ Said("completed", flight.turn) \/ flight.turn \in flight.heard
        BY <2>4 DEF ActiveFits
      <3>2. PICK u : u = flight.turn
        OBVIOUS
      <3>3. Said("completed", u) => Said("completed", u)' \/ u = t
        BY <1>1
      <3>4. u = flight'.turn
        BY <1>2, <2>4, <3>2 DEF SameFlight
      <3>5. u \in flight.heard \/ u = t => u \in flight'.heard
        BY <1>2, <2>4
      <3> QED
        BY <3>1, <3>2, <3>3, <3>4, <3>5 DEF Said
    <2> QED
      BY <2>1, <2>2, <2>3, <2>4
  <1>9. PendingFits'
    BY <1>0, <1>1 DEF PendingFits
  <1>10. BusyFits'
    <2>1. CASE ~owns
      BY <1>0, <2>1 DEF BusyFits
    <2>2. CASE owns
      <3>1. busy' <=> active' # {}
        BY <1>4, <2>2
      <3>2. phase' \in {"binding", "first"} /\ turnStarted' => current' \in active'
        BY <1>0, <1>3, <1>4, <2>2 DEF BusyFits
      <3> QED
        BY <3>1, <3>2 DEF BusyFits
    <2> QED
      BY <2>1, <2>2
  <1> QED
    BY <1>0, <1>1, <1>2, <1>5, <1>6, <1>7, <1>8, <1>9, <1>10, HearStep

\* A status, an answer, a command's begin or end, an interrupt's answer: the
\* account of the turns stays.
LEMMA HearsElse ==
    ASSUME HolderInv, HolderTypeOK', NEW t \in Turns,
           NEW k \in Kinds, k \notin {"started", "completed"}, Hears(k, t), SameFlight,
           UNCHANGED <<app, turn, command, status, phase, queue, asked, active, turnStarted, current,
                       lastTurn, unresolved, owns, stopping, stop, closingApp, confirmed>>,
           flight # NoTurn => flight'.heard = flight.heard,
           PendingFits',
           \/ busy' = busy
           \/ owns /\ busy' = TRUE /\ k = "active"
           \/ owns /\ busy' = (active # {})
    PROVE  HolderInv'
  <1> USE HolderParts
  <1>1. /\ WireFits' /\ StatusFits' /\ Up
        /\ \A l, u : Said(l, u) => Said(l, u)' \/ l = k
        /\ k = "active" /\ app = "up" => AboutToStart'
        /\ AboutToStart => AboutToStart'
    BY HeardHead DEF Hears
  <1>2. Up' /\ HeardFits'
    BY <1>1 DEF Up, HeardFits, SameFlight
  <1>3. ActiveFits'
    <2> SUFFICES ASSUME app = "up", owns
                 PROVE  /\ \A u \in active' : u \in Turns /\ (Open(u) \/ Said("completed", u)')
                        /\ \A u \in Turns : turn[u] = "running" => u \in active' \/ Said("started", u)'
                        /\ \A u \in active : u \in active' \/ turn[u] = "over"
                        /\ flight # NoTurn /\ flight.turn # NoTurn =>
                              \/ Open(flight.turn)
                              \/ Said("completed", flight.turn)'
                              \/ flight.turn \in flight'.heard
      BY ActiveHeard
    <2>1. \A u \in active' : u \in Turns /\ (Open(u) \/ Said("completed", u)')
      BY <1>1, HolderTypes DEF ActiveFits
    <2>2. \A u \in Turns : turn[u] = "running" => u \in active' \/ Said("started", u)'
      BY <1>1 DEF ActiveFits
    <2>4. ASSUME flight # NoTurn, flight.turn # NoTurn
          PROVE  Open(flight.turn) \/ Said("completed", flight.turn)' \/ flight.turn \in flight'.heard
      <3>1. Open(flight.turn) \/ Said("completed", flight.turn) \/ flight.turn \in flight.heard
        BY <2>4 DEF ActiveFits
      <3>2. PICK u : u = flight.turn
        OBVIOUS
      <3>3. Said("completed", u) => Said("completed", u)'
        BY <1>1
      <3>4. u = flight'.turn
        BY <2>4, <3>2 DEF SameFlight
      <3> QED
        BY <2>4, <3>1, <3>2, <3>3, <3>4 DEF Said
    <2> QED
      BY <2>1, <2>2, <2>4
  <1>4. BusyFits'
    <2>1. (active # {} => busy) /\ (phase \in {"binding", "first"} /\ turnStarted => current \in active)
      BY DEF BusyFits
    <2>2. active # {} => busy'
      BY <2>1
    <2>3. app = "up" /\ owns /\ busy' /\ phase # "waitStarted" => active # {} \/ AboutToStart'
      BY <1>1 DEF BusyFits
    <2> QED
      BY <2>1, <2>2, <2>3 DEF BusyFits
  <1> QED
    BY <1>1, <1>2, <1>3, <1>4, HearStep

LEMMA HearsRest ==
    ASSUME HolderInv, NEW t \in Turns, HearStatus(t) \/ HearAnswer(t) \/ HearCommand(t) \/ HearInterrupted(t)
    PROVE  HolderInv'
  <1> USE HolderParts DEF Kinds
  <1>1. CASE HearAnswer(t)
    <2>0. /\ Hears("answer", t)
          /\ flight' = IF flight # NoTurn /\ flight.turn = t THEN [flight EXCEPT !.answered = TRUE] ELSE flight
          /\ UNCHANGED <<app, turn, command, unanswered, status, phase, queue, asked, active, busy,
                         turnStarted, current,
                         lastTurn, pending, unresolved, broken, owns, stopping, stop, interrupts, closingApp,
                         closed, confirmed, stops>>
      BY <1>1 DEF HearAnswer, world, account, ending
    <2>1. wire' \in Seq(Message) /\ \A l, u : Said(l, u) => Said(l, u)' \/ l = "answer"
      BY <2>0, HeardHead
    <2>2. /\ SameFlight /\ flight' \in Flight \cup {NoTurn}
          /\ flight # NoTurn => flight'.heard = flight.heard
      <3>1. CASE flight # NoTurn /\ flight.turn = t
        BY <2>0, <3>1, FlightChanges, TurnsAreSome DEF SameFlight, FirstFits
      <3>2. CASE ~(flight # NoTurn /\ flight.turn = t)
        BY <2>0, <3>2 DEF SameFlight, HolderTypeOK, FirstFits
      <3> QED
        BY <3>1, <3>2
    <2>3. HolderTypeOK'
      BY <2>0, <2>1, <2>2 DEF HolderTypeOK
    <2>4. PendingFits'
      BY <2>0, <2>1 DEF PendingFits
    <2> QED
      BY <2>0, <2>2, <2>3, <2>4, HearsElse
  <1>2. CASE HearCommand(t)
    <2>0. PICK k \in {"begun", "ended"} :
              /\ Hears(k, t)
              /\ pending' = IF ~owns THEN pending
                            ELSE IF k = "begun" THEN pending \cup {t} ELSE pending \ {t}
      BY <1>2 DEF HearCommand
    <2>1. UNCHANGED <<app, turn, command, unanswered, status, phase, queue, flight, asked, active, busy,
                      turnStarted,
                      current, lastTurn, unresolved, broken, owns, stopping, stop, interrupts, closingApp,
                      closed, confirmed, stops>>
      BY <1>2 DEF HearCommand, world, ending
    <2>2. /\ wire' \in Seq(Message)
          /\ \A l, u : Said(l, u) => Said(l, u)' \/ (l = k /\ u = t)
          /\ k = "ended" => command[t] = "over"
          /\ k = "begun" /\ app = "up" => command[t] = "running" \/ Said("ended", t)'
      BY <2>0, <2>1, HeardHead
    <2>3. HolderTypeOK'
      BY <2>0, <2>1, <2>2 DEF HolderTypeOK
    <2>4. PendingFits'
      <3> SUFFICES ASSUME app = "up", owns
                   PROVE  /\ \A u \in pending' : command[u] = "running" \/ Said("ended", u)'
                          /\ \A u \in Turns : command[u] = "running" => u \in pending' \/ Said("begun", u)'
        BY <2>1 DEF PendingFits
      <3>1. CASE k = "begun"
        BY <2>0, <2>2, <3>1 DEF PendingFits
      <3>2. CASE k = "ended"
        BY <2>0, <2>2, <3>2 DEF PendingFits
      <3> QED
        BY <3>1, <3>2
    <2>5. SameFlight
      BY <2>1 DEF SameFlight, FirstFits
    <2> QED
      BY <2>0, <2>1, <2>3, <2>4, <2>5, HearsElse
  <1>3. CASE HearInterrupted(t)
    <2>0. /\ Hears("interrupted", t)
          /\ UNCHANGED <<app, turn, command, unanswered, status, phase, queue, flight, asked, active, busy,
                         turnStarted,
                         current, lastTurn, pending, unresolved, broken, owns, stopping, stop, closingApp,
                         closed, confirmed, stops>>
      BY <1>3 DEF HearInterrupted, world, account
    <2>1. wire' \in Seq(Message) /\ \A l, u : Said(l, u) => Said(l, u)' \/ l = "interrupted"
      BY <2>0, HeardHead
    <2>2. interrupts' \in [Turns -> {"none", "pending", "done", "failed"}]
      BY <1>3, HolderTypes DEF HearInterrupted
    <2>3. HolderTypeOK'
      BY <2>0, <2>1, <2>2 DEF HolderTypeOK
    <2>4. PendingFits' /\ SameFlight
      BY <2>0, <2>1 DEF PendingFits, SameFlight, FirstFits
    <2> QED
      BY <2>0, <2>3, <2>4, HearsElse
  <1>4. CASE HearStatus(t)
    <2>0. /\ \/ Hears("active", t) /\ busy' = (busy \/ owns)
             \/ Hears("idle", t) /\ busy' = IF owns THEN active # {} ELSE busy
          /\ UNCHANGED <<app, turn, command, unanswered, status, phase, queue, flight, asked, active,
                         turnStarted, current, lastTurn, pending, unresolved, broken, owns, stopping, stop,
                         interrupts, closingApp, closed, confirmed, stops>>
      BY <1>4 DEF HearStatus, BusyAfter, world, ending
    <2>1. PICK k \in {"active", "idle"} :
              /\ Hears(k, t)
              /\ \/ busy' = busy
                 \/ owns /\ busy' = TRUE /\ k = "active"
                 \/ owns /\ busy' = (active # {})
      BY <2>0 DEF HolderTypeOK
    <2>2. wire' \in Seq(Message) /\ \A l, u : Said(l, u) => Said(l, u)' \/ l = k
      BY <2>0, <2>1, HeardHead
    <2>3. HolderTypeOK'
      BY <2>0, <2>1, <2>2 DEF HolderTypeOK
    <2>4. PendingFits' /\ SameFlight
      BY <2>0, <2>1, <2>2 DEF PendingFits, SameFlight, FirstFits
    <2> QED
      BY <2>0, <2>1, <2>3, <2>4, HearsElse
  <1> QED
    BY <1>1, <1>2, <1>3, <1>4

LEMMA DispatchStep ==
    ASSUME HolderInv, Dispatch
    PROVE  HolderInv'
  <1> USE HolderParts
  <1>1. CASE HearClose
    <2>1. CASE Gone("gone")
      BY <2>1, GoneStep
    <2>2. CASE ~Gone("gone")
      <3>1. /\ UNCHANGED <<app, turn, command, unanswered, status, wire, phase, queue, flight, asked,
                           active, busy,
                           turnStarted, current, lastTurn, pending, unresolved, owns, stopping, stop,
                           interrupts, closingApp, confirmed, stops>>
            /\ closed' = TRUE /\ broken' = (broken \/ ~closingApp)
        BY <1>1, <2>2 DEF HearClose, world, account
      <3>2. HolderTypeOK'
        BY <3>1 DEF HolderTypeOK
      <3>3. StopFits'
        BY <3>1 DEF StopFits, Rested, NothingCut
      <3> QED
        BY <3>1, <3>2, <3>3, AsideStep
    <2> QED
      BY <2>1, <2>2
  <1> QED
    BY <1>1, HearsStarted, HearsCompleted, HearsRest DEF Dispatch

----------------------------------------------------------------------------
(* Requests for turns.                                                      *)

\* A stop has not come past its wait for requests.
Ongoing == ~closingApp /\ stop \notin {"commands", "interrupts", "drain", "close"}

LEMMA IsOngoing ==
    ASSUME HolderInv, ~Rested \/ ~stopping
    PROVE  Ongoing
  BY HolderParts DEF StopFits, Ongoing

LEMMA SumTypes ==
    ASSUME HolderTypeOK
    PROVE  /\ asked \in Nat /\ Len(queue) \in Nat /\ MaxTurns \in Nat
           /\ Waiting \in {0, 1} /\ Binding \in {0, 1}
  <1>1. asked \in 0..MaxTurns /\ queue \in Seq(BOOLEAN)
    BY DEF HolderTypeOK
  <1>2. MaxTurns \in Nat
    BY SessionHolderAssumption
  <1> QED
    BY <1>1, <1>2 DEF Waiting, Binding

LEMMA RequestStep ==
    ASSUME HolderInv, HolderTypeOK', Ongoing, Up', TruthFits', WireFits', NumbersFit', HeardFits',
           ActiveFits', FirstFits', BusyFits',
           app' = "exited" => UNCHANGED turn,
           Announced => Announced',
           UNCHANGED <<app, command, pending, owns, stopping, stop, closingApp, confirmed>>,
           wire' = wire
    PROVE  HolderInv'
  <1> USE HolderParts
  <1>1. PendingFits'
    BY DEF PendingFits, Said
  <1>2. StopFits'
    BY DEF StopFits, NothingCut, Ongoing
  <1>3. StatusFits'
    BY DEF StatusFits, Follows
  <1> QED
    BY <1>1, <1>2, <1>3 DEF HolderInv

\* Steps of a request that leave the account and the stream alone.
LEMMA BusyStays ==
    ASSUME BusyFits, UNCHANGED <<app, turn, status, wire, owns, active, busy, turnStarted, current>>,
           phase' = phase \/ (phase = "binding" /\ phase' = "first")
    PROVE  BusyFits' /\ (Announced => Announced')
  <1>1. (Announced' <=> Announced) /\ (AboutToStart' <=> AboutToStart)
    BY DEF AboutToStart, Announced, Said
  <1> QED
    BY <1>1 DEF BusyFits

LEMMA QueueGrows ==
    ASSUME queue \in Seq(BOOLEAN), NEW b \in BOOLEAN, queue' = Append(queue, b)
    PROVE  /\ queue' \in Seq(BOOLEAN) /\ Len(queue') = Len(queue) + 1 /\ queue'[Len(queue) + 1] = b
           /\ \A i \in 1..Len(queue') : \/ i = Len(queue) + 1
                                        \/ i \in 1..Len(queue) /\ queue'[i] = queue[i]
  <1>1. /\ queue' \in Seq(BOOLEAN) /\ Len(queue') = Len(queue) + 1 /\ Len(queue) \in Nat
        /\ \A i \in 1..Len(queue) : queue'[i] = queue[i]
        /\ queue'[Len(queue) + 1] = b
    OBVIOUS
  <1>2. \A i \in 1..Len(queue') : i = Len(queue) + 1 \/ i \in 1..Len(queue)
    BY <1>1
  <1> QED
    BY <1>1, <1>2

LEMMA BoundStep ==
    ASSUME HolderInv, Bound
    PROVE  HolderInv'
  <1> USE HolderParts
  <1>1. CASE stopping
    BY <1>1, GoneStep DEF Bound
  <1>2. CASE ~stopping
    <2>0. /\ UNCHANGED <<app, turn, command, unanswered, status, wire, flight, asked, active, busy,
                         turnStarted, current,
                         lastTurn, pending, unresolved, broken, owns, stopping, stop, interrupts, closingApp,
                         closed, confirmed, stops>>
          /\ phase = "binding" /\ phase' = "first" /\ queue' = Append(queue, TRUE)
      BY <1>2 DEF Bound, world, account, ending
    <2>1. /\ queue' \in Seq(BOOLEAN) /\ Len(queue') = Len(queue) + 1
          /\ \A i \in 1..Len(queue') : i = Len(queue) + 1 \/ (i \in 1..Len(queue) /\ queue'[i] = queue[i])
      BY <2>0, HolderTypes, QueueGrows
    <2>2. HolderTypeOK'
      BY <2>0, <2>1 DEF HolderTypeOK
    <2>3. NumbersFit'
      <3>1. asked' = asked /\ Waiting' = Waiting /\ Binding' = 0 /\ Binding = 1
        BY <2>0 DEF Waiting, Binding
      <3>2. asked + Len(queue) + Waiting + Binding <= MaxTurns
        BY DEF NumbersFit
      <3>3. asked + (Len(queue) + 1) + Waiting + 0 <= MaxTurns
        BY <3>1, <3>2, SumTypes
      <3>4. asked' + Len(queue') + Waiting' + Binding' <= MaxTurns
        BY <2>1, <3>1, <3>3
      <3> QED
        BY <2>0, <3>4 DEF NumbersFit
    <2>4. FirstFits'
      <3>1. /\ \A i \in 1..Len(queue) : ~queue[i]
            /\ flight # NoTurn => ~flight.first
        BY <2>0 DEF FirstFits
      <3>2. \A i \in 1..Len(queue') : queue'[i] => i = Len(queue) + 1
        BY <2>1, <3>1
      <3> QED
        BY <2>0, <3>1, <3>2 DEF FirstFits
    <2>5. BusyFits' /\ (Announced => Announced') /\ HeardFits' /\ WireFits' /\ Up'
      BY <2>0, BusyStays DEF HeardFits, WireFits, Follows, Up
    <2>6. TruthFits'
      BY <2>0, <2>5 DEF TruthFits
    <2>7. ActiveFits'
      BY <2>0 DEF ActiveFits, Open, Said
    <2>8. Ongoing
      BY <1>2, IsOngoing
    <2> QED
      BY <2>0, <2>2, <2>3, <2>4, <2>5, <2>6, <2>7, <2>8, RequestStep
  <1> QED
    BY <1>1, <1>2

LEMMA WakeStep ==
    ASSUME HolderInv, Wake
    PROVE  HolderInv'
  <1> USE HolderParts
  <1>0. /\ UNCHANGED <<app, turn, command, unanswered, status, wire, phase, flight, asked, active, busy,
                       turnStarted,
                       current, lastTurn, pending, unresolved, broken, owns, stopping, stop, interrupts,
                       closingApp, closed, confirmed, stops>>
        /\ Up /\ ~stopping /\ queue' = Append(queue, FALSE)
    BY DEF Wake, world, account, ending
  <1>1. /\ queue' \in Seq(BOOLEAN) /\ Len(queue') = Len(queue) + 1
        /\ \A i \in 1..Len(queue') : \/ i = Len(queue) + 1 /\ queue'[i] = FALSE
                                     \/ i \in 1..Len(queue) /\ queue'[i] = queue[i]
    BY <1>0, HolderTypes, QueueGrows
  <1>2. HolderTypeOK'
    BY <1>0, <1>1 DEF HolderTypeOK
  <1>3. NumbersFit'
    <2>1. asked' = asked /\ Waiting' = Waiting /\ Binding' = Binding
      BY <1>0 DEF Waiting, Binding
    <2>2. asked + Len(queue) + (IF flight = NoTurn THEN 0 ELSE 1) + Binding < MaxTurns
      BY DEF Wake, Binding
    <2>3. Waiting <= (IF flight = NoTurn THEN 0 ELSE 1)
      BY DEF Waiting
    <2>4. asked + (Len(queue) + 1) + Waiting + Binding <= MaxTurns
      BY <2>2, <2>3, SumTypes
    <2>5. asked' + Len(queue') + Waiting' + Binding' <= MaxTurns
      BY <1>1, <2>1, <2>4
    <2> QED
      BY <1>0, <2>5 DEF NumbersFit
  <1>4. FirstFits'
    <2>1. \A i \in 1..Len(queue') : queue'[i] => i \in 1..Len(queue) /\ queue[i]
      BY <1>1
    <2> QED
      BY <1>0, <2>1 DEF FirstFits
  <1>5. BusyFits' /\ (Announced => Announced') /\ HeardFits' /\ WireFits' /\ Up'
    BY <1>0, BusyStays DEF HeardFits, WireFits, Follows, Up
  <1>6. TruthFits' /\ Ongoing
    BY <1>0, <1>5, IsOngoing DEF TruthFits
  <1>7. ActiveFits'
    BY <1>0 DEF ActiveFits, Open, Said
  <1> QED
    BY <1>0, <1>2, <1>3, <1>4, <1>5, <1>6, <1>7, RequestStep

LEMMA TakeStep ==
    ASSUME HolderInv, TakeRequest
    PROVE  HolderInv'
  <1> USE HolderParts
  <1>1. CASE Gone("gone")
    BY <1>1, GoneStep
  <1>2. CASE ~Gone("gone")
    <2> DEFINE taken == [turn |-> NoTurn, first |-> Head(queue), heard |-> {}, answered |-> FALSE]
    <2>0. /\ UNCHANGED <<app, turn, command, unanswered, status, wire, phase, asked, active, busy,
                         turnStarted, current,
                         lastTurn, pending, unresolved, broken, owns, stopping, stop, interrupts, closingApp,
                         closed, confirmed, stops>>
          /\ Up /\ flight = NoTurn /\ queue # << >> /\ queue' = Tail(queue)
          /\ flight' \in {taken, NoTurn}
      BY <1>2 DEF TakeRequest, world, account, ending
    <2>1. /\ queue' \in Seq(BOOLEAN) /\ Len(queue') + 1 = Len(queue) /\ Head(queue) \in BOOLEAN
          /\ Head(queue) = queue[1] /\ 1 \in 1..Len(queue)
          /\ \A i \in 1..Len(queue') : i + 1 \in 1..Len(queue) /\ queue'[i] = queue[i + 1] /\ i + 1 # 1
      BY <2>0, HolderTypes
    <2>2. taken \in Flight
      BY <2>1 DEF Flight
    <2>3. HolderTypeOK'
      BY <2>0, <2>1, <2>2 DEF HolderTypeOK
    <2>4. /\ flight' # NoTurn => /\ flight'.turn = NoTurn /\ flight'.heard = {}
                                 /\ flight'.first = queue[1] /\ ~flight'.answered
      BY <2>0, <2>1
    <2> HIDE DEF taken
    <2>5. NumbersFit'
      <3>1. asked' = asked /\ Waiting = 0 /\ Binding' = Binding /\ Waiting' \in {0, 1}
        BY <2>0 DEF Waiting, Binding
      <3>2. asked + Len(queue) + Waiting + Binding <= MaxTurns
        BY DEF NumbersFit
      <3>3. PICK q \in Nat : q = Len(queue')
        BY <2>1
      <3>4. asked + q + 1 + Binding <= MaxTurns /\ asked + q + 0 + Binding <= MaxTurns
        BY <2>1, <3>1, <3>2, <3>3, SumTypes
      <3>5. asked' + Len(queue') + Waiting' + Binding' <= MaxTurns
        <4>1. CASE Waiting' = 0
          BY <3>1, <3>3, <3>4, <4>1
        <4>2. CASE Waiting' = 1
          BY <3>1, <3>3, <3>4, <4>2
        <4> QED
          BY <3>1, <4>1, <4>2
      <3> QED
        BY <2>0, <3>5 DEF NumbersFit
    <2>6. FirstFits'
      <3>1. \A i \in 1..Len(queue') : queue'[i] => phase = "first" /\ ~queue[1]
        BY <2>1 DEF FirstFits
      <3>2. \A i, j \in 1..Len(queue') : queue'[i] /\ queue'[j] => i = j
        <4> SUFFICES ASSUME NEW i \in 1..Len(queue'), NEW j \in 1..Len(queue'), queue'[i], queue'[j]
                     PROVE  i = j
          OBVIOUS
        <4>1. i + 1 = j + 1
          BY <2>1 DEF FirstFits
        <4> QED
          BY <4>1
      <3>3. flight' # NoTurn /\ flight'.first => phase = "first"
        BY <2>1, <2>4 DEF FirstFits
      <3> QED
        BY <2>0, <2>4, <3>1, <3>2, <3>3 DEF FirstFits
    <2>7. BusyFits' /\ (Announced => Announced') /\ WireFits' /\ Up'
      BY <2>0, BusyStays DEF WireFits, Follows, Up
    <2>8. HeardFits'
      BY <2>0, <2>4 DEF HeardFits
    <2>9. TruthFits'
      BY <2>0, <2>7 DEF TruthFits
    <2>10. ActiveFits'
      BY <2>0, <2>4 DEF ActiveFits, Open, Said
    <2>11. Ongoing
      BY <2>0, IsOngoing DEF Rested
    <2> QED
      BY <2>0, <2>3, <2>5, <2>6, <2>7, <2>8, <2>9, <2>10, <2>11, RequestStep
  <1> QED
    BY <1>1, <1>2

\* A request that is not written leaves no trace; one that is written is the
\* next turn's, whether or not the child is there to read it.
LEMMA SendStep ==
    ASSUME HolderInv, SendRequest
    PROVE  HolderInv'
  <1> USE HolderParts
  <1>1. CASE Gone("gone")
    BY <1>1, GoneStep
  <1>2. CASE ~Gone("gone")
    <2>0. /\ UNCHANGED <<app, command, status, wire, phase, queue, active, busy, turnStarted, current,
                         lastTurn, pending, unresolved, broken, owns, stopping, stop, interrupts, closingApp,
                         closed, confirmed, stops>>
          /\ Up /\ flight # NoTurn /\ flight.turn = NoTurn
          /\ asked' = IF MayAsk THEN asked + 1 ELSE asked
          /\ flight' = IF MayAsk THEN [flight EXCEPT !.turn = asked'] ELSE NoTurn
          /\ IF MayAsk /\ app = "up"
             THEN /\ turn' = [turn EXCEPT ![asked'] = "asked"]
                  /\ unanswered' = unanswered \cup {asked'}
             ELSE UNCHANGED <<turn, unanswered>>
      BY <1>2 DEF SendRequest, world, account, ending
    <2>1. Ongoing /\ Up'
      BY <2>0, IsOngoing DEF Rested, Up
    <2>2. Waiting = 1 /\ Binding' = Binding /\ asked + Len(queue) + 1 + Binding <= MaxTurns
      BY <2>0 DEF Waiting, Binding, NumbersFit
    <2>3. CASE ~MayAsk
      <3>0. flight' = NoTurn /\ UNCHANGED <<asked, turn, unanswered>>
        BY <2>0, <2>3
      <3>1. HolderTypeOK'
        BY <2>0, <3>0 DEF HolderTypeOK
      <3>2. NumbersFit'
        <4>1. asked + Len(queue) + 0 + Binding <= MaxTurns
          BY <2>2, SumTypes
        <4>2. Waiting' = 0
          BY <3>0 DEF Waiting
        <4>3. asked' + Len(queue') + Waiting' + Binding' <= MaxTurns
          BY <2>0, <2>2, <3>0, <4>1, <4>2
        <4> QED
          BY <3>0, <4>3 DEF NumbersFit
      <3>3. FirstFits' /\ BusyFits' /\ (Announced => Announced') /\ HeardFits' /\ WireFits'
        BY <2>0, <3>0, BusyStays DEF FirstFits, HeardFits, WireFits, Follows
      <3>4. TruthFits'
        BY <2>0, <2>1, <3>0 DEF TruthFits
      <3>5. ActiveFits'
        BY <2>0, <3>0, TurnsAreSome DEF ActiveFits, Open, Said
      <3> QED
        BY <2>0, <2>1, <3>0, <3>1, <3>2, <3>3, <3>4, <3>5, RequestStep
    <2>4. CASE MayAsk
      <3>0. PICK t \in Turns : t = asked + 1 /\ asked' = t
        <4>1. asked + 1 \in Turns
          BY <2>2, SumTypes DEF Turns
        <4>2. asked' = asked + 1
          BY <2>0, <2>4
        <4> QED
          BY <4>1, <4>2
      <3>1. asked < t /\ t \in Nat /\ t \in 0..MaxTurns
        BY <3>0, SumTypes DEF Turns
      <3>2. turn[t] = "none" /\ command[t] # "running"
        BY <3>1 DEF NumbersFit, TruthFits
      <3>3. /\ flight' \in Flight /\ flight' # NoTurn /\ flight'.turn = t
            /\ flight'.first = flight.first /\ flight'.heard = flight.heard
        BY <2>0, <2>4, <3>0, FlightChanges
      <3>4. /\ turn' \in [Turns -> {"none", "asked", "running", "over", "cut"}]
            /\ unanswered' \subseteq Turns
            /\ \A u \in Turns : u # t => turn'[u] = turn[u]
            /\ app = "up" => turn'[t] = "asked"
            /\ app # "up" => turn' = turn
        BY <2>0, <2>4, <3>0, HolderTypes
      <3>5. \A u \in Turns : turn[u] # "none" => turn'[u] = turn[u]
        BY <3>2, <3>4
      <3>6. HolderTypeOK'
        BY <2>0, <3>0, <3>1, <3>3, <3>4 DEF HolderTypeOK
      <3>7. NumbersFit'
        <4>1. \A u \in Turns : asked' < u => turn'[u] = "none"
          <5> SUFFICES ASSUME NEW u \in Turns, t < u
                       PROVE  turn'[u] = "none"
            BY <3>0
          <5>1. asked < u /\ u # t
            BY <3>0, SumTypes, TurnsAreSome
          <5> QED
            BY <3>4, <5>1 DEF NumbersFit
        <4>2. Waiting' = 0
          BY <3>3, TurnsAreSome DEF Waiting
        <4>3. (asked + 1) + Len(queue) + 0 + Binding <= MaxTurns
          BY <2>2, SumTypes
        <4>4. asked' + Len(queue') + Waiting' + Binding' <= MaxTurns
          BY <2>0, <2>2, <3>0, <4>2, <4>3
        <4> QED
          BY <4>1, <4>4 DEF NumbersFit
      <3>8. WireFits'
        <4>1. \A i \in 1..Len(wire) : wire[i].turn \in Turns
          <5>1. \A i \in 1..Len(wire) : wire[i] \in Message
            BY HolderTypes
          <5> QED
            BY <5>1 DEF Message
        <4> QED
          BY <2>0, <3>5, <4>1 DEF WireFits, Follows
      <3>9. HeardFits'
        <4>1. flight.heard \subseteq Turns
          BY <2>0, FlightTypes
        <4>2. lastTurn # NoTurn => lastTurn \in Turns
          BY DEF HolderTypeOK
        <4> QED
          BY <2>0, <3>3, <3>5, <4>1, <4>2 DEF HeardFits
      <3>10. TruthFits'
        <4>1. \A u \in Turns : command[u] = "running" => turn'[u] = "running"
          BY <3>5 DEF TruthFits
        <4>2. app = "up" => \A u \in Turns : turn'[u] # "cut"
          BY <3>4 DEF TruthFits
        <4> QED
          BY <2>0, <2>1, <4>1, <4>2 DEF TruthFits
      <3>11. ActiveFits'
        <4> SUFFICES ASSUME app = "up", owns
                     PROVE  /\ \A u \in active : Open(u)' \/ Said("completed", u)'
                            /\ \A u \in Turns : turn'[u] = "running" => u \in active \/ Said("started", u)'
                            /\ ~unresolved => \A u \in Turns : Open(u)' => u \in active \/ u = t
                            /\ Open(flight.turn)'
          BY <2>0, <3>3 DEF ActiveFits
        <4>1. \A k, u : Said(k, u)' <=> Said(k, u)
          BY <2>0 DEF Said
        <4>2. \A u \in Turns : (Open(u)' <=> Open(u) \/ u = t) /\ (turn'[u] = "running" => turn[u] = "running")
          BY <3>4 DEF Open
        <4>3. Open(flight.turn)'
          BY <3>3, <3>4 DEF Open
        <4>4. \A u \in active : Open(u)' \/ Said("completed", u)'
          BY <4>1, <4>2, HolderTypes DEF ActiveFits
        <4>5. \A u \in Turns : turn'[u] = "running" => u \in active \/ Said("started", u)'
          BY <4>1, <4>2 DEF ActiveFits
        <4>6. ~unresolved => \A u \in Turns : Open(u)' => u \in active \/ u = t
          BY <2>0, <4>2, TurnsAreSome DEF ActiveFits
        <4> QED
          BY <4>3, <4>4, <4>5, <4>6
      <3>12. FirstFits'
        BY <2>0, <3>3, TurnsAreSome DEF FirstFits
      <3>13. BusyFits' /\ (Announced => Announced')
        <4>1. Announced => Announced'
          <5>1. Announced => status \in Turns
            BY DEF Announced, HolderTypeOK
          <5> QED
            BY <2>0, <3>5, <5>1 DEF Announced
        <4>2. AboutToStart => AboutToStart'
          BY <2>0, <4>1 DEF AboutToStart, Said
        <4> QED
          BY <2>0, <4>1, <4>2 DEF BusyFits
      <3>14. app' = "exited" => UNCHANGED turn
        BY <2>0, <3>4
      <3> QED
        BY <2>0, <2>1, <3>6, <3>7, <3>8, <3>9, <3>10, <3>11, <3>12, <3>13, <3>14, RequestStep
    <2> QED
      BY <2>3, <2>4
  <1> QED
    BY <1>1, <1>2

\* What the answer resolves: a turn not heard completed is counted, one that
\* was is over.
LEMMA SettlesStep ==
    ASSUME HolderInv, RequestSettles
    PROVE  HolderInv'
  <1> USE HolderParts
  <1>0. /\ UNCHANGED <<app, turn, command, unanswered, status, wire, queue, asked, turnStarted, lastTurn,
                       pending,
                       unresolved, broken, owns, stopping, stop, interrupts, closingApp, closed, confirmed,
                       stops>>
        /\ Up /\ flight # NoTurn /\ flight.answered /\ flight' = NoTurn
        /\ active' = IF CountsAnswered THEN active \cup {flight.turn} ELSE active
        /\ busy' = (busy \/ CountsAnswered \/ flight.first)
        /\ current' = IF flight.first THEN flight.turn ELSE current
        /\ phase' = IF ~flight.first THEN phase ELSE IF FirstStarted THEN "alive" ELSE "waitStarted"
    BY DEF RequestSettles, world, ending
  <1>1. PICK t \in Turns : t = flight.turn
    BY <1>0, FlightTypes DEF FirstFits
  <1>2. /\ CountsAnswered \/ turn[t] = "over"
        /\ flight.first \in BOOLEAN /\ CountsAnswered \in BOOLEAN
    BY <1>0, <1>1, TurnsAreSome, FlightTypes DEF CountsAnswered, HeardFits
  <1>3. CountsAnswered => t \notin flight.heard
    BY <1>1 DEF CountsAnswered
  <1>4. /\ CountsAnswered => active' = active \cup {t}
        /\ ~CountsAnswered => active' = active
        /\ active \subseteq active' /\ active' \subseteq Turns
    BY <1>0, <1>1, HolderTypes
  <1>5. /\ busy' \in BOOLEAN
        /\ busy' => busy \/ CountsAnswered \/ flight.first
        /\ busy \/ CountsAnswered => busy'
    <2>1. busy \in BOOLEAN
      BY DEF HolderTypeOK
    <2>2. busy' = (busy \/ CountsAnswered \/ flight.first)
      BY <1>0
    <2> QED
      BY ONLY <1>2, <2>1, <2>2
  <1>6. /\ ~flight.first => phase' = phase /\ current' = current
        /\ flight.first => phase = "first" /\ current' = t
        /\ flight.first /\ turnStarted => phase' = "alive"
        /\ flight.first /\ ~turnStarted => phase' = "waitStarted"
    BY <1>0, <1>1 DEF FirstFits, FirstStarted
  <1>7. HolderTypeOK'
    <2>1. phase' \in {"binding", "first", "waitStarted", "alive", "gone", "notStarted"}
      BY <1>6 DEF HolderTypeOK
    <2>2. current' \in Turns \cup {NoTurn}
      BY <1>6 DEF HolderTypeOK
    <2> QED
      BY <1>0, <1>4, <1>5, <2>1, <2>2 DEF HolderTypeOK
  <1>8. Up'
    BY <1>0, <1>6 DEF Up
  <1>9. NumbersFit'
    <2>1. Waiting' = 0 /\ Binding' = Binding /\ asked' = asked /\ queue' = queue
      BY <1>0, <1>6 DEF Waiting, Binding
    <2>2. asked + Len(queue) + Waiting + Binding <= MaxTurns
      BY DEF NumbersFit
    <2>3. asked + Len(queue) + 0 + Binding <= MaxTurns
      BY <2>2, SumTypes
    <2>4. asked' + Len(queue') + Waiting' + Binding' <= MaxTurns
      BY <2>1, <2>3
    <2> QED
      BY <1>0, <2>4 DEF NumbersFit
  <1>10. HeardFits' /\ WireFits' /\ TruthFits'
    BY <1>0, <1>8 DEF HeardFits, WireFits, Follows, TruthFits
  <1>11. FirstFits'
    BY <1>0, <1>6 DEF FirstFits
  <1>12. ActiveFits'
    <2> SUFFICES ASSUME app = "up", owns
                 PROVE  /\ \A u \in active' : Open(u)' \/ Said("completed", u)'
                        /\ \A u \in Turns : turn[u] = "running" => u \in active' \/ Said("started", u)'
                        /\ ~unresolved => \A u \in Turns : Open(u)' => u \in active'
      BY <1>0 DEF ActiveFits
    <2>1. \A u : (Open(u)' <=> Open(u)) /\ \A k : (Said(k, u)' <=> Said(k, u))
      BY <1>0 DEF Open, Said
    <2>2. Open(t) \/ Said("completed", t) \/ t \in flight.heard
      <3>1. flight # NoTurn /\ flight.turn # NoTurn
        BY <1>0, <1>1, TurnsAreSome
      <3>2. Open(flight.turn) \/ Said("completed", flight.turn) \/ flight.turn \in flight.heard
        BY <3>1 DEF ActiveFits
      <3> QED
        BY <1>1, <3>2
    <2>3. \A u \in active' : Open(u)' \/ Said("completed", u)'
      BY <1>3, <1>4, <2>1, <2>2 DEF ActiveFits
    <2>4. \A u \in Turns : turn[u] = "running" => u \in active' \/ Said("started", u)'
      BY <1>4, <2>1 DEF ActiveFits
    <2>5. ASSUME ~unresolved, NEW u \in Turns, Open(u)
          PROVE  u \in active'
      <3>1. u \in active \/ u = t
        BY <1>1, <2>5 DEF ActiveFits
      <3>2. u = t => CountsAnswered
        BY <1>2, <2>5 DEF Open
      <3> QED
        BY <1>4, <3>1, <3>2
    <2> QED
      BY <2>1, <2>3, <2>4, <2>5
  <1>13. BusyFits' /\ (Announced => Announced')
    <2>1. /\ Announced' <=> Announced
          /\ AboutToStart' <=> AboutToStart
      BY <1>0 DEF AboutToStart, Announced, Said
    <2>2. active' # {} => busy'
      BY <1>4, <1>5 DEF BusyFits
    <2>3. ASSUME app = "up", owns, busy', phase' # "waitStarted"
          PROVE  active' # {} \/ AboutToStart
      <3>1. CASE CountsAnswered
        BY <1>4, <3>1
      <3>2. CASE flight.first
        <4>1. turnStarted /\ phase = "first"
          BY <1>6, <2>3, <3>2 DEF HolderTypeOK
        <4>2. current \in active
          BY <4>1 DEF BusyFits
        <4> QED
          BY <1>4, <4>2
      <3>3. CASE ~CountsAnswered /\ ~flight.first
        <4>1. busy /\ phase # "waitStarted"
          BY <1>5, <1>6, <2>3, <3>3
        <4>2. active # {} \/ AboutToStart
          BY <2>3, <4>1 DEF BusyFits
        <4> QED
          BY <1>4, <4>2
      <3> QED
        BY <3>1, <3>2, <3>3
    <2>4. ASSUME phase' \in {"binding", "first"}, turnStarted'
          PROVE  current' \in active'
      <3>1. ~flight.first
        BY <1>0, <1>6, <2>4 DEF HolderTypeOK
      <3>2. current \in active
        BY <1>0, <1>6, <2>4, <3>1 DEF BusyFits
      <3> QED
        BY <1>4, <1>6, <3>1, <3>2
    <2> QED
      BY <1>0, <2>1, <2>2, <2>3, <2>4 DEF BusyFits
  <1>14. Ongoing
    BY <1>0, IsOngoing DEF Rested
  <1> QED
    BY <1>0, <1>7, <1>8, <1>9, <1>10, <1>11, <1>12, <1>13, <1>14, RequestStep

LEMMA TimesOutStep ==
    ASSUME HolderInv, RequestTimesOut
    PROVE  HolderInv'
  <1> USE HolderParts
  <1>1. CASE Gone("gone")
    BY <1>1, GoneStep
  <1>2. CASE ~Gone("gone")
    <2>0. /\ UNCHANGED <<app, turn, command, unanswered, status, wire, phase, queue, asked, active, busy,
                         turnStarted,
                         current, lastTurn, pending, broken, owns, stopping, stop, interrupts, closingApp,
                         closed, confirmed, stops>>
          /\ Up /\ flight # NoTurn /\ flight' = NoTurn /\ unresolved' = TRUE
      BY <1>2 DEF RequestTimesOut, world, account, ending
    <2>1. HolderTypeOK'
      BY <2>0 DEF HolderTypeOK
    <2>2. Up' /\ Ongoing
      BY <2>0, IsOngoing DEF Up, Rested
    <2>3. NumbersFit'
      <3>1. Waiting' = 0 /\ Binding' = Binding /\ asked' = asked /\ queue' = queue
        BY <2>0 DEF Waiting, Binding
      <3>2. asked + Len(queue) + Waiting + Binding <= MaxTurns
        BY DEF NumbersFit
      <3>3. asked + Len(queue) + 0 + Binding <= MaxTurns
        BY <3>2, SumTypes
      <3>4. asked' + Len(queue') + Waiting' + Binding' <= MaxTurns
        BY <3>1, <3>3
      <3> QED
        BY <2>0, <3>4 DEF NumbersFit
    <2>4. HeardFits' /\ WireFits' /\ TruthFits' /\ FirstFits' /\ BusyFits' /\ (Announced => Announced')
      BY <2>0, <2>2, BusyStays DEF HeardFits, WireFits, Follows, TruthFits, FirstFits
    <2>5. ActiveFits'
      BY <2>0 DEF ActiveFits, Open, Said
    <2> QED
      BY <2>0, <2>1, <2>2, <2>3, <2>4, <2>5, RequestStep
  <1> QED
    BY <1>1, <1>2

LEMMA RequestsStep ==
    ASSUME HolderInv, Requests \/ RecordWatch
    PROVE  HolderInv'
  <1>1. CASE FirstTurnTimesOut \/ RecordWatch
    BY <1>1, GoneStep DEF FirstTurnTimesOut, RecordWatch
  <1> QED
    BY <1>1, BoundStep, WakeStep, TakeStep, SendStep, SettlesStep, TimesOutStep DEF Requests

----------------------------------------------------------------------------
(* The holder's invariant.                                                  *)

LEMMA HolderInitially ==
    ASSUME HolderInit
    PROVE  HolderInv
  <1> USE DEF HolderInit
  <1>1. MaxTurns \in Nat \ {0} /\ MaxStops \in Nat
    BY SessionHolderAssumption
  <1>2. HolderTypeOK
    <2>1. /\ turn \in [Turns -> {"none", "asked", "running", "over", "cut"}]
          /\ command \in [Turns -> {"none", "running", "over", "cut"}]
          /\ interrupts \in [Turns -> {"none", "pending", "done", "failed"}]
      OBVIOUS
    <2>2. wire \in Seq(Message) /\ queue \in Seq(BOOLEAN)
      OBVIOUS
    <2>3. asked \in 0..MaxTurns /\ stops \in 0..MaxStops
      BY <1>1
    <2>4. /\ unanswered \subseteq Turns /\ active \subseteq Turns /\ pending \subseteq Turns
          /\ flight \in Flight \cup {NoTurn} /\ {current, lastTurn} \subseteq Turns \cup {NoTurn}
          /\ app \in {"up", "exited", "crashed"} /\ phase = "binding" /\ stop = "none"
          /\ status = NoTurn
      OBVIOUS
    <2>5. {busy, turnStarted, unresolved, broken, owns, stopping, closingApp, closed, confirmed} \subseteq BOOLEAN
      OBVIOUS
    <2> QED
      BY <2>1, <2>2, <2>3, <2>4, <2>5 DEF HolderTypeOK
  <1>3. NumbersFit
    <2>1. Len(queue) = 0 /\ Waiting = 0 /\ Binding = 1
      BY DEF Waiting, Binding
    <2>2. asked = 0 /\ 0 + 0 + 0 + 1 <= MaxTurns
      BY <1>1
    <2>3. asked + Len(queue) + Waiting + Binding <= MaxTurns
      BY <2>1, <2>2
    <2> QED
      BY <2>3 DEF NumbersFit
  <1>4. TruthFits /\ WireFits /\ StatusFits /\ HeardFits
    BY DEF TruthFits, WireFits, StatusFits, HeardFits, Up
  <1>5. ActiveFits /\ PendingFits
    BY DEF ActiveFits, PendingFits, Open
  <1>6. FirstFits /\ BusyFits /\ StopFits
    BY DEF FirstFits, BusyFits, StopFits
  <1> QED
    BY <1>2, <1>3, <1>4, <1>5, <1>6 DEF HolderInv

LEMMA HolderStutters ==
    ASSUME HolderInv, UNCHANGED holderVars
    PROVE  HolderInv'
  <1> USE HolderParts DEF holderVars
  <1>1. HolderTypeOK'
    BY DEF HolderTypeOK
  <1>2. StopFits'
    BY DEF StopFits, Rested, NothingCut
  <1> QED
    BY <1>1, <1>2, AsideStep

THEOREM HolderInvariance == HolderSpec => []HolderInv
  <1>1. HolderInit => HolderInv
    BY HolderInitially
  <1>2. HolderInv /\ [HolderNext]_holderVars => HolderInv'
    BY AppStep, DispatchStep, RequestsStep, FinalizeStep, HolderStutters DEF HolderNext
  <1> QED
    BY <1>1, <1>2, PTL DEF HolderSpec

(* What the holder answers others about its turns is the truth about its    *)
(* child whenever it has heard what the child wrote, and a holder that said *)
(* it is alive is busy while a turn is counted, and without one only while  *)
(* a turn the child announced has still to start: whatever order statuses,  *)
(* starts, completions and answers came in, and however many turns.         *)
THEOREM SnapshotHonest == HolderSpec => []SnapshotIsHonest
  <1>1. HolderInv => SnapshotIsHonest
    <2> SUFFICES ASSUME HolderInv PROVE SnapshotIsHonest
      OBVIOUS
    <2> USE HolderParts
    <2>1. AccountsAreExact
      <3> SUFFICES ASSUME CaughtUp
                   PROVE  /\ \A t \in Turns : turn[t] = "running" => t \in active
                          /\ \A t \in active : turn[t] \in {"asked", "running"}
                          /\ pending = {t \in Turns : command[t] = "running"}
        BY DEF AccountsAreExact
      <3>1. app = "up" /\ owns /\ wire = << >>
        BY DEF CaughtUp
      <3>2. \A k, t : ~Said(k, t)
        BY <3>1 DEF Said
      <3>3. pending \subseteq Turns
        BY HolderTypes
      <3> QED
        BY <3>1, <3>2, <3>3 DEF ActiveFits, PendingFits, Open
    <2>2. BusyIsHonest
      <3> SUFFICES ASSUME phase = "alive", CaughtUp
                   PROVE  (active # {} => busy) /\ (busy => active # {} \/ Announced)
        BY DEF BusyIsHonest
      <3>1. app = "up" /\ owns /\ wire = << >>
        BY DEF CaughtUp
      <3>2. AboutToStart => Announced
        BY <3>1 DEF AboutToStart, Said
      <3> QED
        BY <3>1, <3>2 DEF BusyFits
    <2> QED
      BY <2>1, <2>2 DEF SnapshotIsHonest
  <1> QED
    BY <1>1, HolderInvariance, PTL

(* A stop is confirmed only of a child that ended by itself with nothing    *)
(* cut off, whatever was in flight or unheard when the stop came.           *)
THEOREM ConfirmedQuiet == HolderSpec => []ConfirmedIsQuiet
  <1>1. HolderInv => ConfirmedIsQuiet
    BY HolderParts DEF StopFits, NothingCut, ConfirmedIsQuiet
  <1> QED
    BY <1>1, HolderInvariance, PTL

=============================================================================
