-------------------------- MODULE KeyedLease_proofs --------------------------
(***************************************************************************)
(* Proofs about KeyedLease, for any number of wrappers and kills and any   *)
(* order of the reads of a lock: commands exclude each other and only dead *)
(* leases are reclaimed until a recheck whose lock was replaced under its  *)
(* reads robs a live lease, and commands start in the order of the calls   *)
(* whatever was robbed.  Who may change the lock made it, a command that   *)
(* outlives its wrapper keeps the record that tells it is not dead, and    *)
(* what a recheck has read is of the lock that stands or of none.          *)
(***************************************************************************)
EXTENDS KeyedLease, TLAPS

\* Who runs has not exited and was not killed.
RunningIsUp == \A p \in Wrappers : p \in running <=> pc[p] \notin {"gone", "killed"}

\* A lock names its maker or nobody.
LockIsMakers == Exists => lock.owner \in {None, lock.maker} /\ lock.child \in {None, lock.maker}

\* Who made the lock finds it until he removed it.
Named == {"turn", "start", "wait", "unlink", "yield"}
Blank == {"own", "rmdir", "yielded"}
HoldersAreThere ==
    \A p \in Wrappers :
        /\ pc[p] \in Named => Exists /\ lock.maker = p /\ lock.owner = p
        /\ pc[p] \in Blank => Exists /\ lock.maker = p /\ lock.owner = None /\ lock.child = None

\* A live command has its wrapper's lock, and is recorded in it if it got
\* that far; before its wrapper started it there is none.
CommandFits ==
    \A p \in Wrappers :
        /\ CommandLives(p) =>
              /\ pc[p] \in {"wait", "killed"}
              /\ Exists /\ lock.maker = p /\ lock.owner = p
        /\ command[p] = "running" => lock.child = p

\* Who works under the .recovery lock has it.  Unless the directory went away
\* in between, what it has read of the files is the maker's who has the lock,
\* and what it is about to rename is dead.
RecoveryIsHeld ==
    \A p \in Wrappers :
        /\ pc[p] \in {"relook", "reowner", "rechild", "rejudge", "rename"} => recovery = p
        /\ pc[p] \in {"rechild", "rejudge"} => switched \/ sight[p].owner \in {None, Holder}
        /\ pc[p] = "rejudge" => switched \/ sight[p].child \in {None, Holder}
        /\ pc[p] = "rename" => switched \/ (Exists /\ lock.maker \notin Alive)

HolderInv == LockIsMakers /\ HoldersAreThere /\ CommandFits /\ RecoveryIsHeld

\* Calls differ in time, and who waits is registered since its call.
WaitersAreFiled ==
    /\ \A p \in Wrappers : asked[p] <= calls /\ since[p] \in {0, asked[p]}
    /\ \A p, q \in Wrappers : asked[p] = asked[q] => p = q \/ asked[p] = 0
    /\ \A p \in Wrappers : pc[p] = "idle" => asked[p] = 0
    /\ \A p \in Wrappers : Waiting(p) \/ pc[p] = "start" => since[p] = asked[p] /\ asked[p] # 0

\* The turn that was checked under the lock stands until the command starts.
TurnStands == \A p \in Wrappers : pc[p] = "start" => IsOldest(p, since)

\* The lock is only what it seems until a live lease is robbed; the order of
\* the calls is kept after it too.
IInv ==
    /\ TypeOK /\ RunningIsUp /\ WaitersAreFiled /\ TurnStands
    /\ robbed \/ HolderInv

----------------------------------------------------------------------------
(* The first state, and the steps of one wrapper.                           *)

\* The invariant holds at first, also with a dead lease left behind.
LEMMA InitInv == Init => IInv
  <1> SUFFICES ASSUME Init PROVE IInv
    OBVIOUS
  <1>1. TypeOK
    <2>1. sight \in [Wrappers -> Sight]
      BY DEF Init, Sight, Nothing
    <2>2. lock \in Lock \cup {None}
      BY DEF Init, Lock
    <2> QED
      BY <2>1, <2>2 DEF Init, TypeOK, PCs
  <1>2. HolderInv /\ RunningIsUp
    BY NoneAssumption DEF Init, HolderInv, RunningIsUp, LockIsMakers, HoldersAreThere,
       Named, Blank, CommandFits, CommandLives, RecoveryIsHeld, Exists
  <1>3. WaitersAreFiled /\ TurnStands
    BY DEF Init, WaitersAreFiled, TurnStands, Waiting, Polling
  <1> QED
    BY <1>1, <1>2, <1>3 DEF IInv

\* The steps one wrapper, or its command, may take.
OneStep(p) == Register(p) \/ Step(p) \/ RecordChild(p) \/ CommandEnds(p) \/ GiveUp(p) \/ Kill(p)

\* Each step keeps the types.
LEMMA TypeInductive ==
    ASSUME TypeOK, NEW p \in Wrappers, OneStep(p)
    PROVE  TypeOK'
  <1> USE NoneAssumption DEF TypeOK, Lock, PCs, Sight, Nothing, At, Goto, Exists, auxiliary
  <1>1. CASE Register(p)
    BY <1>1 DEF Register
  <1>2. CASE MakeLock(p)
    BY <1>2 DEF MakeLock
  <1>3. CASE MeetLock(p)
    BY <1>3 DEF MeetLock
  <1>4. CASE WriteOwner(p)
    BY <1>4 DEF WriteOwner
  <1>5. CASE TakeTurn(p)
    BY <1>5 DEF TakeTurn
  <1>6. CASE StartCommand(p)
    BY <1>6 DEF StartCommand
  <1>7. CASE Finish(p)
    BY <1>7 DEF Finish
  <1>8. CASE EmptyLock(p)
    BY <1>8 DEF EmptyLock
  <1>9. CASE RemoveLock(p)
    BY <1>9 DEF RemoveLock
  <1>10. CASE Look(p)
    BY <1>10 DEF Look
  <1>11. CASE Judge(p)
    BY <1>11 DEF Judge, Forget
  <1>12. CASE TakeRecovery(p)
    BY <1>12 DEF TakeRecovery
  <1>13. CASE Rejudge(p)
    BY <1>13 DEF Rejudge, Forget
  <1>14. CASE RenameAway(p)
    BY <1>14 DEF RenameAway
  <1>15. CASE Retry(p)
    BY <1>15 DEF Retry
  <1>16. CASE Leave(p)
    BY <1>16 DEF Leave
  <1>17. CASE RecordChild(p)
    BY <1>17 DEF RecordChild
  <1>18. CASE CommandEnds(p)
    BY <1>18 DEF CommandEnds
  <1>19. CASE GiveUp(p)
    BY <1>19 DEF GiveUp
  <1>20. CASE Kill(p)
    BY <1>20 DEF Kill, Forget
  <1>21. CASE ReadOwner(p)
    <2>1. sight' \in [Wrappers -> Sight]
      BY <1>21 DEF ReadOwner, Owner
    <2> QED
      BY <1>21, <2>1 DEF ReadOwner
  <1>22. CASE ReadChild(p)
    BY <1>22 DEF ReadChild, Child
  <1> QED
    BY <1>1, <1>2, <1>3, <1>4, <1>5, <1>6, <1>7, <1>8, <1>9, <1>10,
       <1>11, <1>12, <1>13, <1>14, <1>15, <1>16, <1>17, <1>18, <1>19, <1>20,
       <1>21, <1>22 DEF OneStep, Step, Poll

----------------------------------------------------------------------------
(* The lock.                                                                *)

\* Each step keeps the lock its maker's and a live command its lock.
LEMMA HolderInductive ==
    ASSUME TypeOK, RunningIsUp, HolderInv, ~robbed', NEW p \in Wrappers, OneStep(p)
    PROVE  HolderInv'
  <1> USE NoneAssumption DEF TypeOK, Lock, Sight, At, Goto, Exists, HolderInv, RunningIsUp,
          LockIsMakers, HoldersAreThere, Named, Blank, CommandFits, CommandLives, RecoveryIsHeld,
          Holder, Alive, auxiliary
  <1>1. CASE Register(p)
    BY <1>1 DEF Register
  <1>2. CASE MakeLock(p)
    <2>1. lock'.maker = p /\ lock'.owner = None /\ lock'.child = None /\ lock' # None
      BY <1>2 DEF MakeLock
    <2> QED
      BY <1>2, <2>1 DEF MakeLock
  <1>3. CASE MeetLock(p)
    BY <1>3 DEF MeetLock
  <1>4. CASE WriteOwner(p)
    <2>1. pc[p] = "own" /\ lock # None /\ lock.maker = p /\ lock.child = None
      BY <1>4 DEF WriteOwner
    <2>2. lock'.maker = p /\ lock'.owner = p /\ lock'.child = None /\ lock' # None
      BY <1>4, <2>1 DEF WriteOwner
    <2> QED
      BY <1>4, <2>1, <2>2 DEF WriteOwner
  <1>5. CASE TakeTurn(p)
    BY <1>5 DEF TakeTurn
  <1>6. CASE StartCommand(p)
    BY <1>6 DEF StartCommand
  <1>7. CASE Finish(p)
    BY <1>7 DEF Finish
  <1>8. CASE EmptyLock(p)
    <2>1. pc[p] \in {"unlink", "yield"} /\ lock # None /\ lock.maker = p
      BY <1>8 DEF EmptyLock
    <2>2. lock'.maker = p /\ lock'.owner = None /\ lock'.child = None /\ lock' # None
      BY <1>8, <2>1 DEF EmptyLock
    <2> QED
      BY <1>8, <2>1, <2>2 DEF EmptyLock
  <1>9. CASE RemoveLock(p)
    <2>1. lock # None /\ lock.maker = p /\ lock.owner = None /\ lock.child = None
      BY <1>9 DEF RemoveLock
    <2>2. lock' = None /\ switched' = (switched \/ Rechecking)
      BY <1>9, <2>1 DEF RemoveLock, Owner, Child
    <2>3. ~CommandLives(p) /\ p \in running
      BY <1>9 DEF RemoveLock
    <2>4. LockIsMakers' /\ HoldersAreThere' /\ CommandFits'
      BY <1>9, <2>1, <2>2, <2>3 DEF RemoveLock
    <2>5. RecoveryIsHeld'
      <3> SUFFICES ASSUME NEW q \in Wrappers
                   PROVE  /\ pc'[q] \in {"relook", "reowner", "rechild", "rejudge", "rename"}
                                => recovery' = q
                          /\ pc'[q] \in {"rechild", "rejudge"} => switched'
                          /\ pc'[q] = "rename" => switched'
        OBVIOUS
      <3>1. q # p => pc'[q] = pc[q]
        BY <1>9 DEF RemoveLock
      <3>2. pc'[p] \in {"look", "end"} /\ recovery' = recovery
        BY <1>9, <2>1, <2>2 DEF RemoveLock, Owner, Child
      <3>3. q # p /\ pc[q] \in {"rechild", "rejudge"} => Rechecking
        BY DEF Rechecking
      <3>4. q # p /\ pc[q] = "rename" => switched
        BY <2>1, <2>3
      <3> QED
        BY <2>2, <3>1, <3>2, <3>3, <3>4
    <2> QED
      BY <2>4, <2>5
  <1>10. CASE Look(p)
    BY <1>10 DEF Look
  <1>11. CASE Judge(p)
    BY <1>11 DEF Judge, Forget
  <1>12. CASE TakeRecovery(p)
    BY <1>12 DEF TakeRecovery
  <1>13. CASE Rejudge(p)
    BY <1>13 DEF Rejudge, Forget, Judged, Verdict
  <1>14. CASE RenameAway(p)
    BY <1>14 DEF RenameAway
  <1>15. CASE Retry(p)
    BY <1>15 DEF Retry
  <1>16. CASE Leave(p)
    BY <1>16 DEF Leave
  <1>17. CASE RecordChild(p)
    <2>1. lock # None /\ lock.maker = p /\ lock.owner = p
      BY <1>17 DEF RecordChild
    <2>2. lock'.maker = p /\ lock'.owner = p /\ lock'.child = p /\ lock' # None
      BY <1>17, <2>1 DEF RecordChild
    <2> QED
      BY <1>17, <2>1, <2>2 DEF RecordChild
  <1>18. CASE CommandEnds(p)
    BY <1>18 DEF CommandEnds
  <1>19. CASE GiveUp(p)
    BY <1>19 DEF GiveUp
  <1>20. CASE Kill(p)
    BY <1>20 DEF Kill, Forget
  <1>21. CASE ReadOwner(p)
    BY <1>21 DEF ReadOwner, Owner
  <1>22. CASE ReadChild(p)
    BY <1>22 DEF ReadChild, Child
  <1> QED
    BY <1>1, <1>2, <1>3, <1>4, <1>5, <1>6, <1>7, <1>8, <1>9, <1>10,
       <1>11, <1>12, <1>13, <1>14, <1>15, <1>16, <1>17, <1>18, <1>19, <1>20,
       <1>21, <1>22 DEF OneStep, Step, Poll

----------------------------------------------------------------------------
(* The waiters.                                                             *)

\* Each step keeps who runs up, who waits registered, and the turn that was checked.
LEMMA WaitersInductive ==
    ASSUME TypeOK, RunningIsUp, WaitersAreFiled, TurnStands, NEW p \in Wrappers, OneStep(p)
    PROVE  RunningIsUp' /\ WaitersAreFiled' /\ TurnStands'
  <1> USE DEF TypeOK, At, Goto, RunningIsUp, WaitersAreFiled, TurnStands, Waiting, Polling,
          IsOldest, auxiliary
  <1>1. CASE Register(p)
    BY <1>1 DEF Register
  <1>2. CASE MakeLock(p)
    BY <1>2 DEF MakeLock
  <1>3. CASE MeetLock(p)
    BY <1>3 DEF MeetLock
  <1>4. CASE WriteOwner(p)
    BY <1>4 DEF WriteOwner
  <1>5. CASE TakeTurn(p)
    BY <1>5 DEF TakeTurn
  <1>6. CASE StartCommand(p)
    BY <1>6 DEF StartCommand
  <1>7. CASE Finish(p)
    BY <1>7 DEF Finish
  <1>8. CASE EmptyLock(p)
    BY <1>8 DEF EmptyLock
  <1>9. CASE RemoveLock(p)
    BY <1>9 DEF RemoveLock
  <1>10. CASE Look(p)
    BY <1>10 DEF Look
  <1>11. CASE Judge(p)
    BY <1>11 DEF Judge
  <1>12. CASE TakeRecovery(p)
    BY <1>12 DEF TakeRecovery
  <1>13. CASE Rejudge(p)
    BY <1>13 DEF Rejudge
  <1>14. CASE RenameAway(p)
    BY <1>14 DEF RenameAway
  <1>15. CASE Retry(p)
    BY <1>15 DEF Retry
  <1>16. CASE Leave(p)
    BY <1>16 DEF Leave
  <1>17. CASE RecordChild(p)
    BY <1>17 DEF RecordChild
  <1>18. CASE CommandEnds(p)
    BY <1>18 DEF CommandEnds
  <1>19. CASE GiveUp(p)
    BY <1>19 DEF GiveUp
  <1>20. CASE Kill(p)
    BY <1>20 DEF Kill
  <1>21. CASE ReadOwner(p)
    BY <1>21 DEF ReadOwner
  <1>22. CASE ReadChild(p)
    BY <1>22 DEF ReadChild
  <1> QED
    BY <1>1, <1>2, <1>3, <1>4, <1>5, <1>6, <1>7, <1>8, <1>9, <1>10,
       <1>11, <1>12, <1>13, <1>14, <1>15, <1>16, <1>17, <1>18, <1>19, <1>20,
       <1>21, <1>22 DEF OneStep, Step, Poll

----------------------------------------------------------------------------
(* The specification.                                                       *)

\* What was robbed stays robbed.
LEMMA RobbedForEver ==
    ASSUME TypeOK, NEW p \in Wrappers, OneStep(p), robbed
    PROVE  robbed'
  BY DEF TypeOK, OneStep, Step, Poll, Register, MakeLock, MeetLock, WriteOwner, TakeTurn,
     StartCommand, Finish, EmptyLock, RemoveLock, Look, ReadOwner, ReadChild, Judge, TakeRecovery,
     Rejudge, RenameAway, Retry, Leave, RecordChild, CommandEnds, GiveUp, Kill, auxiliary

LEMMA Invariance == Spec => []IInv
  <1>1. ASSUME IInv, [Next]_vars PROVE IInv'
    <2>1. CASE Next
      <3>1. PICK p \in Wrappers : OneStep(p)
        BY <2>1 DEF Next, OneStep
      <3>2. robbed' \/ HolderInv'
        BY <1>1, <3>1, RobbedForEver, HolderInductive DEF IInv
      <3> QED
        BY <1>1, <3>1, <3>2, TypeInductive, WaitersInductive DEF IInv
    <2>2. CASE UNCHANGED vars
      <3>1. TypeOK'
        BY <1>1, <2>2 DEF IInv, TypeOK, vars, auxiliary
      <3>2. robbed' \/ HolderInv'
        BY <1>1, <2>2 DEF IInv, vars, auxiliary, HolderInv, LockIsMakers, HoldersAreThere,
           CommandFits, CommandLives, RecoveryIsHeld, Exists, Holder, Alive
      <3>3. RunningIsUp' /\ WaitersAreFiled' /\ TurnStands'
        BY <1>1, <2>2 DEF IInv, vars, auxiliary, RunningIsUp, WaitersAreFiled, TurnStands, Waiting,
           IsOldest
      <3> QED
        BY <3>1, <3>2, <3>3 DEF IInv
    <2> QED
      BY <1>1, <2>1, <2>2
  <1> QED
    BY InitInv, <1>1, PTL DEF Spec

\* Two commands never run at once under one key (CommandIsAlone), whichever
\* wrappers were killed with their commands left running, and however their
\* locks were recovered, until a live lease was robbed: the lock of a live
\* command is its own.
THEOREM CommandAlone == Spec => []CommandIsAlone
  <1>1. IInv => CommandIsAlone
    BY DEF IInv, HolderInv, CommandFits, CommandIsAlone, OneCommand
  <1> QED
    BY Invariance, <1>1, PTL

\* The first live lease to be renamed away was taken by a recheck that read
\* another directory's owner (ReclaimsOnlyTheDead): else what was judged dead
\* stands under the .recovery lock until the rename.
THEOREM ReclaimsDead == Spec => ReclaimsOnlyTheDead
  <1> DEFINE Dead == \A p \in Wrappers :
                 pc[p] = "rename" /\ pc'[p] = "mkdir" =>
                     lock.maker \notin Alive \/ switched \/ robbed
  <1>1. IInv => Dead
    BY DEF IInv, HolderInv, RecoveryIsHeld
  <1> QED
    BY Invariance, <1>1, PTL DEF Spec, ReclaimsOnlyTheDead

\* Commands start in the order of the calls (OldestFirst), also when a lease
\* was robbed: who starts had the oldest waiter file when it last looked, and
\* who asked since is younger.
THEOREM OldestRunsFirst == Spec => OldestFirst
  <1> DEFINE Oldest == \A p \in Wrappers :
                 command[p] = "none" /\ command'[p] = "starting" =>
                     \A q \in Wrappers : Before(q, p) => ~Waiting(q)
  <1>1. IInv /\ [Next]_vars => Oldest
    <2> SUFFICES ASSUME IInv, [Next]_vars, NEW p \in Wrappers,
                        command[p] = "none", command'[p] = "starting",
                        NEW q \in Wrappers, Before(q, p)
                 PROVE  ~Waiting(q)
      OBVIOUS
    <2>1. pc[p] = "start"
      BY DEF IInv, TypeOK, vars, Next, Step, Poll, Register, MakeLock, MeetLock, WriteOwner,
         TakeTurn, StartCommand, Finish, EmptyLock, RemoveLock, Look, ReadOwner, ReadChild, Judge,
         TakeRecovery, Rejudge, RenameAway, Retry, Leave, RecordChild, CommandEnds, GiveUp, Kill, At
    <2> QED
      BY <2>1 DEF IInv, TypeOK, WaitersAreFiled, TurnStands, IsOldest, Before
  <1> QED
    BY Invariance, <1>1, PTL DEF Spec, OldestFirst

----------------------------------------------------------------------------
(* The lease implements the lock.                                           *)

\* A step that neither makes nor removes the lock nor ends the wrapper or the
\* command goes unseen: who was inside stays inside and nobody else comes.
LEMMA Invisible ==
    ASSUME IInv, ~robbed, NEW p \in Wrappers,
           \/ Register(p) \/ MeetLock(p) \/ WriteOwner(p) \/ TakeTurn(p) \/ StartCommand(p)
           \/ RecordChild(p) \/ Finish(p) \/ EmptyLock(p) \/ Look(p) \/ ReadOwner(p)
           \/ ReadChild(p) \/ Judge(p) \/ TakeRecovery(p) \/ Rejudge(p) \/ Retry(p) \/ GiveUp(p)
    PROVE  UNCHANGED <<Holder, Inside, Alive>>
  <1> USE DEF IInv, TypeOK, At, Goto, auxiliary
  <1>1. Holder' = Holder
    <2>1. CASE WriteOwner(p) \/ RecordChild(p) \/ EmptyLock(p)
      <3>1. CASE lock' = lock
        BY <3>1 DEF Holder, Exists
      <3>2. CASE lock' # lock
        <4>1. /\ lock \in Lock
              /\ \/ lock' = [lock EXCEPT !.owner = p]
                 \/ lock' = [lock EXCEPT !.child = p]
                 \/ lock' = [lock EXCEPT !.owner = None, !.child = None]
          BY <2>1, <3>2 DEF WriteOwner, RecordChild, EmptyLock, Exists
        <4>2. lock' \in Lock /\ lock'.maker = lock.maker
          BY <4>1 DEF Lock
        <4> QED
          BY <4>1, <4>2, NoneAssumption DEF Holder, Exists
      <3> QED
        BY <3>1, <3>2
    <2>2. CASE ~(WriteOwner(p) \/ RecordChild(p) \/ EmptyLock(p))
      BY <2>2 DEF Register, MeetLock, TakeTurn, StartCommand, Finish, Look, ReadOwner,
         ReadChild, Judge, TakeRecovery, Rejudge, Retry, GiveUp, Holder, Exists
    <2> QED
      BY <2>1, <2>2
  <1>2. Alive' = Alive /\ Inside' = Inside
    <2>1. CASE StartCommand(p)
      BY <2>1 DEF StartCommand, HolderInv, HoldersAreThere, Named, Exists, Alive, Inside,
         Owning, CommandLives
    <2>2. CASE RecordChild(p)
      BY <2>2 DEF RecordChild, HolderInv, CommandFits, Exists, Alive, Inside, Owning, CommandLives
    <2>3. CASE WriteOwner(p)
      BY <2>3 DEF WriteOwner, HolderInv, HoldersAreThere, Blank, Exists, Alive, Inside,
         Owning, CommandLives
    <2>4. CASE Register(p) \/ MeetLock(p) \/ TakeTurn(p) \/ Finish(p) \/ EmptyLock(p)
      BY <2>4 DEF Register, MeetLock, TakeTurn, Finish, EmptyLock, Alive, Inside,
         Owning, CommandLives
    <2>5. CASE \/ Look(p) \/ ReadOwner(p) \/ ReadChild(p) \/ Judge(p)
               \/ TakeRecovery(p) \/ Rejudge(p) \/ Retry(p) \/ GiveUp(p)
      BY <2>5 DEF Look, ReadOwner, ReadChild, Judge, TakeRecovery, Rejudge, Retry, GiveUp,
         Alive, Inside, Owning, CommandLives
    <2> QED
      BY <2>1, <2>2, <2>3, <2>4, <2>5
  <1> QED
    BY <1>1, <1>2

\* Until a live lease is robbed (LockUntilRobbed) every step acquires,
\* releases, dispossesses a dead pair, ends one or is invisible: a wrapper
\* killed over its command goes on as that command, and ends with it.
THEOREM LeaseRefinement == Spec => LockUntilRobbed
  <1>1. Init => Abstract!Init
    BY NoneAssumption DEF Init, Abstract!Init, Holder, Exists, Inside, Alive, Owning, CommandLives
  <1>2. IInv /\ [Next]_vars => [robbed' \/ Abstract!Next]_<<Holder, Inside, Alive>>
    <2> SUFFICES ASSUME IInv, [Next]_vars, ~robbed'
                 PROVE  [Abstract!Next]_<<Holder, Inside, Alive>>
      OBVIOUS
    <2>0. ~robbed
      BY RobbedForEver DEF IInv, Next, OneStep, vars, auxiliary
    <2> USE <2>0 DEF IInv, TypeOK, At, Goto, Alive, Inside, Owning, CommandLives, auxiliary
    <2>1. CASE UNCHANGED vars
      BY <2>1 DEF vars, Holder, Exists
    <2>2. ASSUME NEW p \in Wrappers, MakeLock(p) PROVE Abstract!Acquire(p)
      <3>1. Holder = None /\ Holder' = p
        <4>1. lock'.maker = p /\ lock' # None
          BY <2>2, NoneAssumption DEF MakeLock, Lock
        <4> QED
          BY <2>2, <4>1 DEF MakeLock, Holder, Exists
      <3>2. p \in Alive /\ Alive' = Alive /\ Inside' = Inside \cup {p}
        BY <2>2 DEF MakeLock
      <3> QED
        BY <3>1, <3>2 DEF Abstract!Acquire
    <2>3. ASSUME NEW p \in Wrappers, RemoveLock(p) PROVE Abstract!Release(p)
      <3>1. Exists /\ lock.maker = p /\ lock.owner = None /\ lock.child = None
        BY <2>3 DEF RemoveLock, HolderInv, HoldersAreThere, Blank
      <3>2. Holder = p /\ Holder' = None
        BY <2>3, <3>1 DEF RemoveLock, Holder, Exists, Owner, Child
      <3>3. ~CommandLives(p)
        BY <2>3 DEF RemoveLock, HolderInv, CommandFits
      <3>4. p \in Inside /\ Alive' = Alive /\ Inside' = Inside \ {p}
        BY <2>3, <3>3 DEF RemoveLock
      <3> QED
        BY <3>2, <3>4 DEF Abstract!Release
    <2>4. ASSUME NEW p \in Wrappers, RenameAway(p)
          PROVE  Abstract!Dispossess \/ UNCHANGED <<Holder, Inside, Alive>>
      <3>1. Alive' = Alive /\ Inside' = Inside
        BY <2>4 DEF RenameAway
      <3>2. Holder' = None
        BY <2>4 DEF RenameAway, Holder, Exists
      <3>3. CASE Exists
        <4>1. lock.maker \in Wrappers /\ lock.maker \notin Alive
          BY <2>4, <3>3 DEF RenameAway, HolderInv, RecoveryIsHeld, Exists, Lock
        <4> QED
          BY <3>1, <3>2, <3>3, <4>1 DEF Abstract!Dispossess, Holder
      <3>4. CASE ~Exists
        BY <3>1, <3>2, <3>4 DEF Holder
      <3> QED
        BY <3>3, <3>4
    <2>5. ASSUME NEW p \in Wrappers, Leave(p) PROVE Abstract!Crash(p)
      <3>1. ~CommandLives(p)
        BY <2>5 DEF Leave, HolderInv, CommandFits
      <3>2. p \in Alive /\ Alive' = Alive \ {p} /\ Inside' = Inside \ {p}
        BY <2>5, <3>1 DEF Leave
      <3> QED
        BY <2>5, <3>2 DEF Abstract!Crash, Leave, Holder, Exists
    <2>6. ASSUME NEW p \in Wrappers, Kill(p)
          PROVE  Abstract!Crash(p) \/ UNCHANGED <<Holder, Inside, Alive>>
      <3>1. Holder' = Holder
        BY <2>6 DEF Kill, Holder, Exists
      <3>2. CASE CommandLives(p)
        BY <2>6, <3>1, <3>2 DEF Kill
      <3>3. CASE ~CommandLives(p)
        <4>1. p \in Alive /\ Alive' = Alive \ {p} /\ Inside' = Inside \ {p}
          BY <2>6, <3>3 DEF Kill
        <4> QED
          BY <3>1, <4>1 DEF Abstract!Crash
      <3> QED
        BY <3>2, <3>3
    <2>7. ASSUME NEW p \in Wrappers, CommandEnds(p)
          PROVE  Abstract!Crash(p) \/ UNCHANGED <<Holder, Inside, Alive>>
      <3>1. Holder' = Holder
        BY <2>7 DEF CommandEnds, Holder, Exists
      <3>2. pc[p] \in {"wait", "killed"}
        BY <2>7 DEF CommandEnds, HolderInv, CommandFits
      <3>3. CASE pc[p] = "wait"
        BY <2>7, <3>1, <3>3 DEF CommandEnds, HolderInv, RunningIsUp
      <3>4. CASE pc[p] = "killed"
        <4>1. p \in Alive /\ Alive' = Alive \ {p} /\ Inside' = Inside \ {p}
          BY <2>7, <3>4 DEF CommandEnds, HolderInv, RunningIsUp
        <4> QED
          BY <3>1, <4>1 DEF Abstract!Crash
      <3> QED
        BY <3>2, <3>3, <3>4
    <2> QED
      BY <2>1, <2>2, <2>3, <2>4, <2>5, <2>6, <2>7, Invisible DEF Next, Step, Poll, Abstract!Next
  <1> QED
    BY <1>1, <1>2, Invariance, PTL
       DEF Spec, LockUntilRobbed
=============================================================================
