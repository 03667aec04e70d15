-------------------------- MODULE MessageStore_proofs --------------------------
(***************************************************************************)
(* Proofs about MessageStore, for any processes, recipients and ids: that   *)
(* the store is consistent and no mail is lost, that a close is a barrier,  *)
(* and that boundaries rise.  All of it rests on who holds which lock at    *)
(* which place, on an id being the head as long as its writer is inside,    *)
(* and on how far each copy of a message has come.  The last part is about  *)
(* MessageOrder, which allocates the ids under the commit lock: commit      *)
(* order is id order for any clock behaviour, any number of messages and    *)
(* any loss of the head file.                                               *)
(***************************************************************************)
EXTENDS MessageStore, MessageOrder, WellFoundedInduction, TLAPS

\* The places inside the task lock, those of them inside the commit lock too,
\* and those that have a reserved id to write.
Inside == {"commit", "recheck", "reserve", "intent", "fill", "lease", "assign",
           "broken", "intents", "messages"}
Ordered == Inside \ {"commit"}
Writes == {"intent", "fill", "lease", "assign"}
Unwritten == {"intent", "fill"}
Fans == {"ref", "link", "retire"}

LocksHeld ==
    \A p \in running :
        /\ pc[p] \in Inside => taskLock = p
        /\ pc[p] \in Ordered => commitLock = p

OpenInside == \A p \in running : pc[p] \in Writes \cup {"reserve"} => active

\* Nobody has an id that was not reserved, and who writes one has the last;
\* nothing is marked with one that was not.
WriterHasHead == \A p \in running : at[p] <= head /\ (pc[p] \in Writes => at[p] = head)
BoundaryIsReserved == \A r \in Recipients : boundary[r] <= head
MarksAreReserved ==
    \A m \in Ids : m > head => intent[m] = "none" /\ m \notin committed \cup old \cup quarantine

\* What a place says of the call and its id.
StepsFit ==
    \A p \in running :
        /\ pc[p] \in Unwritten \cup {"lease"} => job[p] = "send"
        /\ pc[p] \in Writes \cup Fans \cup {"canon", "torn"} => at[p] \in Ids
        /\ pc[p] \in Unwritten => at[p] \notin committed
        /\ pc[p] \in Fans \cup {"lease", "canon"} \/ (pc[p] = "assign" /\ job[p] = "send") =>
              at[p] \in committed
        /\ pc[p] \in Fans => at[p] \in canon

\* How far a record says its message has come.
RecordsAreTrue ==
    /\ \A m \in Ids : /\ (intent[m] = "whole" => m \in committed)
                      /\ (intent[m] = "torn" => m \notin committed)
    /\ \A m \in Ids : lease[m] # None => m \in committed
    /\ canon \subseteq committed
    /\ \A m \in committed : m \in canon \/ intent[m] # "none" \/ m \in quarantine

\* What facts has seen of it under its locks.
FactsHaveSeen ==
    \A p \in running :
        /\ pc[p] \in {"intents", "messages"} => quarantine = {}
        /\ pc[p] = "messages" => \A m \in Ids : intent[m] = "none"

\* What a fan-out has placed.
FanoutHasPlaced ==
    \A p \in running :
        /\ pc[p] \in {"ref", "link"} => \A r \in message[at[p]].to \ left[p] : Delivered(at[p], r)
        /\ pc[p] = "retire" => \A r \in message[at[p]].to : Delivered(at[p], r)

\* When writers do not stall, a record that grew old or is being set aside has
\* no writer, and never will.
OldIsDead ==
    ~SlowWriters =>
        /\ \A p \in running : pc[p] \in Unwritten => at[p] \notin old \cup quarantine
        /\ \A q \in running : pc[q] = "torn" =>
              /\ at[q] \notin committed
              /\ \A p \in running : pc[p] \in Unwritten => at[p] # at[q]

\* TypeOK in three parts.
StoreTypes ==
    /\ active \in BOOLEAN /\ head \in 0..MaxId
    /\ message \in [Ids -> Message]
    /\ intent \in [Ids -> {"none", "torn", "whole"}]
    /\ lease \in [Ids -> Procs \cup {None}]
    /\ old \subseteq Ids /\ canon \subseteq Ids /\ quarantine \subseteq Ids
    /\ inbox \in [Recipients -> SUBSET Ids] /\ history \in [Recipients -> SUBSET Ids]
    /\ boundary \in [Recipients -> 0..MaxId]

LocalTypes ==
    /\ pc \in [Procs -> PCs] /\ job \in [Procs -> Jobs]
    /\ at \in [Procs -> 0..MaxId]
    /\ left \in [Procs -> SUBSET Recipients]
    /\ target \in [Procs -> Recipients \cup {None}]
    /\ walk \in [Procs -> SUBSET Ids]

SharedTypes ==
    /\ taskLock \in Procs \cup {None} /\ commitLock \in Procs \cup {None}
    /\ running \subseteq Procs
    /\ committed \subseteq Ids /\ acked \subseteq Ids
    /\ refusals \in 0..MaxRefusals

IInv ==
    /\ TypeOK
    /\ LocksHeld
    /\ OpenInside
    /\ WriterHasHead /\ BoundaryIsReserved /\ MarksAreReserved
    /\ StepsFit
    /\ RecordsAreTrue
    /\ RefsHaveCanon
    /\ FactsHaveSeen
    /\ FanoutHasPlaced
    /\ NoMailLost
    /\ AckedIsDelivered
    /\ OldIsDead
    /\ (~SlowWriters => QuarantineIsTorn)

----------------------------------------------------------------------------
(* Types.                                                                   *)

\* The earliest of some ids is one of them.
LEMMA FirstIsOne == ASSUME NEW some, some \subseteq Ids, some # {} PROVE First(some) \in some
  <1>1. some \subseteq Nat
    BY DEF Ids
  <1>2. PICK m \in some : \A n \in some : <<n, m>> \notin OpToRel(<, Nat)
    BY <1>1, WFMin, NatLessThanWellFounded, Zenon
  <1>3. \A n \in some : ~(n < m)
    BY <1>1, <1>2 DEF OpToRel
  <1>4. \A n \in some : m <= n
    BY <1>1, <1>3
  <1> QED
    BY <1>4 DEF First

\* The type invariant is that of the store, of the processes and of what they share.
LEMMA TypesAreParts == TypeOK <=> StoreTypes /\ LocalTypes /\ SharedTypes
  BY DEF TypeOK, StoreTypes, LocalTypes, SharedTypes

\* Ways back and on.
LEMMA ReturnTypes == ASSUME LocalTypes, NEW p \in Procs, Return(p) PROVE LocalTypes'
  BY BoundsAssumption DEF LocalTypes, Return, Goto, PCs, Jobs

\* A walk that goes on to its next message or ends keeps the types.
LEMMA AdvanceTypes == ASSUME LocalTypes, NEW p \in Procs, Advance(p) PROVE LocalTypes'
  <1>1. CASE Return(p)
    BY <1>1, ReturnTypes
  <1>2. CASE Goto(p, "walk") /\ UNCHANGED local
    BY <1>2 DEF LocalTypes, Goto, PCs, local
  <1> QED
    BY <1>1, <1>2 DEF Advance

\* A send that fails goes on to a recovery or ends, and keeps the types.
LEMMA FailTypes == ASSUME LocalTypes, NEW p \in Procs, Fail(p) PROVE LocalTypes'
  <1>1. CASE Return(p)
    BY <1>1, ReturnTypes
  <1>2. CASE /\ Goto(p, "walk")
             /\ job' = [job EXCEPT ![p] = "recover"]
             /\ UNCHANGED <<at, left, target, walk>>
    BY <1>2 DEF LocalTypes, Goto, PCs, Jobs
  <1> QED
    BY <1>1, <1>2 DEF Fail

\* A step that goes on to a place and changes nothing else of its own.
LEMMA GotoTypes == ASSUME LocalTypes, NEW p \in Procs, NEW l \in PCs, Goto(p, l), UNCHANGED local
                   PROVE  LocalTypes'
  BY DEF LocalTypes, Goto, local

\* What a process keeps of its call has its type.
LEMMA LocalTypeStep == IInv /\ [Next]_vars => LocalTypes'
  <1> SUFFICES ASSUME IInv, [Next]_vars PROVE LocalTypes'
    OBVIOUS
  <1>0. StoreTypes /\ LocalTypes
    BY TypesAreParts DEF IInv
  <1> USE <1>0, ReturnTypes, AdvanceTypes, FailTypes, GotoTypes
  <1>1. ASSUME NEW p \in Procs, Begin(p) PROVE LocalTypes'
    BY <1>1 DEF Begin, LocalTypes, Goto, PCs, Jobs
  <1>2. ASSUME NEW p \in Procs,
                \/ TakeTaskLock(p) \/ TakeCommitLock(p) \/ CreateIntent(p) \/ FillIntent(p)
                \/ AllRefs(p)
         PROVE  LocalTypes'
    BY <1>2 DEF TakeTaskLock, TakeCommitLock, CreateIntent, FillIntent, AllRefs, PCs
  <1>3. ASSUME NEW p \in Procs, Recheck(p) \/ LeaseIntent(p) \/ Assign(p) PROVE LocalTypes'
    BY <1>3 DEF Recheck, LeaseIntent, Assign, PCs
  <1>4. ASSUME NEW p \in Procs, Reserve(p) PROVE LocalTypes'
    <2>1. CASE Return(p)
      BY <2>1, ReturnTypes
    <2>2. CASE /\ head < MaxId
               /\ at' = [at EXCEPT ![p] = head + 1]
               /\ Goto(p, IF job[p] = "send" THEN "intent" ELSE "assign")
               /\ UNCHANGED <<job, left, target, walk>>
      <3>1. head + 1 \in 0..MaxId
        BY <2>2, BoundsAssumption DEF StoreTypes
      <3> QED
        BY <2>2, <3>1 DEF LocalTypes, Goto, PCs
    <2> QED
      BY <1>4, <2>1, <2>2 DEF Reserve
  <1>5. ASSUME NEW p \in Procs, Materialize(p) PROVE LocalTypes'
    <2>1. CASE Fail(p)
      BY <2>1, FailTypes
    <2>2. CASE /\ Goto(p, "ref")
               /\ left' = [left EXCEPT ![p] = message[at[p]].to]
               /\ UNCHANGED <<job, at, target, walk>>
      <3>1. at[p] \in Ids
        BY <1>5 DEF Materialize, At, StepsFit, IInv
      <3>2. message[at[p]].to \subseteq Recipients
        BY <3>1 DEF StoreTypes, Message
      <3> QED
        BY <2>2, <3>2 DEF LocalTypes, Goto, PCs
    <2> QED
      BY <1>5, <2>1, <2>2 DEF Materialize
  <1>6. ASSUME NEW p \in Procs,
                \/ (\E r \in Recipients : CheckDelivered(p, r)) \/ LinkRef(p)
         PROVE  LocalTypes'
    BY <1>6 DEF CheckDelivered, LinkRef, LocalTypes, Goto, PCs
  <1>7. ASSUME NEW p \in Procs, Retire(p) \/ Quarantine(p) \/ Refuse(p) PROVE LocalTypes'
    BY <1>7 DEF Retire, Quarantine, Refuse
  <1>8. ASSUME NEW p \in Procs, StartRecover(p) PROVE LocalTypes'
    BY <1>8 DEF StartRecover, LocalTypes, Goto, PCs, Jobs, Intents
  <1>9. ASSUME NEW p \in Procs, TakeUp(p) PROVE LocalTypes'
    <2>1. First(walk[p]) \in walk[p] /\ walk[p] \in SUBSET Ids
      BY <1>9, FirstIsOne DEF TakeUp, LocalTypes
    <2>2. First(walk[p]) \in 0..MaxId
      BY <2>1 DEF Ids
    <2> QED
      BY <1>9, <2>1, <2>2 DEF TakeUp, LocalTypes, Goto, PCs
  <1>10. ASSUME NEW p \in Procs,
                \/ EndRecover(p) \/ ListBroken(p) \/ ListIntents(p) \/ ListMessages(p)
                \/ EndRead(p) \/ Crash(p)
         PROVE  LocalTypes'
    BY <1>10 DEF EndRecover, ListBroken, ListIntents, ListMessages, EndRead, Crash,
       ListOrRefuse, PCs
  <1>11. ASSUME NEW p \in Procs, StartRead(p) PROVE LocalTypes'
    <2>1. PICK r \in Recipients : /\ target' = [target EXCEPT ![p] = r]
                                  /\ walk' = [walk EXCEPT ![p] = inbox[r]]
      BY <1>11 DEF StartRead
    <2>2. inbox[r] \in SUBSET Ids
      BY DEF StoreTypes
    <2>3. /\ pc' = [pc EXCEPT ![p] = "read"] /\ job' = [job EXCEPT ![p] = "read"]
          /\ UNCHANGED <<at, left>>
      BY <1>11 DEF StartRead, Goto
    <2> QED
      BY <2>1, <2>2, <2>3 DEF LocalTypes, PCs, Jobs
  <1>12. ASSUME NEW p \in Procs, MoveToHistory(p) PROVE LocalTypes'
    BY <1>12 DEF MoveToHistory, LocalTypes
  <1>13. ASSUME NEW p \in Procs, Close(p) PROVE LocalTypes'
    BY <1>13 DEF Close, LocalTypes, local
  <1>14. ASSUME NEW m \in Ids, Age(m) PROVE LocalTypes'
    BY <1>14 DEF Age, LocalTypes, local
  <1>15. CASE UNCHANGED vars
    BY <1>15 DEF vars, LocalTypes, local
  <1> QED
    BY <1>1, <1>2, <1>3, <1>4, <1>5, <1>6, <1>7, <1>8, <1>9, <1>10, <1>11, <1>12, <1>13, <1>14,
       <1>15 DEF Next, Step

\* So has the store.
LEMMA StoreTypeStep == IInv /\ [Next]_vars => StoreTypes'
  <1> SUFFICES ASSUME IInv, [Next]_vars PROVE StoreTypes'
    OBVIOUS
  <1>0. StoreTypes /\ LocalTypes
    BY TypesAreParts DEF IInv
  <1> USE <1>0 DEF StoreTypes
  <1>1. ASSUME NEW p \in Procs,
                \/ Begin(p) \/ TakeTaskLock(p) \/ TakeCommitLock(p) \/ Recheck(p)
                \/ (\E r \in Recipients : CheckDelivered(p, r)) \/ AllRefs(p)
                \/ StartRecover(p) \/ TakeUp(p)
                \/ EndRecover(p) \/ StartRead(p) \/ EndRead(p) \/ Crash(p)
                \/ Refuse(p)
         PROVE  StoreTypes'
    BY <1>1 DEF Begin, TakeTaskLock, TakeCommitLock, Recheck, CheckDelivered, AllRefs,
       StartRecover, TakeUp, EndRecover, StartRead, EndRead, Crash, Refuse, store
  <1>2. ASSUME NEW p \in Procs, ListBroken(p) \/ ListIntents(p) \/ ListMessages(p) PROVE StoreTypes'
    BY <1>2 DEF ListBroken, ListIntents, ListMessages, ListOrRefuse, store
  <1>3. ASSUME NEW p \in Procs, Reserve(p) PROVE StoreTypes'
    BY <1>3, BoundsAssumption DEF Reserve
  <1>4. ASSUME NEW p \in Procs, CreateIntent(p) \/ LeaseIntent(p) PROVE StoreTypes'
    BY <1>4 DEF CreateIntent, LeaseIntent
  <1>5. ASSUME NEW p \in Procs, FillIntent(p) PROVE StoreTypes'
    <2>1. PICK to \in SUBSET Recipients, assigns \in BOOLEAN :
             message' = [message EXCEPT ![at[p]] = [to |-> to, assigns |-> assigns]]
      BY <1>5 DEF FillIntent
    <2>2. message' \in [Ids -> Message]
      BY <2>1 DEF Message
    <2>3. /\ intent' \in [Ids -> {"none", "torn", "whole"}]
          /\ UNCHANGED <<active, head, lease, old, canon, inbox, history, quarantine, boundary>>
      BY <1>5 DEF FillIntent
    <2> QED
      BY <2>2, <2>3
  <1>6. ASSUME NEW p \in Procs, Assign(p) PROVE StoreTypes'
    <2>1. PICK who \in SUBSET Recipients :
             boundary' = [r \in Recipients |-> IF r \in who THEN at[p] ELSE boundary[r]]
      BY <1>6 DEF Assign
    <2>2. boundary' \in [Recipients -> 0..MaxId]
      BY <2>1 DEF LocalTypes
    <2> QED
      BY <1>6, <2>2 DEF Assign
  <1>7. ASSUME NEW p \in Procs, Materialize(p) PROVE StoreTypes'
    <2>1. at[p] \in Ids
      BY <1>7 DEF Materialize, At, StepsFit, IInv
    <2> QED
      BY <1>7, <2>1 DEF Materialize
  <1>8. ASSUME NEW p \in Procs, LinkRef(p) PROVE StoreTypes'
    <2>1. at[p] \in Ids
      BY <1>8 DEF LinkRef, At, StepsFit, IInv, Fans
    <2> QED
      BY <1>8, <2>1 DEF LinkRef
  <1>9. ASSUME NEW p \in Procs, Retire(p) PROVE StoreTypes'
    BY <1>9 DEF Retire
  <1>10. ASSUME NEW p \in Procs, Quarantine(p) PROVE StoreTypes'
    <2>1. at[p] \in Ids
      BY <1>10 DEF Quarantine, At, StepsFit, IInv
    <2> QED
      BY <1>10, <2>1 DEF Quarantine
  <1>11. ASSUME NEW p \in Procs, MoveToHistory(p) PROVE StoreTypes'
    <2>1. First(walk[p]) \in Ids
      BY <1>11, FirstIsOne DEF MoveToHistory, LocalTypes
    <2> QED
      BY <1>11, <2>1 DEF MoveToHistory
  <1>12. ASSUME NEW p \in Procs, Close(p) PROVE StoreTypes'
    BY <1>12 DEF Close
  <1>13. ASSUME NEW m \in Ids, Age(m) PROVE StoreTypes'
    BY <1>13 DEF Age
  <1>14. CASE UNCHANGED vars
    BY <1>14 DEF vars, store
  <1> QED
    BY <1>1, <1>2, <1>3, <1>4, <1>5, <1>6, <1>7, <1>8, <1>9, <1>10, <1>11, <1>12, <1>13, <1>14
       DEF Next, Step

\* And the locks and what callers were told.
LEMMA SharedTypeStep == IInv /\ [Next]_vars => SharedTypes'
  <1> SUFFICES ASSUME IInv, [Next]_vars PROVE SharedTypes'
    OBVIOUS
  <1>0. LocalTypes /\ SharedTypes
    BY TypesAreParts DEF IInv
  <1> USE <1>0 DEF SharedTypes
  <1>1. ASSUME NEW p \in Procs,
                \/ Begin(p) \/ StartRecover(p) \/ TakeUp(p) \/ EndRecover(p)
                \/ StartRead(p) \/ MoveToHistory(p) \/ EndRead(p) \/ Close(p)
                \/ (\E r \in Recipients : CheckDelivered(p, r)) \/ AllRefs(p) \/ LinkRef(p)
                \/ Materialize(p)
                \/ CreateIntent(p) \/ Quarantine(p)
         PROVE  SharedTypes'
    BY <1>1 DEF Begin, StartRecover, TakeUp, EndRecover, StartRead, MoveToHistory, EndRead,
       Close, CheckDelivered, AllRefs, LinkRef, Materialize, CreateIntent, Quarantine, locks,
       told
  <1>2. ASSUME NEW p \in Procs, TakeTaskLock(p) \/ TakeCommitLock(p) PROVE SharedTypes'
    BY <1>2 DEF TakeTaskLock, TakeCommitLock, told
  <1>3. ASSUME NEW p \in Procs,
                \/ Recheck(p) \/ Reserve(p) \/ LeaseIntent(p) \/ Assign(p)
         PROVE  SharedTypes'
    BY <1>3 DEF Recheck, Reserve, LeaseIntent, Assign, Unlock, locks, told
  <1>4. ASSUME NEW p \in Procs, ListBroken(p) \/ ListIntents(p) \/ ListMessages(p)
        PROVE SharedTypes'
    BY <1>4 DEF ListBroken, ListIntents, ListMessages, ListOrRefuse, Unlock, locks, told
  <1>5. ASSUME NEW p \in Procs, FillIntent(p) \/ Retire(p) PROVE SharedTypes'
    <2>1. at[p] \in Ids
      BY <1>5 DEF FillIntent, Retire, At, StepsFit, IInv, Fans, Writes
    <2> QED
      BY <1>5, <2>1 DEF FillIntent, Retire, locks
  <1>6. ASSUME NEW p \in Procs, Refuse(p) PROVE SharedTypes'
    BY <1>6, BoundsAssumption DEF Refuse, Unlock, locks
  <1>7. ASSUME NEW p \in Procs, Crash(p) PROVE SharedTypes'
    BY <1>7 DEF Crash, locks, told
  <1>8. ASSUME NEW m \in Ids, Age(m) PROVE SharedTypes'
    BY <1>8 DEF Age, locks, told
  <1>9. CASE UNCHANGED vars
    BY <1>9 DEF vars, locks, told
  <1> QED
    BY <1>1, <1>2, <1>3, <1>4, <1>5, <1>6, <1>7, <1>8, <1>9 DEF Next, Step

\* Every variable keeps its type.
LEMMA TypeStep == IInv /\ [Next]_vars => TypeOK'
  <1>1. TypeOK' <=> StoreTypes' /\ LocalTypes' /\ SharedTypes'
    BY DEF TypeOK, StoreTypes, LocalTypes, SharedTypes
  <1> QED
    BY <1>1, LocalTypeStep, StoreTypeStep, SharedTypeStep

----------------------------------------------------------------------------
(* Locks and ids.                                                           *)

\* Whoever is inside holds the locks.
LEMMA LocksStep == IInv /\ [Next]_vars => LocksHeld'
  <1> SUFFICES ASSUME IInv, [Next]_vars PROVE LocksHeld'
    OBVIOUS
  <1>0. LocalTypes /\ SharedTypes
    BY TypesAreParts DEF IInv
  <1> USE <1>0, NoneAssumption DEF LocksHeld, LocalTypes, SharedTypes, Inside, Ordered, At, Goto,
                                   Return, Free, IInv
  <1>1. ASSUME NEW p \in Procs,
                \/ Begin(p) \/ StartRecover(p) \/ TakeUp(p) \/ EndRecover(p)
                \/ StartRead(p) \/ MoveToHistory(p) \/ EndRead(p) \/ Close(p)
                \/ (\E r \in Recipients : CheckDelivered(p, r)) \/ AllRefs(p) \/ LinkRef(p)
                \/ Materialize(p)
                \/ Retire(p) \/ Quarantine(p)
         PROVE  LocksHeld'
    BY <1>1 DEF Begin, StartRecover, TakeUp, EndRecover, StartRead, MoveToHistory, EndRead,
       Close, CheckDelivered, AllRefs, LinkRef, Materialize, Retire, Quarantine, Advance, Fail,
       locks, local
  <1>2. ASSUME NEW p \in Procs, TakeTaskLock(p) \/ TakeCommitLock(p) PROVE LocksHeld'
    BY <1>2 DEF TakeTaskLock, TakeCommitLock
  <1>3. ASSUME NEW p \in Procs,
                \/ Recheck(p) \/ Reserve(p) \/ CreateIntent(p) \/ FillIntent(p)
                \/ LeaseIntent(p) \/ Assign(p)
         PROVE  LocksHeld'
    BY <1>3 DEF Recheck, Reserve, CreateIntent, FillIntent, LeaseIntent, Assign, Unlock, locks
  <1>4. ASSUME NEW p \in Procs, ListBroken(p) \/ ListIntents(p) \/ ListMessages(p) PROVE LocksHeld'
    BY <1>4 DEF ListBroken, ListIntents, ListMessages, ListOrRefuse, Unlock, locks
  <1>5. ASSUME NEW p \in Procs, Refuse(p) PROVE LocksHeld'
    BY <1>5 DEF Refuse, Unlock, locks, Fail
  <1>6. ASSUME NEW p \in Procs, Crash(p) PROVE LocksHeld'
    BY <1>6 DEF Crash, locks
  <1>7. ASSUME NEW m \in Ids, Age(m) PROVE LocksHeld'
    BY <1>7 DEF Age, locks
  <1>8. CASE UNCHANGED vars
    BY <1>8 DEF vars, locks, local
  <1> QED
    BY <1>1, <1>2, <1>3, <1>4, <1>5, <1>6, <1>7, <1>8 DEF Next, Step

\* The task stays open while somebody is inside with it open.
LEMMA OpenStep == IInv /\ [Next]_vars => OpenInside'
  <1> SUFFICES ASSUME IInv, [Next]_vars PROVE OpenInside'
    OBVIOUS
  <1>0. LocalTypes /\ SharedTypes /\ StoreTypes
    BY TypesAreParts DEF IInv
  <1> USE <1>0, NoneAssumption DEF OpenInside, LocalTypes, SharedTypes, Writes, At, Goto, Return,
                                   IInv
  <1>1. ASSUME NEW p \in Procs,
                \/ Begin(p) \/ StartRecover(p) \/ TakeUp(p) \/ EndRecover(p)
                \/ StartRead(p) \/ MoveToHistory(p) \/ EndRead(p)
                \/ (\E r \in Recipients : CheckDelivered(p, r))
                \/ AllRefs(p) \/ LinkRef(p) \/ Materialize(p) \/ Retire(p)
                \/ Quarantine(p)
         PROVE  OpenInside'
    BY <1>1 DEF Begin, StartRecover, TakeUp, EndRecover, StartRead, MoveToHistory, EndRead,
       CheckDelivered, AllRefs, LinkRef, Materialize, Retire, Quarantine, Advance, Fail, store,
       local
  <1>2. ASSUME NEW p \in Procs,
                \/ TakeTaskLock(p) \/ TakeCommitLock(p) \/ Recheck(p) \/ Reserve(p)
                \/ CreateIntent(p) \/ FillIntent(p) \/ LeaseIntent(p) \/ Assign(p)
         PROVE  OpenInside'
    BY <1>2 DEF TakeTaskLock, TakeCommitLock, Recheck, Reserve, CreateIntent, FillIntent,
       LeaseIntent, Assign, store
  <1>3. ASSUME NEW p \in Procs, ListBroken(p) \/ ListIntents(p) \/ ListMessages(p) PROVE OpenInside'
    BY <1>3 DEF ListBroken, ListIntents, ListMessages, ListOrRefuse, store
  <1>4. ASSUME NEW p \in Procs, Refuse(p) PROVE OpenInside'
    BY <1>4 DEF Refuse, Fail, store
  <1>5. ASSUME NEW p \in Procs, Close(p) PROVE OpenInside'
    BY <1>5 DEF Close, LocksHeld, Inside, Free
  <1>6. ASSUME NEW p \in Procs, Crash(p) PROVE OpenInside'
    BY <1>6 DEF Crash, store
  <1>7. ASSUME NEW m \in Ids, Age(m) PROVE OpenInside'
    BY <1>7 DEF Age
  <1>8. CASE UNCHANGED vars
    BY <1>8 DEF vars, store, local
  <1> QED
    BY <1>1, <1>2, <1>3, <1>4, <1>5, <1>6, <1>7, <1>8 DEF Next, Step

\* But for a reservation, the head stays, and an id a process comes to have
\* is one of the intents.
AtMoved ==
    /\ head' = head
    /\ \A q \in running' :
          /\ q \in running
          /\ \/ at'[q] = at[q] \/ at'[q] = 0
             \/ at'[q] \in Ids /\ intent[at'[q]] # "none"
          /\ pc'[q] \in Writes => pc[q] \in Writes /\ at'[q] = at[q]

\* Only a reservation moves the head.
LEMMA MoveStep == IInv /\ [Next]_vars => AtMoved \/ \E q \in Procs : Reserve(q)
  <1> SUFFICES ASSUME IInv, [Next]_vars PROVE AtMoved \/ \E q \in Procs : Reserve(q)
    OBVIOUS
  <1>0. LocalTypes /\ SharedTypes
    BY TypesAreParts DEF IInv
  <1> USE <1>0 DEF AtMoved, LocalTypes, SharedTypes, Writes, At, Goto, Return
  <1>1. ASSUME NEW p \in Procs,
                \/ Begin(p) \/ TakeTaskLock(p) \/ TakeCommitLock(p) \/ Recheck(p)
                \/ (\E r \in Recipients : CheckDelivered(p, r)) \/ AllRefs(p)
                \/ StartRecover(p) \/ EndRecover(p)
                \/ StartRead(p) \/ EndRead(p) \/ Crash(p)
         PROVE  AtMoved \/ \E q \in Procs : Reserve(q)
    BY <1>1 DEF Begin, TakeTaskLock, TakeCommitLock, Recheck, CheckDelivered, AllRefs,
       StartRecover, EndRecover, StartRead, EndRead, Crash, store, local
  <1>2. ASSUME NEW p \in Procs, ListBroken(p) \/ ListIntents(p) \/ ListMessages(p)
        PROVE AtMoved \/ \E q \in Procs : Reserve(q)
    BY <1>2 DEF ListBroken, ListIntents, ListMessages, ListOrRefuse, store, local
  <1>3. ASSUME NEW p \in Procs, Refuse(p) PROVE AtMoved \/ \E q \in Procs : Reserve(q)
    BY <1>3 DEF Refuse, Fail, store
  <1>4. ASSUME NEW p \in Procs, Reserve(p) PROVE AtMoved \/ \E q \in Procs : Reserve(q)
    BY <1>4 DEF Reserve
  <1>5. ASSUME NEW p \in Procs,
                \/ CreateIntent(p) \/ FillIntent(p) \/ LeaseIntent(p) \/ Assign(p)
         PROVE  AtMoved \/ \E q \in Procs : Reserve(q)
    BY <1>5 DEF CreateIntent, FillIntent, LeaseIntent, Assign, local
  <1>6. ASSUME NEW p \in Procs,
                \/ Materialize(p) \/ LinkRef(p) \/ Retire(p) \/ MoveToHistory(p)
         PROVE  AtMoved \/ \E q \in Procs : Reserve(q)
    BY <1>6 DEF Materialize, LinkRef, Retire, MoveToHistory, Advance, Fail, local
  <1>7. ASSUME NEW p \in Procs, TakeUp(p) PROVE AtMoved \/ \E q \in Procs : Reserve(q)
    <2>1. walk[p] \subseteq Ids /\ First(walk[p]) \in walk[p]
      BY <1>7, FirstIsOne DEF TakeUp
    <2> QED
      BY <1>7, <2>1 DEF TakeUp, store
  <1>8. ASSUME NEW p \in Procs, Quarantine(p) \/ Close(p)
        PROVE AtMoved \/ \E q \in Procs : Reserve(q)
    BY <1>8 DEF Quarantine, Close, Fail, local
  <1>9. ASSUME NEW m \in Ids, Age(m) PROVE AtMoved \/ \E q \in Procs : Reserve(q)
    BY <1>9 DEF Age, local
  <1>10. CASE UNCHANGED vars
    BY <1>10 DEF vars, store, local
  <1> QED
    BY <1>1, <1>2, <1>3, <1>4, <1>5, <1>6, <1>7, <1>8, <1>9, <1>10 DEF Next, Step

\* Who writes an id has the last one.
LEMMA WriterStep == IInv /\ [Next]_vars => WriterHasHead'
  <1> SUFFICES ASSUME IInv, [Next]_vars PROVE WriterHasHead'
    OBVIOUS
  <1>1. /\ head \in Nat /\ head' \in Nat /\ LocalTypes /\ SharedTypes
        /\ \A n \in 0..MaxId : n \in Nat
    BY StoreTypeStep, TypesAreParts, BoundsAssumption DEF StoreTypes, IInv
  <1>2. CASE AtMoved
    <2> SUFFICES ASSUME NEW q \in running'
                 PROVE  at'[q] <= head' /\ (pc'[q] \in Writes => at'[q] = head')
      BY DEF WriterHasHead
    <2>1. q \in running /\ at[q] <= head /\ (pc[q] \in Writes => at[q] = head)
      BY <1>2 DEF AtMoved, WriterHasHead, IInv
    <2>2. \A m \in Ids : intent[m] # "none" => m <= head
      BY <1>1 DEF MarksAreReserved, IInv, Ids
    <2> QED
      BY <1>1, <1>2, <2>1, <2>2 DEF AtMoved
  <1>3. ASSUME NEW p \in Procs, Reserve(p), head' # head PROVE WriterHasHead'
    <2>1. /\ head' = head + 1 /\ at' = [at EXCEPT ![p] = head + 1] /\ UNCHANGED running
          /\ \A q \in Procs : q # p => pc'[q] = pc[q]
          /\ p \in running /\ pc[p] = "reserve"
      BY <1>1, <1>3 DEF Reserve, Goto, LocalTypes, At
    <2>2. \A q \in running : q # p => pc[q] \notin Writes
      BY <1>1, <2>1, NoneAssumption DEF IInv, LocksHeld, Inside, Ordered, Writes
    <2> QED
      BY <1>1, <2>1, <2>2 DEF WriterHasHead, IInv, LocalTypes, SharedTypes
  <1>4. ASSUME NEW p \in Procs, Reserve(p), head' = head PROVE WriterHasHead'
    <2>1. Return(p) /\ UNCHANGED running
      BY <1>1, <1>4 DEF Reserve
    <2>2. AtMoved
      BY <1>1, <1>4, <2>1 DEF AtMoved, Return, Goto, LocalTypes, SharedTypes, Writes
    <2> QED
      BY <1>2, <2>2
  <1> QED
    BY <1>2, <1>3, <1>4, MoveStep

\* The head only rises.
LEMMA HeadRises == IInv /\ [Next]_vars => head \in Nat /\ head' \in Nat /\ head <= head'
  <1> SUFFICES ASSUME IInv, [Next]_vars PROVE head \in Nat /\ head' \in Nat /\ head <= head'
    OBVIOUS
  <1>1. head \in Nat /\ head' \in Nat
    BY StoreTypeStep, TypesAreParts, BoundsAssumption DEF StoreTypes, IInv
  <1>2. head' = head \/ head' = head + 1
    BY MoveStep DEF AtMoved, Reserve
  <1> QED
    BY <1>1, <1>2

\* Only an assignment moves a boundary.
LEMMA BoundaryMoves == IInv /\ [Next]_vars => boundary' = boundary \/ \E q \in Procs : Assign(q)
  <1> SUFFICES ASSUME IInv, [Next]_vars PROVE boundary' = boundary \/ \E q \in Procs : Assign(q)
    OBVIOUS
  <1>1. ASSUME NEW p \in Procs,
                \/ Begin(p) \/ TakeTaskLock(p) \/ TakeCommitLock(p) \/ Recheck(p)
                \/ (\E r \in Recipients : CheckDelivered(p, r)) \/ AllRefs(p)
                \/ StartRecover(p) \/ TakeUp(p)
                \/ EndRecover(p) \/ StartRead(p) \/ EndRead(p) \/ Crash(p)
                \/ Refuse(p)
         PROVE  boundary' = boundary \/ \E q \in Procs : Assign(q)
    BY <1>1 DEF Begin, TakeTaskLock, TakeCommitLock, Recheck, CheckDelivered, AllRefs,
       StartRecover, TakeUp, EndRecover, StartRead, EndRead, Crash, Refuse, store
  <1>2. ASSUME NEW p \in Procs, ListBroken(p) \/ ListIntents(p) \/ ListMessages(p)
        PROVE boundary' = boundary \/ \E q \in Procs : Assign(q)
    BY <1>2 DEF ListBroken, ListIntents, ListMessages, ListOrRefuse, store
  <1>3. ASSUME NEW p \in Procs, Reserve(p) \/ CreateIntent(p) \/ FillIntent(p)
        PROVE boundary' = boundary \/ \E q \in Procs : Assign(q)
    BY <1>3 DEF Reserve, CreateIntent, FillIntent
  <1>4. ASSUME NEW p \in Procs, LeaseIntent(p) \/ Materialize(p) \/ LinkRef(p)
        PROVE boundary' = boundary \/ \E q \in Procs : Assign(q)
    BY <1>4 DEF LeaseIntent, Materialize, LinkRef
  <1>5. ASSUME NEW p \in Procs, Retire(p) \/ Quarantine(p) \/ MoveToHistory(p)
        PROVE boundary' = boundary \/ \E q \in Procs : Assign(q)
    BY <1>5 DEF Retire, Quarantine, MoveToHistory
  <1>6. ASSUME NEW p \in Procs, Assign(p) PROVE boundary' = boundary \/ \E q \in Procs : Assign(q)
    BY <1>6 DEF Assign
  <1>7. ASSUME NEW p \in Procs, Close(p) PROVE boundary' = boundary \/ \E q \in Procs : Assign(q)
    BY <1>7 DEF Close
  <1>8. ASSUME NEW m \in Ids, Age(m) PROVE boundary' = boundary \/ \E q \in Procs : Assign(q)
    BY <1>8 DEF Age
  <1>9. CASE UNCHANGED vars
    BY <1>9 DEF vars, store
  <1> QED
    BY <1>1, <1>2, <1>3, <1>4, <1>5, <1>6, <1>7, <1>8, <1>9 DEF Next, Step

\* It moves it to the last id.
LEMMA AssignsHead ==
    ASSUME IInv, [Next]_vars, NEW r \in Recipients
    PROVE  boundary'[r] = boundary[r] \/ boundary'[r] = head
  <1>1. CASE boundary' = boundary
    BY <1>1
  <1>2. ASSUME NEW p \in Procs, Assign(p) PROVE boundary'[r] = boundary[r] \/ boundary'[r] = head
    <2>1. at[p] = head
      BY <1>2 DEF Assign, At, IInv, WriterHasHead, Writes
    <2> QED
      BY <1>2, <2>1 DEF Assign
  <1> QED
    BY <1>1, <1>2, BoundaryMoves

\* No boundary is above the head: the one an assignment sets is the head itself.
LEMMA BoundaryStep == IInv /\ [Next]_vars => BoundaryIsReserved'
  <1> SUFFICES ASSUME IInv, [Next]_vars, NEW r \in Recipients PROVE boundary'[r] <= head'
    BY DEF BoundaryIsReserved
  <1>1. boundary[r] \in Nat /\ boundary[r] <= head
    BY TypesAreParts, BoundsAssumption DEF IInv, StoreTypes, BoundaryIsReserved
  <1> QED
    BY <1>1, AssignsHead, HeadRises

\* What comes to be marked, or to be an intent, is an intent or being written.
Written(m) == \E p \in running : pc[p] \in Writes /\ at[p] = m
MarksMoved ==
    \A m \in Ids :
        /\ intent'[m] # "none" => intent[m] # "none" \/ Written(m)
        /\ m \in committed' => m \in committed \/ Written(m)
        /\ m \in old' \cup quarantine' => m \in old \cup quarantine \/ intent[m] # "none"

\* Marks come with writing.
LEMMA MarkStep == IInv /\ [Next]_vars => MarksMoved
  <1> SUFFICES ASSUME IInv, [Next]_vars PROVE MarksMoved
    OBVIOUS
  <1>0. StoreTypes
    BY TypesAreParts DEF IInv
  <1> USE <1>0 DEF MarksMoved, StoreTypes, Written
  <1>1. ASSUME NEW p \in Procs,
                \/ Begin(p) \/ TakeTaskLock(p) \/ TakeCommitLock(p) \/ Recheck(p)
                \/ (\E r \in Recipients : CheckDelivered(p, r)) \/ AllRefs(p)
                \/ StartRecover(p) \/ TakeUp(p)
                \/ EndRecover(p) \/ StartRead(p) \/ EndRead(p) \/ Crash(p)
                \/ Refuse(p)
         PROVE  MarksMoved
    BY <1>1 DEF Begin, TakeTaskLock, TakeCommitLock, Recheck, CheckDelivered, AllRefs,
       StartRecover, TakeUp, EndRecover, StartRead, EndRead, Crash, Refuse, store, told
  <1>2. ASSUME NEW p \in Procs, ListBroken(p) \/ ListIntents(p) \/ ListMessages(p) PROVE MarksMoved
    BY <1>2 DEF ListBroken, ListIntents, ListMessages, ListOrRefuse, store, told
  <1>3. ASSUME NEW p \in Procs, Reserve(p) \/ LeaseIntent(p) PROVE MarksMoved
    BY <1>3 DEF Reserve, LeaseIntent, told
  <1>4. ASSUME NEW p \in Procs, Assign(p) \/ Materialize(p) \/ LinkRef(p) PROVE MarksMoved
    BY <1>4 DEF Assign, Materialize, LinkRef, told
  <1>5. ASSUME NEW p \in Procs, Retire(p) PROVE MarksMoved
    BY <1>5 DEF Retire
  <1>6. ASSUME NEW p \in Procs, Quarantine(p) PROVE MarksMoved
    BY <1>6 DEF Quarantine, told
  <1>7. ASSUME NEW p \in Procs, MoveToHistory(p) PROVE MarksMoved
    BY <1>7 DEF MoveToHistory, told
  <1>8. ASSUME NEW p \in Procs, CreateIntent(p) \/ FillIntent(p) PROVE MarksMoved
    <2>1. Written(at[p])
      BY <1>8 DEF CreateIntent, FillIntent, At, Writes
    <2>2. \A m \in Ids : m # at[p] => intent'[m] = intent[m]
      BY <1>8 DEF CreateIntent, FillIntent
    <2>3. committed' \subseteq committed \cup {at[p]} /\ UNCHANGED <<old, quarantine>>
      BY <1>8 DEF CreateIntent, FillIntent, told
    <2> HIDE DEF Written
    <2> QED
      BY <2>1, <2>2, <2>3
  <1>9. ASSUME NEW p \in Procs, Close(p) PROVE MarksMoved
    BY <1>9 DEF Close, told
  <1>10. ASSUME NEW m \in Ids, Age(m) PROVE MarksMoved
    BY <1>10 DEF Age, Intents, told
  <1>11. CASE UNCHANGED vars
    BY <1>11 DEF vars, store, told
  <1> QED
    BY <1>1, <1>2, <1>3, <1>4, <1>5, <1>6, <1>7, <1>8, <1>9, <1>10, <1>11 DEF Next, Step

\* Nothing is published, retired or quarantined under an id above the head.
LEMMA ReservedStep == IInv /\ [Next]_vars => MarksAreReserved'
  <1> SUFFICES ASSUME IInv, [Next]_vars, NEW m \in Ids, m > head'
               PROVE  intent'[m] = "none" /\ m \notin committed' \cup old' \cup quarantine'
    BY DEF MarksAreReserved
  <1>1. m \in Nat /\ m > head /\ ~(m <= head)
    BY HeadRises DEF Ids
  <1>2. intent[m] = "none" /\ m \notin committed \cup old \cup quarantine
    BY <1>1 DEF IInv, MarksAreReserved
  <1>3. ~Written(m)
    BY <1>1 DEF Written, IInv, WriterHasHead
  <1> QED
    BY <1>2, <1>3, MarkStep DEF MarksMoved

----------------------------------------------------------------------------
(* How far a message has come.                                              *)

\* What a place says of the call stays true.
LEMMA FitStep == IInv /\ [Next]_vars => StepsFit'
  <1> SUFFICES ASSUME IInv, [Next]_vars PROVE StepsFit'
    OBVIOUS
  <1>0. /\ LocalTypes /\ SharedTypes /\ StoreTypes /\ StepsFit /\ RecordsAreTrue
        /\ LocksHeld /\ MarksAreReserved
    BY TypesAreParts DEF IInv
  <1> USE <1>0, NoneAssumption DEF StepsFit, LocalTypes, SharedTypes, StoreTypes, Writes,
                                   Unwritten, Fans, At, Goto, Return
  <1>1. ASSUME NEW p \in Procs,
                \/ Begin(p) \/ TakeTaskLock(p) \/ TakeCommitLock(p) \/ Recheck(p)
         PROVE  StepsFit'
    BY <1>1 DEF Begin, TakeTaskLock, TakeCommitLock, Recheck, store, told, local
  <1>2. ASSUME NEW p \in Procs,
                \/ (\E r \in Recipients : CheckDelivered(p, r)) \/ AllRefs(p)
         PROVE  StepsFit'
    BY <1>2 DEF CheckDelivered, AllRefs, store, told, local
  <1>3. ASSUME NEW p \in Procs, StartRecover(p) \/ EndRecover(p) PROVE StepsFit'
    BY <1>3 DEF StartRecover, EndRecover, store, told, local
  <1>4. ASSUME NEW p \in Procs, StartRead(p) \/ EndRead(p) \/ Crash(p) PROVE StepsFit'
    BY <1>4 DEF StartRead, EndRead, Crash, store, told, local
  <1>5. ASSUME NEW p \in Procs, ListBroken(p) \/ ListIntents(p) \/ ListMessages(p) PROVE StepsFit'
    BY <1>5 DEF ListBroken, ListIntents, ListMessages, ListOrRefuse, store, told, local
  <1>6. ASSUME NEW p \in Procs, Refuse(p) PROVE StepsFit'
    BY <1>6 DEF Refuse, Fail, store
  <1>7. ASSUME NEW p \in Procs, Reserve(p) PROVE StepsFit'
    <2>1. CASE Return(p)
      BY <1>7, <2>1 DEF Reserve, told
    <2>2. CASE /\ head < MaxId /\ at' = [at EXCEPT ![p] = head + 1]
               /\ Goto(p, IF job[p] = "send" THEN "intent" ELSE "assign")
               /\ UNCHANGED <<job, left, target, walk>>
      <3>1. head + 1 \in Ids /\ head + 1 > head
        BY <2>2, BoundsAssumption DEF Ids
      <3>2. head + 1 \notin committed
        BY <3>1 DEF MarksAreReserved
      <3>3. job[p] # "send" => pc'[p] = "assign"
        BY <2>2
      <3> QED
        BY <1>7, <2>2, <3>1, <3>2 DEF Reserve, told
    <2> QED
      BY <1>7, <2>1, <2>2 DEF Reserve
  <1>8. ASSUME NEW p \in Procs, CreateIntent(p) PROVE StepsFit'
    BY <1>8 DEF CreateIntent, told, local
  <1>9. ASSUME NEW p \in Procs, FillIntent(p) PROVE StepsFit'
    BY <1>9 DEF FillIntent, local, LocksHeld, Inside, Ordered
  <1>10. ASSUME NEW p \in Procs, LeaseIntent(p) PROVE StepsFit'
    BY <1>10 DEF LeaseIntent, told, local
  <1>11. ASSUME NEW p \in Procs, Assign(p) PROVE StepsFit'
    BY <1>11 DEF Assign, told, local
  <1>12. ASSUME NEW p \in Procs, Materialize(p) PROVE StepsFit'
    BY <1>12 DEF Materialize, Fail, told
  <1>13. ASSUME NEW p \in Procs, LinkRef(p) PROVE StepsFit'
    BY <1>13 DEF LinkRef, told
  <1>14. ASSUME NEW p \in Procs, Retire(p) PROVE StepsFit'
    BY <1>14 DEF Retire, Advance, local
  <1>15. ASSUME NEW p \in Procs, TakeUp(p) PROVE StepsFit'
    <2>1. walk[p] # {} /\ walk[p] \subseteq Ids
      BY <1>15 DEF TakeUp
    <2>2. /\ First(walk[p]) \in Ids
          /\ (intent[First(walk[p])] = "whole" => First(walk[p]) \in committed)
      BY <2>1, FirstIsOne DEF RecordsAreTrue
    <2>3. intent[First(walk[p])] \in {"none", "torn", "whole"}
      BY <2>2
    <2> QED
      BY <1>15, <2>2, <2>3 DEF TakeUp, store, told
  <1>16. ASSUME NEW p \in Procs, Quarantine(p) PROVE StepsFit'
    BY <1>16 DEF Quarantine, Fail, told
  <1>17. ASSUME NEW p \in Procs, MoveToHistory(p) PROVE StepsFit'
    BY <1>17 DEF MoveToHistory, told
  <1>18. ASSUME NEW p \in Procs, Close(p) PROVE StepsFit'
    BY <1>18 DEF Close, told, local
  <1>19. ASSUME NEW m \in Ids, Age(m) PROVE StepsFit'
    BY <1>19 DEF Age, told, local
  <1>20. CASE UNCHANGED vars
    BY <1>20 DEF vars, store, told, local
  <1> QED
    BY <1>1, <1>2, <1>3, <1>4, <1>5, <1>6, <1>7, <1>8, <1>9, <1>10, <1>11, <1>12, <1>13, <1>14,
       <1>15, <1>16, <1>17, <1>18, <1>19, <1>20 DEF Next, Step

\* The records stay true.
LEMMA RecordStep == IInv /\ [Next]_vars => RecordsAreTrue'
  <1> SUFFICES ASSUME IInv, [Next]_vars PROVE RecordsAreTrue'
    OBVIOUS
  <1>0. /\ LocalTypes /\ SharedTypes /\ StoreTypes /\ StepsFit /\ RecordsAreTrue
    BY TypesAreParts DEF IInv
  <1> USE <1>0 DEF StepsFit, LocalTypes, SharedTypes, StoreTypes, Writes, Unwritten, Fans, At,
                   RecordsAreTrue
  <1>1. ASSUME NEW p \in Procs,
                \/ Begin(p) \/ TakeTaskLock(p) \/ TakeCommitLock(p) \/ Recheck(p)
                \/ (\E r \in Recipients : CheckDelivered(p, r)) \/ AllRefs(p)
                \/ StartRecover(p) \/ TakeUp(p)
                \/ EndRecover(p) \/ StartRead(p) \/ EndRead(p) \/ Crash(p)
                \/ Refuse(p)
         PROVE  RecordsAreTrue'
    BY <1>1 DEF Begin, TakeTaskLock, TakeCommitLock, Recheck, CheckDelivered, AllRefs,
       StartRecover, TakeUp, EndRecover, StartRead, EndRead, Crash, Refuse, store, told
  <1>2. ASSUME NEW p \in Procs, ListBroken(p) \/ ListIntents(p) \/ ListMessages(p)
        PROVE RecordsAreTrue'
    BY <1>2 DEF ListBroken, ListIntents, ListMessages, ListOrRefuse, store, told
  <1>3. ASSUME NEW p \in Procs, Reserve(p) \/ Assign(p) PROVE RecordsAreTrue'
    BY <1>3 DEF Reserve, Assign, told
  <1>4. ASSUME NEW p \in Procs, CreateIntent(p) PROVE RecordsAreTrue'
    BY <1>4 DEF CreateIntent, told
  <1>5. ASSUME NEW p \in Procs, FillIntent(p) PROVE RecordsAreTrue'
    BY <1>5 DEF FillIntent
  <1>6. ASSUME NEW p \in Procs, LeaseIntent(p) PROVE RecordsAreTrue'
    BY <1>6, NoneAssumption DEF LeaseIntent, told
  <1>7. ASSUME NEW p \in Procs, Materialize(p) PROVE RecordsAreTrue'
    BY <1>7 DEF Materialize, told
  <1>8. ASSUME NEW p \in Procs, LinkRef(p) \/ MoveToHistory(p) \/ Close(p) PROVE RecordsAreTrue'
    BY <1>8 DEF LinkRef, MoveToHistory, Close, told
  <1>9. ASSUME NEW p \in Procs, Retire(p) PROVE RecordsAreTrue'
    BY <1>9 DEF Retire
  <1>10. ASSUME NEW p \in Procs, Quarantine(p) PROVE RecordsAreTrue'
    BY <1>10 DEF Quarantine, told
  <1>11. ASSUME NEW m \in Ids, Age(m) PROVE RecordsAreTrue'
    BY <1>11 DEF Age, told
  <1>12. CASE UNCHANGED vars
    BY <1>12 DEF vars, store, told
  <1> QED
    BY <1>1, <1>2, <1>3, <1>4, <1>5, <1>6, <1>7, <1>8, <1>9, <1>10, <1>11, <1>12 DEF Next, Step

\* Refs keep to the canon.
LEMMA RefStep == IInv /\ [Next]_vars => RefsHaveCanon'
  <1> SUFFICES ASSUME IInv, [Next]_vars PROVE RefsHaveCanon'
    OBVIOUS
  <1>0. /\ LocalTypes /\ SharedTypes /\ StoreTypes /\ StepsFit /\ RecordsAreTrue
    BY TypesAreParts DEF IInv
  <1> USE <1>0 DEF StepsFit, LocalTypes, SharedTypes, StoreTypes, Writes, Unwritten, Fans, At
  <1>1. ASSUME NEW p \in Procs,
                \/ Begin(p) \/ TakeTaskLock(p) \/ TakeCommitLock(p) \/ Recheck(p)
                \/ (\E r \in Recipients : CheckDelivered(p, r)) \/ AllRefs(p)
                \/ StartRecover(p) \/ TakeUp(p)
                \/ EndRecover(p) \/ StartRead(p) \/ EndRead(p) \/ Crash(p)
                \/ Refuse(p)
         PROVE  RefsHaveCanon'
    BY <1>1 DEF Begin, TakeTaskLock, TakeCommitLock, Recheck, CheckDelivered, AllRefs,
       StartRecover, TakeUp, EndRecover, StartRead, EndRead, Crash, Refuse, IInv, RefsHaveCanon,
       store, told
  <1>2. ASSUME NEW p \in Procs, ListBroken(p) \/ ListIntents(p) \/ ListMessages(p)
        PROVE RefsHaveCanon'
    BY <1>2 DEF ListBroken, ListIntents, ListMessages, IInv, RefsHaveCanon, ListOrRefuse, store,
       told
  <1>3. ASSUME NEW p \in Procs,
                \/ Reserve(p) \/ Assign(p) \/ CreateIntent(p) \/ LeaseIntent(p)
                \/ Close(p)
         PROVE  RefsHaveCanon'
    BY <1>3 DEF Reserve, Assign, CreateIntent, LeaseIntent, Close, IInv, RefsHaveCanon, told
  <1>4. ASSUME NEW p \in Procs, FillIntent(p) \/ Retire(p) PROVE RefsHaveCanon'
    BY <1>4 DEF FillIntent, Retire, IInv, RefsHaveCanon
  <1>5. ASSUME NEW p \in Procs, Materialize(p) PROVE RefsHaveCanon'
    BY <1>5 DEF Materialize, IInv, RefsHaveCanon, told
  <1>6. ASSUME NEW p \in Procs, LinkRef(p) PROVE RefsHaveCanon'
    <2>1. at[p] \in canon \cap committed
      BY <1>6 DEF LinkRef
    <2>2. /\ \A r \in Recipients : inbox'[r] \subseteq inbox[r] \cup {at[p]}
          /\ UNCHANGED <<canon, committed, history>>
      BY <1>6 DEF LinkRef, told
    <2> QED
      BY <2>1, <2>2 DEF IInv, RefsHaveCanon
  <1>7. ASSUME NEW p \in Procs, MoveToHistory(p) PROVE RefsHaveCanon'
    <2>1. \A r \in Recipients : inbox'[r] \cup history'[r] = inbox[r] \cup history[r]
      BY <1>7 DEF MoveToHistory
    <2> QED
      BY <1>7, <2>1 DEF MoveToHistory, told, IInv, RefsHaveCanon
  <1>8. ASSUME NEW p \in Procs, Quarantine(p) PROVE RefsHaveCanon'
    BY <1>8 DEF Quarantine, IInv, RefsHaveCanon, told
  <1>9. ASSUME NEW m \in Ids, Age(m) PROVE RefsHaveCanon'
    BY <1>9 DEF Age, IInv, RefsHaveCanon, told
  <1>10. CASE UNCHANGED vars
    BY <1>10 DEF vars, store, told, IInv, RefsHaveCanon
  <1> QED
    BY <1>1, <1>2, <1>3, <1>4, <1>5, <1>6, <1>7, <1>8, <1>9, <1>10 DEF Next, Step

\* What facts saw stays so while they hold the locks.
LEMMA FactsStep == IInv /\ [Next]_vars => FactsHaveSeen'
  <1> SUFFICES ASSUME IInv, [Next]_vars PROVE FactsHaveSeen'
    OBVIOUS
  <1>0. /\ LocalTypes /\ SharedTypes /\ StoreTypes /\ FactsHaveSeen /\ LocksHeld
    BY TypesAreParts DEF IInv
  <1> USE <1>0, NoneAssumption DEF FactsHaveSeen, LocalTypes, SharedTypes, StoreTypes, At, Goto,
                                   Return
  <1>1. ASSUME NEW p \in Procs,
                \/ Begin(p) \/ TakeTaskLock(p) \/ Recheck(p)
                \/ (\E r \in Recipients : CheckDelivered(p, r))
                \/ AllRefs(p) \/ StartRecover(p) \/ TakeUp(p) \/ EndRecover(p)
                \/ StartRead(p) \/ EndRead(p) \/ Crash(p) \/ TakeCommitLock(p)
         PROVE  FactsHaveSeen'
    BY <1>1 DEF Begin, TakeTaskLock, Recheck, CheckDelivered, AllRefs, StartRecover, TakeUp,
       EndRecover, StartRead, EndRead, Crash, TakeCommitLock, store
  <1>2. ASSUME NEW p \in Procs, Refuse(p) PROVE FactsHaveSeen'
    BY <1>2 DEF Refuse, store, Fail
  <1>3. ASSUME NEW p \in Procs, ListBroken(p) \/ ListIntents(p) PROVE FactsHaveSeen'
    BY <1>3 DEF ListBroken, ListIntents, ListOrRefuse, store, Intents
  <1>4. ASSUME NEW p \in Procs, ListMessages(p) PROVE FactsHaveSeen'
    BY <1>4 DEF ListMessages, ListOrRefuse, store
  <1>5. ASSUME NEW p \in Procs, Reserve(p) \/ Assign(p) PROVE FactsHaveSeen'
    BY <1>5 DEF Reserve, Assign
  <1>6. ASSUME NEW p \in Procs, CreateIntent(p) \/ FillIntent(p) PROVE FactsHaveSeen'
    BY <1>6 DEF CreateIntent, FillIntent, LocksHeld, Ordered, Inside
  <1>7. ASSUME NEW p \in Procs, LeaseIntent(p) \/ Close(p) PROVE FactsHaveSeen'
    BY <1>7 DEF LeaseIntent, Close, local
  <1>8. ASSUME NEW p \in Procs, Materialize(p) \/ MoveToHistory(p) \/ LinkRef(p)
        PROVE FactsHaveSeen'
    BY <1>8 DEF Materialize, MoveToHistory, LinkRef, Fail
  <1>9. ASSUME NEW p \in Procs, Retire(p) PROVE FactsHaveSeen'
    BY <1>9 DEF Retire, Free, LocksHeld, Ordered, Inside, Advance, local
  <1>10. ASSUME NEW p \in Procs, Quarantine(p) PROVE FactsHaveSeen'
    BY <1>10 DEF Quarantine, Free, LocksHeld, Ordered, Inside, Fail
  <1>11. ASSUME NEW m \in Ids, Age(m) PROVE FactsHaveSeen'
    BY <1>11 DEF Age, Intents
  <1>12. CASE UNCHANGED vars
    BY <1>12 DEF vars, store, local
  <1> QED
    BY <1>1, <1>2, <1>3, <1>4, <1>5, <1>6, <1>7, <1>8, <1>9, <1>10, <1>11, <1>12 DEF Next, Step

----------------------------------------------------------------------------
(* Mail.                                                                    *)

\* A delivered message stays delivered, and a committed one as it is.
DeliveriesStay ==
    /\ \A m \in Ids : \A r \in Recipients : Delivered(m, r) => Delivered(m, r)'
    /\ \A m \in committed : message'[m] = message[m]

\* No step takes mail away or rewrites it.
LEMMA StayStep == IInv /\ [Next]_vars => DeliveriesStay
  <1> SUFFICES ASSUME IInv, [Next]_vars PROVE DeliveriesStay
    OBVIOUS
  <1>0. /\ LocalTypes /\ SharedTypes /\ StoreTypes /\ StepsFit /\ RecordsAreTrue
    BY TypesAreParts DEF IInv
  <1> USE <1>0 DEF StepsFit, LocalTypes, SharedTypes, StoreTypes, Writes, Unwritten, Fans, At,
                   Delivered, DeliveriesStay
  <1>1. ASSUME NEW p \in Procs,
                \/ Begin(p) \/ TakeTaskLock(p) \/ TakeCommitLock(p) \/ Recheck(p)
                \/ (\E r \in Recipients : CheckDelivered(p, r)) \/ AllRefs(p)
                \/ StartRecover(p) \/ TakeUp(p)
                \/ EndRecover(p) \/ StartRead(p) \/ EndRead(p) \/ Crash(p)
                \/ Refuse(p)
         PROVE  DeliveriesStay
    BY <1>1 DEF Begin, TakeTaskLock, TakeCommitLock, Recheck, CheckDelivered, AllRefs,
       StartRecover, TakeUp, EndRecover, StartRead, EndRead, Crash, Refuse, store
  <1>2. ASSUME NEW p \in Procs, ListBroken(p) \/ ListIntents(p) \/ ListMessages(p)
        PROVE DeliveriesStay
    BY <1>2 DEF ListBroken, ListIntents, ListMessages, ListOrRefuse, store
  <1>3. ASSUME NEW p \in Procs,
                \/ Reserve(p) \/ Assign(p) \/ CreateIntent(p) \/ LeaseIntent(p)
                \/ Close(p)
         PROVE  DeliveriesStay
    BY <1>3 DEF Reserve, Assign, CreateIntent, LeaseIntent, Close
  <1>4. ASSUME NEW p \in Procs, Retire(p) \/ Materialize(p) \/ Quarantine(p) PROVE DeliveriesStay
    BY <1>4 DEF Retire, Materialize, Quarantine
  <1>5. ASSUME NEW p \in Procs, FillIntent(p) PROVE DeliveriesStay
    BY <1>5 DEF FillIntent
  <1>6. ASSUME NEW p \in Procs, LinkRef(p) PROVE DeliveriesStay
    BY <1>6 DEF LinkRef
  <1>7. ASSUME NEW p \in Procs, MoveToHistory(p) PROVE DeliveriesStay
    <2>1. \A r \in Recipients : inbox'[r] \cup history'[r] = inbox[r] \cup history[r]
      BY <1>7 DEF MoveToHistory
    <2> QED
      BY <1>7, <2>1 DEF MoveToHistory
  <1>8. ASSUME NEW m \in Ids, Age(m) PROVE DeliveriesStay
    BY <1>8 DEF Age
  <1>9. CASE UNCHANGED vars
    BY <1>9 DEF vars, store
  <1> QED
    BY <1>1, <1>2, <1>3, <1>4, <1>5, <1>6, <1>7, <1>8, <1>9 DEF Next, Step

\* A step that leaves the fan-outs where they are leaves what they placed.
LEMMA UnmovedFanouts ==
    ASSUME IInv, [Next]_vars,
           \A q \in running' :
              /\ q \in running
              /\ pc'[q] \in Fans => pc'[q] = pc[q] /\ at'[q] = at[q] /\ left'[q] = left[q]
    PROVE  FanoutHasPlaced'
  <1> SUFFICES ASSUME NEW q \in running', pc'[q] \in Fans, NEW r \in message'[at'[q]].to,
                      pc'[q] = "retire" \/ r \notin left'[q]
               PROVE  Delivered(at[q], r)' /\ at'[q] = at[q]
    BY DEF FanoutHasPlaced, Fans
  <1>1. /\ q \in running /\ pc'[q] = pc[q] /\ at'[q] = at[q] /\ left'[q] = left[q]
    OBVIOUS
  <1>2. at[q] \in Ids /\ at[q] \in committed
    BY <1>1 DEF IInv, StepsFit, Fans
  <1>3. message'[at[q]] = message[at[q]] /\ message[at[q]].to \subseteq Recipients
    BY <1>2, StayStep, TypesAreParts DEF DeliveriesStay, IInv, StoreTypes, Message
  <1>4. Delivered(at[q], r)
    BY <1>1, <1>3 DEF IInv, FanoutHasPlaced, Fans
  <1> QED
    BY <1>1, <1>2, <1>3, <1>4, StayStep DEF DeliveriesStay

\* What a fan-out placed stays placed.
LEMMA PlacedStep == IInv /\ [Next]_vars => FanoutHasPlaced'
  <1> SUFFICES ASSUME IInv, [Next]_vars PROVE FanoutHasPlaced'
    OBVIOUS
  <1>0. /\ LocalTypes /\ SharedTypes /\ StoreTypes /\ StepsFit /\ FanoutHasPlaced /\ DeliveriesStay
    BY TypesAreParts, StayStep DEF IInv
  <1>1. ASSUME NEW p \in Procs,
                \/ Begin(p) \/ TakeTaskLock(p) \/ TakeCommitLock(p) \/ Recheck(p)
                \/ StartRecover(p) \/ TakeUp(p) \/ EndRecover(p) \/ StartRead(p)
                \/ EndRead(p) \/ Crash(p)
         PROVE  FanoutHasPlaced'
    <2>1. \A q \in running' :
             /\ q \in running
             /\ pc'[q] \in Fans => pc'[q] = pc[q] /\ at'[q] = at[q] /\ left'[q] = left[q]
      BY <1>0, <1>1 DEF Begin, TakeTaskLock, TakeCommitLock, Recheck, StartRecover, TakeUp,
         EndRecover, StartRead, EndRead, Crash, local, LocalTypes, SharedTypes, Fans, At, Goto,
         Return
    <2> QED
      BY <2>1, UnmovedFanouts
  <1>2. ASSUME NEW p \in Procs, ListBroken(p) \/ ListIntents(p) \/ ListMessages(p)
        PROVE FanoutHasPlaced'
    <2>1. \A q \in running' :
             /\ q \in running
             /\ pc'[q] \in Fans => pc'[q] = pc[q] /\ at'[q] = at[q] /\ left'[q] = left[q]
      BY <1>0, <1>2 DEF ListBroken, ListIntents, ListMessages, ListOrRefuse, local, LocalTypes,
         SharedTypes, Fans, At, Goto, Return
    <2> QED
      BY <2>1, UnmovedFanouts
  <1>3. ASSUME NEW p \in Procs,
                \/ Reserve(p) \/ CreateIntent(p) \/ FillIntent(p) \/ LeaseIntent(p)
                \/ Assign(p)
         PROVE  FanoutHasPlaced'
    <2>1. \A q \in running' :
             /\ q \in running
             /\ pc'[q] \in Fans => pc'[q] = pc[q] /\ at'[q] = at[q] /\ left'[q] = left[q]
      BY <1>0, <1>3 DEF Reserve, CreateIntent, FillIntent, LeaseIntent, Assign, local,
         LocalTypes, SharedTypes, Fans, At, Goto, Return
    <2> QED
      BY <2>1, UnmovedFanouts
  <1>4. ASSUME NEW p \in Procs,
                \/ Refuse(p) \/ Retire(p) \/ Quarantine(p) \/ MoveToHistory(p)
                \/ Close(p)
         PROVE  FanoutHasPlaced'
    <2>1. \A q \in running' :
             /\ q \in running
             /\ pc'[q] \in Fans => pc'[q] = pc[q] /\ at'[q] = at[q] /\ left'[q] = left[q]
      BY <1>0, <1>4 DEF Refuse, Retire, Quarantine, MoveToHistory, Close, Fail, Advance, local,
         LocalTypes, SharedTypes, Fans, At, Goto, Return
    <2> QED
      BY <2>1, UnmovedFanouts
  <1>5. ASSUME NEW p \in Procs, AllRefs(p) PROVE FanoutHasPlaced'
    BY <1>5, <1>0 DEF AllRefs, FanoutHasPlaced, DeliveriesStay, StepsFit, LocalTypes,
       SharedTypes, StoreTypes, Message, Writes, Unwritten, Fans, At, Goto, Return, store, local
  <1>6. ASSUME NEW p \in Procs, (\E r \in Recipients : CheckDelivered(p, r)) PROVE FanoutHasPlaced'
    BY <1>6, <1>0 DEF CheckDelivered, FanoutHasPlaced, DeliveriesStay, StepsFit, LocalTypes,
       SharedTypes, StoreTypes, Message, Writes, Unwritten, Fans, At, Goto, Return, store, local
  <1>7. ASSUME NEW p \in Procs, Materialize(p) PROVE FanoutHasPlaced'
    BY <1>7, <1>0 DEF Materialize, FanoutHasPlaced, DeliveriesStay, StepsFit, LocalTypes,
       SharedTypes, StoreTypes, Message, Writes, Unwritten, Fans, At, Goto, Return, Fail
  <1>8. ASSUME NEW p \in Procs, LinkRef(p) PROVE FanoutHasPlaced'
    BY <1>8, <1>0 DEF LinkRef, FanoutHasPlaced, DeliveriesStay, StepsFit, LocalTypes,
       SharedTypes, StoreTypes, Message, Writes, Unwritten, Fans, At, Goto, Return, Delivered
  <1>9. ASSUME NEW m \in Ids, Age(m) PROVE FanoutHasPlaced'
    <2>1. \A q \in running' :
             /\ q \in running
             /\ pc'[q] \in Fans => pc'[q] = pc[q] /\ at'[q] = at[q] /\ left'[q] = left[q]
      BY <1>0, <1>9 DEF Age, local, LocalTypes, SharedTypes, Fans, At, Goto, Return
    <2> QED
      BY <2>1, UnmovedFanouts
  <1>10. CASE UNCHANGED vars
    BY <1>0, <1>10 DEF vars, store, local, FanoutHasPlaced, Delivered
  <1> QED
    BY <1>1, <1>2, <1>3, <1>4, <1>5, <1>6, <1>7, <1>8, <1>9, <1>10 DEF Next, Step

\* No mail is lost.
LEMMA LossStep == IInv /\ [Next]_vars => NoMailLost'
  <1> SUFFICES ASSUME IInv, [Next]_vars PROVE NoMailLost'
    OBVIOUS
  <1>0. /\ LocalTypes /\ SharedTypes /\ StoreTypes /\ StepsFit /\ FanoutHasPlaced /\ DeliveriesStay
        /\ RecordsAreTrue /\ NoMailLost /\ AckedIsDelivered
    BY TypesAreParts, StayStep DEF IInv
  <1> USE <1>0 DEF StepsFit, LocalTypes, SharedTypes, StoreTypes, DeliveriesStay, Message,
                   Writes, Unwritten, Fans, At, RecordsAreTrue, NoMailLost
  <1>1. ASSUME NEW p \in Procs,
                \/ Begin(p) \/ TakeTaskLock(p) \/ TakeCommitLock(p) \/ Recheck(p)
                \/ (\E r \in Recipients : CheckDelivered(p, r)) \/ AllRefs(p)
                \/ StartRecover(p) \/ TakeUp(p)
                \/ EndRecover(p) \/ StartRead(p) \/ EndRead(p) \/ Crash(p)
                \/ Refuse(p)
         PROVE  NoMailLost'
    BY <1>1 DEF Begin, TakeTaskLock, TakeCommitLock, Recheck, CheckDelivered, AllRefs,
       StartRecover, TakeUp, EndRecover, StartRead, EndRead, Crash, Refuse, store, told
  <1>2. ASSUME NEW p \in Procs, ListBroken(p) \/ ListIntents(p) \/ ListMessages(p) PROVE NoMailLost'
    BY <1>2 DEF ListBroken, ListIntents, ListMessages, ListOrRefuse, store, told
  <1>3. ASSUME NEW p \in Procs,
                \/ Reserve(p) \/ Assign(p) \/ CreateIntent(p) \/ LeaseIntent(p)
                \/ Close(p)
         PROVE  NoMailLost'
    BY <1>3 DEF Reserve, Assign, CreateIntent, LeaseIntent, Close, told
  <1>4. ASSUME NEW p \in Procs, Materialize(p) \/ Quarantine(p) PROVE NoMailLost'
    BY <1>4 DEF Materialize, Quarantine, told
  <1>5. ASSUME NEW p \in Procs, LinkRef(p) \/ MoveToHistory(p) PROVE NoMailLost'
    BY <1>5 DEF LinkRef, MoveToHistory, told
  <1>6. ASSUME NEW p \in Procs, Retire(p) PROVE NoMailLost'
    BY <1>6 DEF Retire, FanoutHasPlaced, told
  <1>7. ASSUME NEW p \in Procs, FillIntent(p) PROVE NoMailLost'
    <2>1. /\ committed' = committed \cup {at[p]} /\ intent'[at[p]] = "whole" /\ at[p] \in Ids
          /\ \A m \in committed : intent'[m] = intent[m]
          /\ quarantine' = quarantine
      BY <1>7, <1>0 DEF FillIntent, StepsFit, StoreTypes, At, Writes, Unwritten
    <2> SUFFICES ASSUME NEW m \in committed', NEW r \in message'[m].to
                 PROVE  Delivered(m, r)' \/ intent'[m] = "whole" \/ m \in quarantine'
      BY DEF NoMailLost
    <2>2. CASE m = at[p]
      BY <2>1, <2>2
    <2>3. CASE m \in committed
      <3>1. message'[m] = message[m] /\ message[m].to \subseteq Recipients /\ m \in Ids
        BY <1>0, <2>3 DEF DeliveriesStay, StoreTypes, SharedTypes, Message
      <3>2. Delivered(m, r) \/ intent[m] = "whole" \/ m \in quarantine
        BY <1>0, <2>3, <3>1 DEF NoMailLost
      <3> QED
        BY <1>0, <2>1, <2>3, <3>1, <3>2 DEF DeliveriesStay
    <2> QED
      BY <2>1, <2>2, <2>3
  <1>8. ASSUME NEW m \in Ids, Age(m) PROVE NoMailLost'
    BY <1>8 DEF Age, told
  <1>9. CASE UNCHANGED vars
    BY <1>9 DEF vars, store, told, Delivered
  <1> QED
    BY <1>1, <1>2, <1>3, <1>4, <1>5, <1>6, <1>7, <1>8, <1>9 DEF Next, Step

\* A success is true.
LEMMA AckStep == IInv /\ [Next]_vars => AckedIsDelivered'
  <1> SUFFICES ASSUME IInv, [Next]_vars PROVE AckedIsDelivered'
    OBVIOUS
  <1>0. /\ LocalTypes /\ SharedTypes /\ StoreTypes /\ StepsFit /\ FanoutHasPlaced /\ DeliveriesStay
        /\ RecordsAreTrue /\ NoMailLost /\ AckedIsDelivered
    BY TypesAreParts, StayStep DEF IInv
  <1> USE <1>0 DEF StepsFit, LocalTypes, SharedTypes, StoreTypes, DeliveriesStay, Message,
                   Writes, Unwritten, Fans, At, RecordsAreTrue, AckedIsDelivered
  <1>1. ASSUME NEW p \in Procs,
                \/ Begin(p) \/ TakeTaskLock(p) \/ TakeCommitLock(p) \/ Recheck(p)
                \/ (\E r \in Recipients : CheckDelivered(p, r)) \/ AllRefs(p)
                \/ StartRecover(p) \/ TakeUp(p)
                \/ EndRecover(p) \/ StartRead(p) \/ EndRead(p) \/ Crash(p)
                \/ Refuse(p)
         PROVE  AckedIsDelivered'
    BY <1>1 DEF Begin, TakeTaskLock, TakeCommitLock, Recheck, CheckDelivered, AllRefs,
       StartRecover, TakeUp, EndRecover, StartRead, EndRead, Crash, Refuse, store, told
  <1>2. ASSUME NEW p \in Procs, ListBroken(p) \/ ListIntents(p) \/ ListMessages(p)
        PROVE AckedIsDelivered'
    BY <1>2 DEF ListBroken, ListIntents, ListMessages, ListOrRefuse, store, told
  <1>3. ASSUME NEW p \in Procs,
                \/ Reserve(p) \/ Assign(p) \/ CreateIntent(p) \/ LeaseIntent(p)
                \/ Close(p)
         PROVE  AckedIsDelivered'
    BY <1>3 DEF Reserve, Assign, CreateIntent, LeaseIntent, Close, told
  <1>4. ASSUME NEW p \in Procs, Materialize(p) \/ Quarantine(p) PROVE AckedIsDelivered'
    BY <1>4 DEF Materialize, Quarantine, told
  <1>5. ASSUME NEW p \in Procs, LinkRef(p) \/ MoveToHistory(p) PROVE AckedIsDelivered'
    BY <1>5 DEF LinkRef, MoveToHistory, told
  <1>6. ASSUME NEW p \in Procs, Retire(p) PROVE AckedIsDelivered'
    BY <1>6 DEF Retire, FanoutHasPlaced, told
  <1>7. ASSUME NEW p \in Procs, FillIntent(p) PROVE AckedIsDelivered'
    BY <1>7 DEF FillIntent
  <1>8. ASSUME NEW m \in Ids, Age(m) PROVE AckedIsDelivered'
    BY <1>8 DEF Age, told
  <1>9. CASE UNCHANGED vars
    BY <1>9 DEF vars, store, told, Delivered
  <1> QED
    BY <1>1, <1>2, <1>3, <1>4, <1>5, <1>6, <1>7, <1>8, <1>9 DEF Next, Step

\* Records of writers that do not stall are not set aside.
LEMMA OldStep == IInv /\ [Next]_vars => OldIsDead'
  <1> SUFFICES ASSUME IInv, [Next]_vars PROVE OldIsDead'
    OBVIOUS
  <1>0. /\ LocalTypes /\ SharedTypes /\ StoreTypes /\ StepsFit /\ RecordsAreTrue
        /\ LocksHeld /\ MarksAreReserved /\ OldIsDead
    BY TypesAreParts DEF IInv
  <1> USE <1>0, NoneAssumption DEF OldIsDead, StepsFit, LocalTypes, SharedTypes, StoreTypes,
                                   Writes, Unwritten, Fans, At, Goto, Return
  <1>1. ASSUME NEW p \in Procs,
                \/ Begin(p) \/ TakeTaskLock(p) \/ TakeCommitLock(p) \/ Recheck(p)
         PROVE  OldIsDead'
    BY <1>1 DEF Begin, TakeTaskLock, TakeCommitLock, Recheck, store, told, local
  <1>2. ASSUME NEW p \in Procs,
                \/ (\E r \in Recipients : CheckDelivered(p, r)) \/ AllRefs(p)
         PROVE  OldIsDead'
    BY <1>2 DEF CheckDelivered, AllRefs, store, told, local
  <1>3. ASSUME NEW p \in Procs, StartRecover(p) \/ EndRecover(p) PROVE OldIsDead'
    BY <1>3 DEF StartRecover, EndRecover, store, told, local
  <1>4. ASSUME NEW p \in Procs, StartRead(p) \/ EndRead(p) \/ Crash(p) PROVE OldIsDead'
    BY <1>4 DEF StartRead, EndRead, Crash, store, told, local
  <1>5. ASSUME NEW p \in Procs, ListBroken(p) \/ ListIntents(p) \/ ListMessages(p) PROVE OldIsDead'
    BY <1>5 DEF ListBroken, ListIntents, ListMessages, ListOrRefuse, store, told, local
  <1>6. ASSUME NEW p \in Procs, Refuse(p) PROVE OldIsDead'
    BY <1>6 DEF Refuse, Fail, store
  <1>7. ASSUME NEW p \in Procs, Reserve(p) PROVE OldIsDead'
    <2>1. CASE Return(p)
      BY <1>7, <2>1 DEF Reserve, told
    <2>2. CASE /\ head < MaxId /\ at' = [at EXCEPT ![p] = head + 1]
               /\ Goto(p, IF job[p] = "send" THEN "intent" ELSE "assign")
      <3>1. head + 1 \in Ids /\ head + 1 > head /\ \A q \in running : at[q] # head + 1
        BY <2>2, BoundsAssumption DEF Ids, IInv, WriterHasHead
      <3>2. head + 1 \notin old \cup quarantine
        BY <3>1 DEF MarksAreReserved
      <3>3. job[p] # "send" => pc'[p] = "assign"
        BY <2>2
      <3>4. UNCHANGED <<running, committed, old, quarantine>>
        BY <1>7 DEF Reserve, told
      <3>5. \A q \in running : pc'[q] \in Unwritten =>
                \/ q = p /\ at'[q] = head + 1
                \/ q # p /\ at'[q] = at[q] /\ pc'[q] = pc[q]
        BY <2>2
      <3>6. \A q \in running : pc'[q] = "torn" => at'[q] = at[q] /\ pc'[q] = pc[q]
        BY <2>2
      <3> QED
        BY <3>1, <3>2, <3>4, <3>5, <3>6
    <2> QED
      BY <1>7, <2>1, <2>2 DEF Reserve
  <1>8. ASSUME NEW p \in Procs, CreateIntent(p) PROVE OldIsDead'
    BY <1>8 DEF CreateIntent, told, local
  <1>9. ASSUME NEW p \in Procs, FillIntent(p) PROVE OldIsDead'
    BY <1>9 DEF FillIntent, local
  <1>10. ASSUME NEW p \in Procs, LeaseIntent(p) \/ Close(p) PROVE OldIsDead'
    BY <1>10 DEF LeaseIntent, Close, told, local
  <1>11. ASSUME NEW p \in Procs, Assign(p) PROVE OldIsDead'
    <2>1. /\ UNCHANGED <<running, committed, old, quarantine>>
          /\ Return(p) \/ (Goto(p, "canon") /\ UNCHANGED at)
      BY <1>11 DEF Assign, told, local
    <2> QED
      BY <2>1
  <1>12. ASSUME NEW p \in Procs, Materialize(p) PROVE OldIsDead'
    BY <1>12 DEF Materialize, Fail, told
  <1>13. ASSUME NEW p \in Procs, LinkRef(p) \/ MoveToHistory(p) PROVE OldIsDead'
    BY <1>13 DEF LinkRef, MoveToHistory, told
  <1>14. ASSUME NEW p \in Procs, Retire(p) PROVE OldIsDead'
    <2>1. UNCHANGED <<running, committed, old, quarantine>>
      BY <1>14 DEF Retire
    <2>2. pc[p] = "retire" /\ (Return(p) \/ (Goto(p, "walk") /\ UNCHANGED at))
      BY <1>14 DEF Retire, Advance, local
    <2>3. \A q \in running : pc'[q] \in Unwritten \cup {"torn"} => pc'[q] = pc[q] /\ at'[q] = at[q]
      BY <2>2
    <2> QED
      BY <2>1, <2>3
  <1>15. ASSUME NEW p \in Procs, Quarantine(p) PROVE OldIsDead'
    <2>1. /\ UNCHANGED <<running, committed, old>> /\ quarantine' \subseteq quarantine \cup {at[p]}
          /\ p \in running /\ pc[p] = "torn" /\ Fail(p)
      BY <1>15 DEF Quarantine, told
    <2>2. \A q \in running : pc'[q] \in Unwritten \cup {"torn"} => pc'[q] = pc[q] /\ at'[q] = at[q]
      BY <2>1 DEF Fail
    <2> QED
      BY <2>1, <2>2
  <1>16. ASSUME NEW p \in Procs, TakeUp(p) PROVE OldIsDead'
    <2> DEFINE m == First(walk[p])
    <2>1. m \in Ids
      BY <1>16, FirstIsOne DEF TakeUp
    <2> HIDE DEF m
    <2>2. pc'[p] = "torn" => at'[p] = m /\ intent[m] = "torn" /\ Abandoned(p, m)
      BY <1>16 DEF TakeUp, m
    <2>3. intent[m] = "torn" /\ Abandoned(p, m) => m \notin committed /\ m \in old
      BY <2>1 DEF Abandoned, RecordsAreTrue
    <2>4. /\ UNCHANGED <<running, committed, old, quarantine>> /\ p \in running /\ pc[p] = "walk"
          /\ pc'[p] \notin Unwritten
          /\ \A q \in running : q # p => pc'[q] = pc[q] /\ at'[q] = at[q]
      BY <1>16 DEF TakeUp, store, told
    <2> QED
      BY <2>2, <2>3, <2>4
  <1>17. ASSUME NEW m \in Ids, Age(m) PROVE OldIsDead'
    BY <1>17 DEF Age, told, local, Intents, Writing
  <1>18. CASE UNCHANGED vars
    BY <1>18 DEF vars, store, told, local
  <1> QED
    BY <1>1, <1>2, <1>3, <1>4, <1>5, <1>6, <1>7, <1>8, <1>9, <1>10, <1>11, <1>12, <1>13, <1>14,
       <1>15, <1>16, <1>17, <1>18 DEF Next, Step

\* Nor is a committed record.
LEMMA TornStep == IInv /\ [Next]_vars => (~SlowWriters => QuarantineIsTorn)'
  <1> SUFFICES ASSUME IInv, [Next]_vars PROVE (~SlowWriters => QuarantineIsTorn)'
    OBVIOUS
  <1>0. SharedTypes /\ OldIsDead /\ (~SlowWriters => QuarantineIsTorn)
    BY TypesAreParts DEF IInv
  <1> USE <1>0 DEF QuarantineIsTorn, At
  <1>1. ASSUME NEW p \in Procs,
                \/ Begin(p) \/ TakeTaskLock(p) \/ TakeCommitLock(p) \/ Recheck(p)
                \/ (\E r \in Recipients : CheckDelivered(p, r)) \/ AllRefs(p)
                \/ StartRecover(p) \/ TakeUp(p)
                \/ EndRecover(p) \/ StartRead(p) \/ EndRead(p) \/ Crash(p)
                \/ Refuse(p)
         PROVE  (~SlowWriters => QuarantineIsTorn)'
    BY <1>1 DEF Begin, TakeTaskLock, TakeCommitLock, Recheck, CheckDelivered, AllRefs,
       StartRecover, TakeUp, EndRecover, StartRead, EndRead, Crash, Refuse, store, told
  <1>2. ASSUME NEW p \in Procs, ListBroken(p) \/ ListIntents(p) \/ ListMessages(p)
        PROVE (~SlowWriters => QuarantineIsTorn)'
    BY <1>2 DEF ListBroken, ListIntents, ListMessages, ListOrRefuse, store, told
  <1>3. ASSUME NEW p \in Procs,
                \/ Reserve(p) \/ Assign(p) \/ CreateIntent(p) \/ LeaseIntent(p)
                \/ Close(p)
         PROVE  (~SlowWriters => QuarantineIsTorn)'
    BY <1>3 DEF Reserve, Assign, CreateIntent, LeaseIntent, Close, told
  <1>4. ASSUME NEW p \in Procs, Materialize(p) \/ Retire(p)
        PROVE (~SlowWriters => QuarantineIsTorn)'
    BY <1>4 DEF Materialize, Retire, told
  <1>5. ASSUME NEW p \in Procs, LinkRef(p) \/ MoveToHistory(p)
        PROVE (~SlowWriters => QuarantineIsTorn)'
    BY <1>5 DEF LinkRef, MoveToHistory, told
  <1>6. ASSUME NEW p \in Procs, Quarantine(p) PROVE (~SlowWriters => QuarantineIsTorn)'
    BY <1>6 DEF Quarantine, OldIsDead, told
  <1>7. ASSUME NEW p \in Procs, FillIntent(p) PROVE (~SlowWriters => QuarantineIsTorn)'
    BY <1>7 DEF FillIntent, OldIsDead, Unwritten
  <1>8. ASSUME NEW m \in Ids, Age(m) PROVE (~SlowWriters => QuarantineIsTorn)'
    BY <1>8 DEF Age, told
  <1>9. CASE UNCHANGED vars
    BY <1>9 DEF vars, store, told
  <1> QED
    BY <1>1, <1>2, <1>3, <1>4, <1>5, <1>6, <1>7, <1>8, <1>9 DEF Next, Step

\* A message is committed, and a boundary raised, in an open task only.
LEMMA CommitStep == IInv /\ [Next]_vars => (~active => committed' = committed
    /\ boundary' = boundary)
  <1> SUFFICES ASSUME IInv, [Next]_vars
               PROVE (~active => committed' = committed /\ boundary' = boundary)
    OBVIOUS
  <1>1. ASSUME NEW p \in Procs,
                \/ Begin(p) \/ TakeTaskLock(p) \/ TakeCommitLock(p) \/ Recheck(p)
                \/ (\E r \in Recipients : CheckDelivered(p, r)) \/ AllRefs(p)
                \/ StartRecover(p) \/ TakeUp(p)
                \/ EndRecover(p) \/ StartRead(p) \/ EndRead(p) \/ Crash(p)
                \/ Refuse(p)
         PROVE  (~active => committed' = committed /\ boundary' = boundary)
    BY <1>1 DEF Begin, TakeTaskLock, TakeCommitLock, Recheck, CheckDelivered, AllRefs,
       StartRecover, TakeUp, EndRecover, StartRead, EndRead, Crash, Refuse, store, told
  <1>2. ASSUME NEW p \in Procs, ListBroken(p) \/ ListIntents(p) \/ ListMessages(p)
        PROVE (~active => committed' = committed /\ boundary' = boundary)
    BY <1>2 DEF ListBroken, ListIntents, ListMessages, ListOrRefuse, store, told
  <1>3. ASSUME NEW p \in Procs,
                \/ Reserve(p) \/ CreateIntent(p) \/ LeaseIntent(p) \/ Close(p)
         PROVE  (~active => committed' = committed /\ boundary' = boundary)
    BY <1>3 DEF Reserve, CreateIntent, LeaseIntent, Close, told
  <1>4. ASSUME NEW p \in Procs,
                \/ Materialize(p) \/ Retire(p) \/ Quarantine(p) \/ LinkRef(p)
                \/ MoveToHistory(p)
         PROVE  (~active => committed' = committed /\ boundary' = boundary)
    BY <1>4 DEF Materialize, Retire, Quarantine, LinkRef, MoveToHistory, told
  <1>5. ASSUME NEW p \in Procs, FillIntent(p) \/ Assign(p)
        PROVE (~active => committed' = committed /\ boundary' = boundary)
    <2>1. active
      BY <1>5 DEF FillIntent, Assign, At, IInv, OpenInside, Writes
    <2> QED
      BY <2>1
  <1>6. ASSUME NEW m \in Ids, Age(m)
        PROVE (~active => committed' = committed /\ boundary' = boundary)
    BY <1>6 DEF Age, told
  <1>7. CASE UNCHANGED vars
    BY <1>7 DEF vars, store, told
  <1> QED
    BY <1>1, <1>2, <1>3, <1>4, <1>5, <1>6, <1>7 DEF Next, Step

----------------------------------------------------------------------------
(* Theorems.                                                                *)

\* The invariant holds at first.
LEMMA InitIInv == Init => IInv
  <1> SUFFICES ASSUME Init PROVE IInv
    OBVIOUS
  <1> USE DEF Init
  <1>1. StoreTypes
    BY BoundsAssumption DEF StoreTypes, Message, Blank
  <1>2. LocalTypes
    BY BoundsAssumption DEF LocalTypes, PCs, Jobs
  <1>3. SharedTypes
    BY BoundsAssumption DEF SharedTypes
  <1>4. LocksHeld /\ OpenInside /\ StepsFit /\ FactsHaveSeen /\ FanoutHasPlaced /\ OldIsDead
    BY DEF LocksHeld, OpenInside, StepsFit, FactsHaveSeen, FanoutHasPlaced, OldIsDead,
           Inside, Ordered, Writes, Unwritten, Fans
  <1>5. WriterHasHead /\ BoundaryIsReserved /\ MarksAreReserved
    BY DEF WriterHasHead, BoundaryIsReserved, MarksAreReserved, Writes
  <1>6. RecordsAreTrue /\ RefsHaveCanon /\ NoMailLost /\ AckedIsDelivered /\ QuarantineIsTorn
    BY DEF RecordsAreTrue, RefsHaveCanon, NoMailLost, AckedIsDelivered, QuarantineIsTorn
  <1> QED
    BY <1>1, <1>2, <1>3, <1>4, <1>5, <1>6, TypesAreParts DEF IInv

\* Every step keeps it.
LEMMA InductiveStep == IInv /\ [Next]_vars => IInv'
  <1> SUFFICES ASSUME IInv, [Next]_vars PROVE IInv'
    OBVIOUS
  <1>1. TypeOK' /\ LocksHeld' /\ OpenInside' /\ StepsFit'
    BY TypeStep, LocksStep, OpenStep, FitStep
  <1>2. WriterHasHead' /\ BoundaryIsReserved' /\ MarksAreReserved'
    BY WriterStep, BoundaryStep, ReservedStep
  <1>3. RecordsAreTrue' /\ RefsHaveCanon' /\ FactsHaveSeen' /\ FanoutHasPlaced'
    BY RecordStep, RefStep, FactsStep, PlacedStep
  <1>4. NoMailLost' /\ AckedIsDelivered' /\ OldIsDead' /\ (~SlowWriters => QuarantineIsTorn)'
    BY LossStep, AckStep, OldStep, TornStep
  <1> QED
    BY <1>1, <1>2, <1>3, <1>4 DEF IInv

\* So it holds throughout.
LEMMA Invariant == Spec => []IInv
  BY InitIInv, InductiveStep, PTL DEF Spec

\* messages.ts, engine.ts: whatever processes send, recover, read and die, a
\* ref leads to a committed message, and a facts listing misses none.
THEOREM StoreConsistent == Spec => []StoreIsConsistent
  <1>1. IInv => FactsComplete
    <2> SUFFICES ASSUME IInv, NEW p \in running, pc[p] = "messages", NEW m \in committed
                 PROVE  m \in canon
      BY DEF FactsComplete
    <2>1. m \in Ids
      BY DEF IInv, TypeOK
    <2>2. quarantine = {} /\ intent[m] = "none"
      BY <2>1 DEF IInv, FactsHaveSeen
    <2> QED
      BY <2>2 DEF IInv, RecordsAreTrue
  <1>2. IInv => StoreIsConsistent
    BY <1>1 DEF IInv, StoreIsConsistent
  <1> QED
    BY <1>2, Invariant, PTL

\* messages.ts: no mail disappears, as long as no writer stalls for the age at
\* which its intent is taken for abandoned: not before it is delivered, not as
\* torn, and not behind a success.
THEOREM MailKept == ASSUME ~SlowWriters PROVE Spec => []MailIsKept
  <1>1. IInv => MailIsKept
    BY DEF IInv, MailIsKept
  <1> QED
    BY <1>1, Invariant, PTL

\* messages.ts: and whoever stalls, a message past its commit point is owed
\* or placed, or lies where facts will not pass over it.
THEOREM MailOwed == Spec => [](NoMailLost /\ AckedIsDelivered)
  <1>1. IInv => NoMailLost /\ AckedIsDelivered
    BY DEF IInv
  <1> QED
    BY <1>1, Invariant, PTL

\* store.ts, closeTask: no message is committed to a closed task, and no
\* assignment boundary raised in it, by whoever was admitted before.
THEOREM CloseIsBarrier == Spec => NoCommitAfterClose
  <1>1. IInv /\ [Next]_vars => [~active => committed' = committed /\ boundary' = boundary]_vars
    BY CommitStep
  <1> QED
    BY <1>1, Invariant, PTL DEF Spec, NoCommitAfterClose

\* engine.ts, assignParticipant: boundaries only rise.
THEOREM BoundariesRise == Spec => BoundaryRises
  <1>1. IInv /\ [Next]_vars => [\A r \in Recipients : boundary'[r] >= boundary[r]]_vars
    <2> SUFFICES ASSUME IInv, [Next]_vars, NEW r \in Recipients PROVE boundary'[r] >= boundary[r]
      OBVIOUS
    <2>1. boundary[r] \in Nat /\ boundary[r] <= head
      BY TypesAreParts, BoundsAssumption DEF IInv, StoreTypes, BoundaryIsReserved
    <2> QED
      BY <2>1, AssignsHead, HeadRises
  <1> QED
    BY <1>1, Invariant, PTL DEF Spec, BoundaryRises

-----------------------------------------------------------------------------
(* MessageOrder.  Its inductive invariant is its types together with        *)
(* HeadBoundsEvidence itself.                                               *)

OrderInv == OrderTypeOK /\ HeadBoundsEvidence

\* Less is a strict order on ids.
LEMMA LessTransitive ==
    ASSUME NEW a \in Id, NEW b \in Id, NEW c \in Id, AtMost(a, b), Less(b, c)
    PROVE  Less(a, c)
  BY OrderBounds DEF Id, Less, AtMost

\* The next id is an id, and above the head it follows.
LEMMA SuccIsAbove ==
    ASSUME NEW h \in Id \cup {NoId}, clock \in 0..MaxStamp, Succ(h).stamp <= MaxStamp
    PROVE  Succ(h) \in Id /\ (h # NoId => Less(h, Succ(h)))
  <1>1. CASE h = NoId \/ clock > h.stamp
    BY <1>1, OrderBounds DEF Succ, Id, Less
  <1>2. CASE h # NoId /\ ~(clock > h.stamp) /\ h.counter < MaxCounter
    <2>1. h \in Id
      BY <1>2
    <2>2. Succ(h) = [stamp |-> h.stamp, counter |-> h.counter + 1]
      BY <1>2, <2>1 DEF Succ, Id
    <2> QED
      BY <1>2, <2>1, <2>2, OrderBounds DEF Id, Less
  <1>3. CASE h # NoId /\ ~(clock > h.stamp) /\ ~(h.counter < MaxCounter)
    <2>1. h \in Id
      BY <1>3
    <2>2. Succ(h) = [stamp |-> h.stamp + 1, counter |-> 0]
      BY <1>3 DEF Succ
    <2> QED
      BY <1>3, <2>1, <2>2, OrderBounds DEF Id, Less
  <1> QED
    BY <1>1, <1>2, <1>3

\* What a reservation returns is above everything on disk.
LEMMA ReservedIsAbove ==
    ASSUME OrderInv, ReserveMessageId
    PROVE  /\ reserved' = Succ(Base) /\ reserved' \in Id
           /\ \A r \in retained : Less(r, reserved')
           /\ file = "valid" /\ headId # NoId => Less(headId, reserved')
  <1> USE NoIdAssumption DEF OrderInv, OrderTypeOK
  <1>1. Base \in Id \cup {NoId}
    BY DEF Base
  <1>2. Succ(Base) \in Id /\ (Base # NoId => Less(Base, Succ(Base)))
    BY <1>1, SuccIsAbove DEF ReserveMessageId
  <1>3. ASSUME NEW r \in retained PROVE Less(r, Succ(Base))
    <2>1. file = "valid" /\ Base = headId /\ headId # NoId /\ AtMost(r, headId)
      BY <1>3 DEF ReserveMessageId, BaseIsKnown, Base, HeadBoundsEvidence
    <2> QED
      BY <1>2, <2>1, LessTransitive
  <1> QED
    BY <1>2, <1>3 DEF ReserveMessageId, Base

LEMMA OrderInitially == OrderInit => OrderInv
  <1> SUFFICES ASSUME OrderInit PROVE OrderInv
    OBVIOUS
  <1>1. clock \in 0..MaxStamp
    BY OrderBounds DEF OrderInit
  <1>2. file = "missing" /\ headId = NoId /\ reserved = NoId /\ retained = {} /\ unreadable = FALSE
    BY DEF OrderInit
  <1> QED
    BY <1>1, <1>2 DEF OrderInv, OrderTypeOK, HeadBoundsEvidence

\* Every operation keeps the head above the evidence.
LEMMA OrderStep == OrderInv /\ [OrderNext]_orderVars => OrderInv'
  <1> SUFFICES ASSUME OrderInv, [OrderNext]_orderVars PROVE OrderInv'
    OBVIOUS
  <1> USE NoIdAssumption DEF OrderInv, OrderTypeOK, HeadBoundsEvidence
  <1>1. CASE ReserveMessageId
    BY <1>1, ReservedIsAbove DEF ReserveMessageId, AtMost
  <1>2. CASE Publish \/ LoseReservation
    BY <1>2 DEF Publish, LoseReservation
  <1>3. CASE RebuildMessageOrder
    <2>1. CASE retained = {} /\ headId' = Base
      BY <1>3, <2>1 DEF RebuildMessageOrder, Base
    <2>2. CASE retained # {}
      <3>1. PICK h \in retained :
              IsHighest(h) /\ headId' = IF Base # NoId /\ Less(h, Base) THEN Base ELSE h
        BY <1>3, <2>2 DEF RebuildMessageOrder
      <3>2. h \in Id /\ Base \in Id \cup {NoId}
        BY DEF Base
      <3>3. ASSUME NEW r \in retained PROVE headId' # NoId /\ AtMost(r, headId')
        BY <3>1, <3>2, <3>3, LessTransitive DEF IsHighest, AtMost
      <3> QED
        BY <1>3, <3>1, <3>2, <3>3 DEF RebuildMessageOrder
    <2> QED
      BY <1>3, <2>1, <2>2 DEF RebuildMessageOrder
  <1>4. CASE ClockReads \/ DamageHead \/ DropRecords \/ QuarantineRecord \/ Repair
    BY <1>4 DEF ClockReads, DamageHead, DropRecords, QuarantineRecord, Repair
  <1>5. CASE UNCHANGED orderVars
    BY <1>5 DEF orderVars
  <1> QED
    BY <1>1, <1>2, <1>3, <1>4, <1>5 DEF OrderNext

\* The head bounds the evidence in every reachable state.
THEOREM HeadBounds == OrderSpec => []HeadIsSound
  BY OrderInitially, OrderStep, PTL DEF OrderSpec, OrderInv, HeadIsSound

\* Every reserved id is above every id of the store, whatever the clocks.
THEOREM CommitOrder == OrderSpec => NewIdsAreAbove
  <1>1. OrderInv /\ [OrderNext]_orderVars =>
          [ reserved = NoId /\ reserved' # NoId => \A r \in retained : Less(r, reserved') ]_orderVars
    <2> SUFFICES ASSUME OrderInv, [OrderNext]_orderVars, reserved = NoId, reserved' # NoId
                 PROVE  \A r \in retained : Less(r, reserved')
      OBVIOUS
    <2>1. ReserveMessageId
      BY DEF OrderNext, orderVars, Publish, LoseReservation, RebuildMessageOrder, ClockReads, DamageHead,
         DropRecords, QuarantineRecord, Repair
    <2> QED
      BY <2>1, ReservedIsAbove
  <1> QED
    BY <1>1, OrderInitially, OrderStep, PTL DEF OrderSpec, NewIdsAreAbove

\* A valid head only rises.
THEOREM HeadFileRises == OrderSpec => HeadNeverFalls
  <1> DEFINE BothValid == file = "valid" /\ file' = "valid" /\ headId # NoId
             Rises == headId' # NoId /\ AtMost(headId, headId')
  <1>1. OrderInv /\ [OrderNext]_orderVars => [BothValid => Rises]_orderVars
    <2> SUFFICES ASSUME OrderInv, [OrderNext]_orderVars, BothValid PROVE Rises
      OBVIOUS
    <2> USE NoIdAssumption DEF OrderInv, OrderTypeOK
    <2>1. CASE ReserveMessageId
      BY <2>1, ReservedIsAbove DEF ReserveMessageId, AtMost
    <2>2. CASE RebuildMessageOrder
      <3>1. Base = headId
        BY DEF Base
      <3>2. CASE retained = {} /\ headId' = Base
        BY <3>1, <3>2 DEF AtMost
      <3>3. CASE retained # {}
        <4>1. PICK h \in retained :
                IsHighest(h) /\ headId' = IF Base # NoId /\ Less(h, Base) THEN Base ELSE h
          BY <2>2, <3>3 DEF RebuildMessageOrder
        <4>2. h \in Id /\ headId \in Id
          OBVIOUS
        <4>3. Less(h, headId) \/ AtMost(headId, h)
          BY <4>2, OrderBounds DEF Less, AtMost, Id
        <4> QED
          BY <3>1, <4>1, <4>2, <4>3 DEF AtMost
      <3> QED
        BY <2>2, <3>2, <3>3 DEF RebuildMessageOrder
    <2>3. CASE UNCHANGED headId
      BY <2>3 DEF AtMost
    <2> QED
      BY <2>1, <2>2, <2>3 DEF OrderNext, orderVars, Publish, LoseReservation, ClockReads, DamageHead,
         DropRecords, QuarantineRecord, Repair
  <1> QED
    BY <1>1, OrderInitially, OrderStep, PTL DEF OrderSpec, HeadNeverFalls
=============================================================================
