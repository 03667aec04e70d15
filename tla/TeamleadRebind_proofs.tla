------------------------ MODULE TeamleadRebind_proofs ------------------------
(***************************************************************************)
(* Proofs about TeamleadRebind, for any number of processes, lifts and      *)
(* crashes.  A rebind can always be finished because nobody who finds its   *)
(* intent can have moved a seat anywhere but to the old or the new          *)
(* generation (IntentStands); a native lead has one session because one     *)
(* lift at a time has the reservation, and until it publishes its intent    *)
(* nobody else can bind, retain or reserve (LiftersAlone, RecordStands).    *)
(***************************************************************************)
EXTENDS TeamleadRebind, TLAPS

\* The places of a command inside the locks; those of a lift that has a plan,
\* that has reserved, and that has not asked its driver yet; those of a stop
\* that is confirmed, and that has retained its proof.
Inside == {"reserve child", "unreserve child", "bind root", "unlink", "retain root", "drop record"}
Lifting == {"reserve child", "prepare", "unreserve", "unreserve child", "launch", "persist", "publish"}
Unasked == {"reserve child", "prepare", "unreserve", "unreserve child", "launch"}
Planned == {"look", "child", "reserve"} \cup Lifting
Retaining == {"retain root", "drop record"}
NativeOnly == {"reserve", "reserve child", "unreserve", "unreserve child", "retain"} \cup Retaining

\* What a place says of the command that is there.
PlaceFits(p) ==
    /\ pc[p] \in Inside => rootLock = p
    /\ pc[p] \in NativeOnly => native
    /\ pc[p] \in Planned => plan[p] \in Plan
    /\ pc[p] \in {"persist", "publish", "retain"} \cup Retaining => mine[p] \in Generations
    /\ native /\ pc[p] \in Lifting => mine[p] \in Generations
    /\ pc[p] = "publish" => observed[p] \in Seat
PlacesFit == \A p \in Procs : PlaceFits(p)

\* Generations are numbered in the order they were started.
NumbersFit ==
    /\ lead.session <= owner.session /\ owner.session <= started
    /\ lead.pending # None => lead.session < lead.pending /\ lead.pending <= started
    /\ owner.pending # None => owner.pending <= started
    /\ record # None => record <= started
    /\ \A g \in Generations : g > started => session[g] = "none"
    /\ \A p \in Procs : mine[p] # None => mine[p] <= started

\* A plan is of the past, and what is launched on it is newer.
PlanIsPast(p) ==
    /\ pc[p] \in Planned => plan[p].lead.session <= lead.session
    /\ pc[p] \in {"persist", "publish"} => plan[p].lead.session < mine[p]
    /\ pc[p] = "publish" => /\ plan[p].lead.session <= observed[p].session
                            /\ observed[p].session <= owner.session
PlansArePast == \A p \in Procs : PlanIsPast(p)

\* While a rebind waits, each seat is at the generation before it or at its
\* own, and the owner's is moved first.
IntentStands ==
    intent # None =>
        /\ intent.oldLead.session = intent.oldOwner.session
        /\ intent.oldLead.session < intent.generation
        /\ intent.generation <= started
        /\ lead.session \in {intent.oldLead.session, intent.generation}
        /\ owner.session \in {intent.oldOwner.session, intent.generation}
        /\ lead.session = intent.generation => owner.session = intent.generation
        /\ native => /\ intent.oldLead.pending = intent.generation
                     /\ lead.session = intent.oldLead.session => lead = intent.oldLead
                     /\ owner.session = intent.oldOwner.session => owner = intent.oldOwner

\* How far a binder got.
BinderFits(p) ==
    /\ pc[p] \in {"bind root", "unlink"} => intent # None /\ owner.session = intent.generation
    /\ pc[p] = "unlink" => lead.session = intent.generation
BindersFit == \A p \in Procs : BinderFits(p)

\* A retained stop is a confirmed one, and a reservation stands over one.
StopsAreTrue ==
    native => \A seat \in {lead, owner} :
        /\ seat.stopped => session[seat.session] = "stopped"
        /\ seat.pending # None => seat.stopped

\* The registry has the generation of the seat or of its reservation, and a
\* session that runs is in it.
RecordStands ==
    native =>
        /\ record # None => record \in {lead.session, lead.pending}
        /\ record # None /\ lead.pending # None => record = lead.pending
        /\ \A g \in Generations : session[g] = "alive" => record = g

\* A native lift that has reserved is alone, with its reservation, and a
\* rebind that waits is one it reserved over.
LifterStands(p) ==
    pc[p] \in Lifting =>
        /\ pc[p] # "unreserve child" => lead.pending = mine[p]
        /\ intent # None => lead.session = intent.generation
        /\ pc[p] \in Unasked => record = None /\ session[mine[p]] = "none"
        /\ pc[p] = "reserve child" => owner.stopped /\ owner.session = lead.session
        /\ pc[p] = "publish" => observed[p] = owner
OneLifter == \A p, q \in Procs : pc[p] \in Lifting /\ pc[q] \in Lifting => p = q
LiftersAlone == native => OneLifter /\ \A p \in Procs : LifterStands(p)

\* A stop works on a session it saw end, and both seats name it while its
\* proof is retained.
RetainerFits(p) ==
    /\ pc[p] \in {"retain"} \cup Retaining => session[mine[p]] = "stopped"
    /\ pc[p] \in Retaining => record = mine[p] /\ Linked
RetainersFit == \A p \in Procs : RetainerFits(p)

RebindInv ==
    /\ NumbersFit
    /\ PlansArePast
    /\ IntentStands
    /\ HalvesAgree
    /\ BindersFit
    /\ StopsAreTrue
    /\ RecordStands
    /\ LiftersAlone
    /\ RetainersFit

IInv == TypeOK /\ PlacesFit /\ RebindInv

----------------------------------------------------------------------------
(* Groups of steps.                                                         *)

\* The steps of p that change nothing but p's own memory.
Quiet(p) ==
    \/ PlanStep(p)
    \/ ReserveRefused(p) \/ Prepare(p) \/ PrepareFails(p) \/ ReadOwner(p) \/ PublishRefused(p)
    \/ Observe(p) \/ NothingToRecover(p) \/ BindStale(p) \/ BindRefused(p) \/ RetainRefused(p)

shared == <<native, lead, owner, intent, record, session, started, rootLock, childLock>>

\* The types of the commands' memory.
LEMMA MemoryTypes ==
    ASSUME TypeOK
    PROVE  /\ pc \in [Procs -> Steps] /\ plan \in [Procs -> Plan \cup {None}]
           /\ mine \in [Procs -> Generations \cup {None}]
           /\ observed \in [Procs -> Intent \cup Seat \cup {None}]
  BY DEF TypeOK

\* A quiet step leaves what is shared.
LEMMA QuietShares ==
    ASSUME NEW p \in Procs, Quiet(p)
    PROVE  UNCHANGED shared /\ crashes' = crashes
  BY DEF Quiet, PlanStep, PlanRoot, PlanIntent, PlanRecovery, PlanLift, PlanRefused, ReserveRefused,
         Prepare, PrepareFails, ReadOwner, PublishRefused, Observe, NothingToRecover, BindStale,
         BindRefused, RetainRefused, shared, journals, locks

\* The memory of other commands is not touched.
OthersStay(p) ==
    \A q \in Procs : q # p => /\ pc'[q] = pc[q] /\ plan'[q] = plan[q]
                              /\ mine'[q] = mine[q] /\ observed'[q] = observed[q]

LEMMA StepOfOne ==
    ASSUME TypeOK, NEW p \in Procs, Step(p) \/ Crash(p)
    PROVE  OthersStay(p) /\ native' = native
  <1> USE MemoryTypes DEF Go, Leave, OthersStay, local
  <1>1. CASE PlanStep(p)
    BY <1>1 DEF PlanStep, PlanRoot, PlanIntent, PlanRecovery, PlanLift, PlanRefused
  <1>2. CASE ReserveRoot(p) \/ ReserveRefused(p) \/ ReserveChild(p)
    BY <1>2 DEF ReserveRoot, ReserveRefused, ReserveChild
  <1>3. CASE Prepare(p) \/ PrepareFails(p)
    BY <1>3 DEF Prepare, PrepareFails
  <1>4. CASE UnreserveRoot(p) \/ UnreserveChild(p)
    BY <1>4 DEF UnreserveRoot, UnreserveChild
  <1>5. CASE Launch(p) \/ LaunchFails(p)
    BY <1>5 DEF Launch, LaunchFails
  <1>6. CASE ReadOwner(p) \/ PublishIntent(p) \/ PublishRefused(p)
    BY <1>6 DEF ReadOwner, PublishIntent, PublishRefused
  <1>7. CASE Observe(p) \/ NothingToRecover(p) \/ BindStale(p) \/ BindRefused(p)
    BY <1>7 DEF Observe, NothingToRecover, BindStale, BindRefused
  <1>8. CASE BindChild(p) \/ BindRoot(p)
    BY <1>8 DEF BindChild, BindRoot
  <1>9. CASE Unlink(p) \/ UnlinkStopped(p)
    BY <1>9 DEF Unlink, UnlinkStopped, Bound
  <1>10. CASE StopHolder(p) \/ RetainOwner(p)
    BY <1>10 DEF StopHolder, RetainOwner
  <1>11. CASE RetainRefused(p) \/ RetainLead(p) \/ DropRecord(p)
    BY <1>11 DEF RetainRefused, RetainLead, DropRecord
  <1>12. CASE Crash(p)
    BY <1>12 DEF Crash
  <1> QED
    BY <1>1, <1>2, <1>3, <1>4, <1>5, <1>6, <1>7, <1>8, <1>9, <1>10, <1>11, <1>12
       DEF Step, LiftStep, BindStep, StopStep

\* Which steps there are.
LEMMA StepKinds ==
    ASSUME [Next]_vars
    PROVE  \/ UNCHANGED vars
           \/ \E p \in Procs :
                 \/ Quiet(p) \/ Crash(p)
                 \/ ReserveRoot(p) \/ ReserveChild(p) \/ UnreserveRoot(p) \/ UnreserveChild(p)
                 \/ Launch(p) \/ LaunchFails(p) \/ PublishIntent(p)
                 \/ BindChild(p) \/ BindRoot(p) \/ Unlink(p) \/ UnlinkStopped(p)
                 \/ StopHolder(p) \/ RetainOwner(p) \/ RetainLead(p) \/ DropRecord(p)
           \/ \E g \in Generations : SessionEnds(g)
  BY DEF Next, Step, LiftStep, BindStep, StopStep, Quiet

----------------------------------------------------------------------------
(* Types.                                                                   *)

\* What is written into a seat is a seat.
LEMMA SeatsWritten ==
    ASSUME NEW seat \in Seat, NEW g \in Generations
    PROVE  /\ Fresh(g) \in Seat
           /\ [seat EXCEPT !.pending = g] \in Seat /\ Unreserved(seat) \in Seat
           /\ [seat EXCEPT !.stopped = TRUE] \in Seat
  BY DEF Seat, Fresh, Unreserved

\* Each step keeps the types.
LEMMA TypeStep == IInv /\ [Next]_vars => TypeOK'
  <1> SUFFICES ASSUME IInv, [Next]_vars PROVE TypeOK'
    OBVIOUS
  <1>a. TypeOK /\ PlacesFit
    BY DEF IInv
  <1> USE <1>a, TeamleadRebindAssumption
  <1>1. CASE UNCHANGED vars
    BY <1>1 DEF vars, TypeOK, locks
  <1>2. ASSUME NEW p \in Procs, Quiet(p) PROVE TypeOK'
    <2>1. UNCHANGED shared /\ crashes' = crashes
      BY <1>2, QuietShares
    <2>2. pc' \in [Procs -> Steps]
      <3>1. \E step \in Steps : Go(p, step)
        BY <1>2 DEF Quiet, PlanStep, PlanRoot, PlanIntent, PlanRecovery, PlanLift, PlanRefused,
           ReserveRefused, Prepare, PrepareFails, ReadOwner, PublishRefused, Observe,
           NothingToRecover, BindStale, BindRefused, RetainRefused, Steps, Leave
      <3> QED
        BY <3>1 DEF TypeOK, Go
    <2>3. plan' \in [Procs -> Plan \cup {None}]
      <3>1. CASE PlanRoot(p)
        BY <3>1 DEF PlanRoot, Plan, TypeOK
      <3>2. CASE PlanIntent(p)
        <4>1. plan[p] \in Plan
          BY <3>2 DEF PlanIntent, PlacesFit, PlaceFits, Planned, At
        <4>2. [plan[p] EXCEPT !.pending = intent # None] \in Plan
          BY <4>1 DEF Plan
        <4> QED
          BY <3>2, <4>2 DEF PlanIntent, TypeOK
      <3>3. CASE PlanLift(p)
        <4>1. plan[p] \in Plan
          BY <3>3 DEF PlanLift, PlacesFit, PlaceFits, Planned, At
        <4>2. [plan[p] EXCEPT !.owner = owner] \in Plan
          BY <4>1 DEF Plan, TypeOK
        <4> QED
          BY <3>3, <4>2 DEF PlanLift, TypeOK
      <3>4. plan' = plan \/ plan' = [plan EXCEPT ![p] = None] \/ PlanRoot(p) \/ PlanIntent(p) \/ PlanLift(p)
        BY <1>2 DEF Quiet, PlanStep, PlanRecovery, PlanRefused, ReserveRefused, Prepare, PrepareFails,
           ReadOwner, PublishRefused, Observe, NothingToRecover, BindStale, BindRefused,
           RetainRefused, Leave, local
      <3> QED
        BY <3>1, <3>2, <3>3, <3>4 DEF TypeOK
    <2>4. mine' = mine \/ mine' = [mine EXCEPT ![p] = None]
      BY <1>2 DEF Quiet, PlanStep, PlanRoot, PlanIntent, PlanRecovery, PlanLift, PlanRefused,
         ReserveRefused, Prepare, PrepareFails, ReadOwner, PublishRefused, Observe,
         NothingToRecover, BindStale, BindRefused, RetainRefused, Leave, local
    <2>5. \/ observed' = observed \/ observed' = [observed EXCEPT ![p] = None]
          \/ observed' = [observed EXCEPT ![p] = owner] \/ observed' = [observed EXCEPT ![p] = intent]
      BY <1>2 DEF Quiet, PlanStep, PlanRoot, PlanIntent, PlanRecovery, PlanLift, PlanRefused,
         ReserveRefused, Prepare, PrepareFails, ReadOwner, PublishRefused, Observe,
         NothingToRecover, BindStale, BindRefused, RetainRefused, Leave, local
    <2>6. mine' \in [Procs -> Generations \cup {None}]
      BY <2>4 DEF TypeOK
    <2>7. observed' \in [Procs -> Intent \cup Seat \cup {None}]
      BY <2>5 DEF TypeOK
    <2> QED
      BY <2>1, <2>2, <2>3, <2>6, <2>7 DEF TypeOK, shared
  <1>3. ASSUME NEW p \in Procs, ReserveRoot(p) PROVE TypeOK'
    <2>1. started + 1 \in Generations
      <3>1. started \in Generations /\ started < MaxGeneration
        BY <1>3 DEF ReserveRoot, TypeOK
      <3> QED
        BY ONLY <3>1, TeamleadRebindAssumption DEF Generations
    <2>2. lead' \in Seat
      BY <1>3, <2>1, SeatsWritten DEF ReserveRoot, TypeOK
    <2> QED
      BY <1>3, <2>1, <2>2 DEF ReserveRoot, TypeOK, TakeLocks, Go, Steps
  <1>4. ASSUME NEW p \in Procs, ReserveChild(p) PROVE TypeOK'
    <2>1. mine[p] \in Generations
      BY <1>4 DEF ReserveChild, PlacesFit, PlaceFits, At, NativeOnly, Lifting
    <2>2. owner' \in Seat
      BY <1>4, <2>1, SeatsWritten DEF ReserveChild, TypeOK
    <2> QED
      BY <1>4, <2>2 DEF ReserveChild, TypeOK, DropLocks, Go, Steps, local
  <1>5. ASSUME NEW p \in Procs, UnreserveRoot(p) PROVE TypeOK'
    <2>1. lead' \in Seat
      BY <1>5, SeatsWritten DEF UnreserveRoot, Cleared, TypeOK, Seat, Unreserved
    <2> QED
      BY <1>5, <2>1 DEF UnreserveRoot, TypeOK, TakeLocks, Go, Steps, local
  <1>6. ASSUME NEW p \in Procs, UnreserveChild(p) PROVE TypeOK'
    <2>1. owner' \in Seat
      BY <1>6, SeatsWritten DEF UnreserveChild, Cleared, TypeOK, Seat, Unreserved
    <2> QED
      BY <1>6, <2>1 DEF UnreserveChild, TypeOK, DropLocks, Go, Leave, Steps
  <1>7. ASSUME NEW p \in Procs, Launch(p) PROVE TypeOK'
    <2> DEFINE g == IF native THEN mine[p] ELSE started + 1
    <2>1. g \in Generations
      <3>1. started \in Generations /\ g <= MaxGeneration
        BY <1>7 DEF Launch, TypeOK
      <3>2. native => mine[p] \in Generations
        BY <1>7 DEF Launch, PlacesFit, PlaceFits, At, Lifting
      <3> QED
        BY ONLY <3>1, <3>2, TeamleadRebindAssumption DEF Generations
    <2>2. started' \in Generations /\ mine' \in [Procs -> Generations \cup {None}]
      BY <1>7, <2>1 DEF Launch, TypeOK
    <2>3. session' \in [Generations -> {"none", "alive", "dead", "stopped"}]
      BY <1>7, <2>1 DEF Launch, TypeOK
    <2>4. record' \in Generations \cup {None}
      BY <1>7, <2>1 DEF Launch
    <2> QED
      BY <1>7, <2>2, <2>3, <2>4 DEF Launch, TypeOK, Go, Steps, journals, locks
  <1>8. ASSUME NEW p \in Procs, LaunchFails(p) PROVE TypeOK'
    BY <1>8 DEF LaunchFails, TypeOK, Go, Leave, Steps, journals, locks
  <1>9. ASSUME NEW p \in Procs, PublishIntent(p) PROVE TypeOK'
    <2>1. intent' \in Intent
      BY <1>9 DEF PublishIntent, TypeOK, PlacesFit, PlaceFits, At, Intent
    <2> QED
      BY <1>9, <2>1 DEF PublishIntent, TypeOK, Go, Steps, journals, locks
  <1>10. ASSUME NEW p \in Procs, BindChild(p) PROVE TypeOK'
    <2>1. owner' \in Seat
      BY <1>10, SeatsWritten DEF BindChild, TypeOK, Intent
    <2> QED
      BY <1>10, <2>1 DEF BindChild, TypeOK, TakeLocks, Go, Steps, local
  <1>11. ASSUME NEW p \in Procs, BindRoot(p) PROVE TypeOK'
    <2>1. intent # None
      BY <1>11 DEF IInv, RebindInv, BindersFit, BinderFits, BindRoot, At
    <2>2. lead' \in Seat
      BY <1>11, <2>1, SeatsWritten DEF BindRoot, TypeOK, Intent
    <2> QED
      BY <1>11, <2>2 DEF BindRoot, TypeOK, Go, Steps, local, locks
  <1>12. ASSUME NEW p \in Procs, Unlink(p) \/ UnlinkStopped(p) PROVE TypeOK'
    BY <1>12 DEF Unlink, UnlinkStopped, TypeOK, DropLocks, Bound, Go, Leave, Steps, local, journals, locks
  <1>13. ASSUME NEW p \in Procs, StopHolder(p) PROVE TypeOK'
    BY <1>13 DEF StopHolder, TypeOK, Go, Steps, journals, locks
  <1>14. ASSUME NEW p \in Procs, RetainOwner(p) PROVE TypeOK'
    <2>1. owner' \in Seat
      BY <1>14, SeatsWritten DEF RetainOwner, TypeOK, Seat
    <2> QED
      BY <1>14, <2>1 DEF RetainOwner, TypeOK, TakeLocks, Go, Steps, local
  <1>15. ASSUME NEW p \in Procs, RetainLead(p) PROVE TypeOK'
    <2>1. lead' \in Seat
      BY <1>15, SeatsWritten DEF RetainLead, TypeOK, Seat
    <2> QED
      BY <1>15, <2>1 DEF RetainLead, TypeOK, Go, Steps, local, locks
  <1>16. ASSUME NEW p \in Procs, DropRecord(p) PROVE TypeOK'
    BY <1>16 DEF DropRecord, TypeOK, DropLocks, Go, Leave, Steps, journals
  <1>17. ASSUME NEW p \in Procs, Crash(p) PROVE TypeOK'
    <2>1. crashes' \in 0..MaxCrashes
      BY <1>17 DEF Crash, TypeOK
    <2>2. rootLock' \in Procs \cup {None} /\ childLock' \in {None, rootLock'}
      BY <1>17 DEF Crash, TypeOK
    <2>3. /\ pc' \in [Procs -> Steps] /\ plan' \in [Procs -> Plan \cup {None}]
          /\ mine' \in [Procs -> Generations \cup {None}]
          /\ observed' \in [Procs -> Intent \cup Seat \cup {None}]
      BY <1>17 DEF Crash, TypeOK, Steps, Leave, Go
    <2> QED
      BY <1>17, <2>1, <2>2, <2>3 DEF Crash, TypeOK, journals
  <1>18. ASSUME NEW g \in Generations, SessionEnds(g) PROVE TypeOK'
    BY <1>18 DEF SessionEnds, TypeOK, local, journals, locks
  <1> QED
    BY <1>1, <1>2, <1>3, <1>4, <1>5, <1>6, <1>7, <1>8, <1>9, <1>10, <1>11, <1>12, <1>13, <1>14,
       <1>15, <1>16, <1>17, <1>18, StepKinds

----------------------------------------------------------------------------
(* Places.                                                                  *)

\* What the places of the others say goes on to hold.
LEMMA PlacesOfOthers ==
    ASSUME PlacesFit, NEW p \in Procs, OthersStay(p), native' = native, PlaceFits(p)',
           rootLock' = rootLock \/ (rootLock \in {None, p} /\ rootLock' \in {None, p})
    PROVE  PlacesFit'
  <1>1. ASSUME NEW q \in Procs, q # p PROVE PlaceFits(q)'
    BY <1>1, TeamleadRebindAssumption DEF PlacesFit, PlaceFits, OthersStay, Inside
  <1> QED
    BY <1>1 DEF PlacesFit

\* Each step keeps what a place says.
LEMMA PlacesStep == IInv /\ [Next]_vars => PlacesFit'
  <1> SUFFICES ASSUME IInv, [Next]_vars PROVE PlacesFit'
    OBVIOUS
  <1>a. TypeOK /\ PlacesFit
    BY DEF IInv
  <1>1. CASE UNCHANGED vars
    BY <1>a, <1>1 DEF vars, PlacesFit, PlaceFits
  <1>2. ASSUME NEW g \in Generations, SessionEnds(g) PROVE PlacesFit'
    BY <1>a, <1>2 DEF SessionEnds, locks, local, PlacesFit, PlaceFits
  <1>3. ASSUME NEW p \in Procs, Step(p) \/ Crash(p) PROVE PlacesFit'
    <2>1. OthersStay(p) /\ native' = native
      BY <1>a, <1>3, StepOfOne
    <2>2. PlaceFits(p)
      BY <1>a DEF PlacesFit
    <2> USE TeamleadRebindAssumption, NoRecordAssumption
        DEF PlaceFits, At, Go, Inside, NativeOnly, Planned, Lifting, Retaining
    <2>b. /\ pc \in [Procs -> Steps] /\ plan \in [Procs -> Plan \cup {None}]
          /\ mine \in [Procs -> Generations \cup {None}]
          /\ observed \in [Procs -> Intent \cup Seat \cup {None}]
      BY <1>a, MemoryTypes
    <2>c. lead \in Seat /\ owner \in Seat /\ started \in Generations
      BY <1>a DEF TypeOK
    <2>d. Leave(p) => pc'[p] = "idle"
      BY <2>b DEF Leave
    <2>3. CASE PlanStep(p)
      <3>1. PlanRoot(p) => plan'[p] \in Plan
        BY <2>b, <2>c DEF PlanRoot, Plan
      <3>2. PlanIntent(p) => plan'[p] \in Plan
        <4>1. PlanIntent(p) => plan[p] \in Plan /\ plan'[p] = [plan[p] EXCEPT !.pending = intent # None]
          BY <2>2, <2>b DEF PlanIntent
        <4> QED
          BY <4>1 DEF Plan
      <3>3. PlanLift(p) => plan'[p] \in Plan
        BY <2>2, <2>b, <2>c DEF PlanLift, Plan
      <3>4. PlaceFits(p)'
        <4>1. PlanRecovery(p) \/ PlanRefused(p) => pc'[p] \in {"observe", "idle"}
          BY <2>b, <2>d DEF PlanRecovery, PlanRefused
        <4>2. PlanRoot(p) \/ PlanIntent(p) => pc'[p] \in {"look", "child"}
          BY <2>b DEF PlanRoot, PlanIntent
        <4>3. PlanLift(p) => pc'[p] = IF native THEN "reserve" ELSE "prepare"
          BY <2>b DEF PlanLift
        <4> QED
          BY <2>1, <2>3, <3>1, <3>2, <3>3, <4>1, <4>2, <4>3 DEF PlanStep
      <3>5. rootLock' = rootLock
        BY <2>3 DEF PlanStep, PlanRoot, PlanIntent, PlanRecovery, PlanLift, PlanRefused, locks
      <3> QED
        BY <1>a, <2>1, <3>4, <3>5, PlacesOfOthers
    <2>4. CASE ReserveRoot(p)
      <3>1. started + 1 \in Generations
        <4>1. started < MaxGeneration
          BY <2>4 DEF ReserveRoot
        <4> QED
          BY ONLY <2>c, <4>1, TeamleadRebindAssumption DEF Generations
      <3>2. PlaceFits(p)'
        <4>1. /\ pc'[p] = "reserve child" /\ rootLock' = p /\ mine'[p] \in Generations
              /\ plan'[p] = plan[p]
          BY <2>4, <2>b, <3>1 DEF ReserveRoot, TakeLocks
        <4>2. native /\ plan[p] \in Plan
          BY <2>2, <2>4 DEF ReserveRoot
        <4> QED
          BY <2>1, <4>1, <4>2
      <3> QED
        BY <1>a, <2>1, <2>4, <3>2, PlacesOfOthers DEF ReserveRoot, TakeLocks, LocksFree
    <2>5. CASE ReserveChild(p) \/ UnreserveChild(p)
      <3>1. PlaceFits(p)'
        BY <2>1, <2>2, <2>5, <2>b, <2>d DEF ReserveChild, UnreserveChild, local
      <3> QED
        BY <1>a, <2>1, <2>5, <3>1, PlacesOfOthers DEF ReserveChild, UnreserveChild, DropLocks
    <2>6. CASE UnreserveRoot(p) \/ BindChild(p) \/ RetainOwner(p)
      <3>1. PlaceFits(p)'
        BY <2>1, <2>2, <2>6, <2>b DEF UnreserveRoot, BindChild, RetainOwner, TakeLocks, local
      <3> QED
        BY <1>a, <2>1, <2>6, <3>1, PlacesOfOthers DEF UnreserveRoot, BindChild, RetainOwner,
           TakeLocks, LocksFree
    <2>7. CASE Launch(p)
      <3> DEFINE g == IF native THEN mine[p] ELSE started + 1
      <3>1. g \in Generations
        <4>1. native => mine[p] \in Generations
          BY <2>2, <2>7 DEF Launch
        <4>2. g <= MaxGeneration
          BY <2>7 DEF Launch
        <4> QED
          BY ONLY <2>c, <4>1, <4>2, TeamleadRebindAssumption DEF Generations
      <3>2. mine'[p] = g
        BY <2>7, <2>b DEF Launch
      <3>3. PlaceFits(p)'
        BY <2>1, <2>2, <2>7, <2>b, <3>1, <3>2 DEF Launch
      <3> QED
        BY <1>a, <2>1, <2>7, <3>3, PlacesOfOthers DEF Launch, locks
    <2>8. CASE Leave(p) /\ rootLock' = rootLock
      <3>1. PlaceFits(p)'
        BY <2>8, <2>d
      <3> QED
        BY <1>a, <2>1, <2>8, <3>1, PlacesOfOthers
    <2>9. CASE Prepare(p) \/ PrepareFails(p)
      <3>1. PlaceFits(p)'
        BY <2>1, <2>2, <2>9, <2>b, <2>d DEF Prepare, PrepareFails, local
      <3> QED
        BY <1>a, <2>1, <2>9, <3>1, PlacesOfOthers DEF Prepare, PrepareFails, locks
    <2>10. CASE ReadOwner(p) \/ PublishIntent(p) \/ Observe(p)
      <3>1. PlaceFits(p)'
        BY <2>1, <2>2, <2>10, <2>b, <2>c DEF ReadOwner, PublishIntent, Observe, locks
      <3> QED
        BY <1>a, <2>1, <2>10, <3>1, PlacesOfOthers DEF ReadOwner, PublishIntent, Observe, locks
    <2>11. CASE BindRoot(p) \/ RetainLead(p)
      <3>1. PlaceFits(p)'
        BY <2>1, <2>2, <2>11, <2>b DEF BindRoot, RetainLead, locks, local
      <3> QED
        BY <1>a, <2>1, <2>11, <3>1, PlacesOfOthers DEF BindRoot, RetainLead, locks
    <2>12. CASE Unlink(p) \/ UnlinkStopped(p)
      <3>1. pc'[p] \in {"idle", "replan"}
        BY <2>12, <2>b, <2>d DEF Unlink, UnlinkStopped, Bound
      <3>2. PlaceFits(p)'
        BY <3>1
      <3> QED
        BY <1>a, <2>1, <2>12, <3>2, PlacesOfOthers DEF Unlink, UnlinkStopped, DropLocks, locks
    <2>13. CASE StopHolder(p)
      <3>1. record \in Generations
        BY <1>a, <2>13 DEF StopHolder, TypeOK
      <3>2. PlaceFits(p)'
        BY <2>1, <2>13, <2>b, <3>1 DEF StopHolder
      <3> QED
        BY <1>a, <2>1, <2>13, <3>2, PlacesOfOthers DEF StopHolder, locks
    <2>14. CASE DropRecord(p) \/ Crash(p)
      <3>1. PlaceFits(p)'
        BY <2>14, <2>d DEF DropRecord, Crash
      <3>2. rootLock' = rootLock \/ (rootLock \in {None, p} /\ rootLock' \in {None, p})
        BY <2>14 DEF DropRecord, Crash, DropLocks
      <3> QED
        BY <1>a, <2>1, <3>1, <3>2, PlacesOfOthers
    <2>15. CASE \/ ReserveRefused(p) \/ LaunchFails(p) \/ PublishRefused(p) \/ NothingToRecover(p)
                \/ BindStale(p) \/ BindRefused(p) \/ RetainRefused(p)
      BY <2>8, <2>15 DEF ReserveRefused, LaunchFails, PublishRefused, NothingToRecover, BindStale,
         BindRefused, RetainRefused, locks
    <2> QED
      BY <1>3, <2>3, <2>4, <2>5, <2>6, <2>7, <2>9, <2>10, <2>11, <2>12, <2>13, <2>14, <2>15
         DEF Step, LiftStep, BindStep, StopStep
  <1> QED
    BY <1>1, <1>2, <1>3 DEF Next

----------------------------------------------------------------------------
(* Seats and frames.                                                        *)

\* The fields of a seat.
LEMMA SeatFields ==
    ASSUME NEW seat \in Seat
    PROVE  /\ seat.session \in Nat /\ seat.stopped \in BOOLEAN
           /\ seat.pending # None => seat.pending \in Nat
           /\ seat.session \in Generations /\ seat.pending \in Generations \cup {None}
  BY TeamleadRebindAssumption DEF Seat, Generations

\* What a step writes into a seat.
LEMMA FreshFields ==
    ASSUME NEW g
    PROVE  Fresh(g).session = g /\ Fresh(g).pending = None /\ Fresh(g).stopped = FALSE
  BY DEF Fresh

LEMMA WrittenFields ==
    ASSUME NEW seat \in Seat, NEW g
    PROVE  /\ [seat EXCEPT !.pending = g].session = seat.session
           /\ [seat EXCEPT !.pending = g].pending = g
           /\ [seat EXCEPT !.pending = g].stopped = seat.stopped
           /\ [seat EXCEPT !.stopped = TRUE].session = seat.session
           /\ [seat EXCEPT !.stopped = TRUE].pending = seat.pending
           /\ [seat EXCEPT !.stopped = TRUE].stopped
           /\ Unreserved(seat).session = seat.session
           /\ Unreserved(seat).pending = None
           /\ Unreserved(seat).stopped = seat.stopped
  BY DEF Seat, Unreserved

\* The numbers are natural numbers.
LEMMA Naturals ==
    ASSUME TypeOK
    PROVE  /\ started \in Nat /\ lead \in Seat /\ owner \in Seat
           /\ lead.session \in Nat /\ owner.session \in Nat
           /\ lead.pending # None => lead.pending \in Nat
           /\ owner.pending # None => owner.pending \in Nat
           /\ record # None => record \in Nat
           /\ \A p \in Procs : mine[p] # None => mine[p] \in Nat
           /\ intent # None => /\ intent \in Intent /\ intent.generation \in Nat
                               /\ intent.oldLead \in Seat /\ intent.oldOwner \in Seat
                               /\ intent.oldLead.session \in Nat /\ intent.oldOwner.session \in Nat
  <1>1. lead \in Seat /\ owner \in Seat
    BY DEF TypeOK
  <1>2. intent # None => /\ intent \in Intent /\ intent.generation \in Generations
                         /\ intent.oldLead \in Seat /\ intent.oldOwner \in Seat
    BY DEF TypeOK, Intent
  <1>3. started \in Nat /\ (record # None => record \in Nat)
    BY TeamleadRebindAssumption DEF TypeOK, Generations
  <1>4. \A p \in Procs : mine[p] # None => mine[p] \in Nat
    BY TeamleadRebindAssumption DEF TypeOK, Generations
  <1>5. intent # None => intent.generation \in Nat
    BY <1>2, TeamleadRebindAssumption DEF Generations
  <1> QED
    BY <1>1, <1>2, <1>3, <1>4, <1>5, SeatFields

\* The numbers fit again when what a step writes is numbered in order.
LEMMA NumbersGoOn ==
    ASSUME TypeOK, TypeOK', NumbersFit, NEW p \in Procs, OthersStay(p), started' >= started,
           lead'.session <= owner'.session, owner'.session <= started',
           lead'.pending # None => lead'.session < lead'.pending /\ lead'.pending <= started',
           owner'.pending # None => owner'.pending <= started',
           record' # None => record' <= started',
           \A g \in Generations : g > started' => session'[g] = "none",
           mine'[p] # None => mine'[p] <= started'
    PROVE  NumbersFit'
  <1>1. started \in Nat /\ started' \in Nat
    BY TeamleadRebindAssumption DEF TypeOK, Generations
  <1>2. ASSUME NEW q \in Procs, mine'[q] # None PROVE mine'[q] <= started'
    <2>1. CASE q = p
      BY <1>2, <2>1
    <2>2. CASE q # p
      <3>1. mine'[q] = mine[q] /\ mine[q] # None
        BY <1>2, <2>2 DEF OthersStay
      <3>2. mine[q] \in Nat /\ mine[q] <= started
        BY <3>1, Naturals DEF NumbersFit
      <3>3. mine[q] <= started'
        BY ONLY <1>1, <3>2, started' >= started
      <3> QED
        BY <3>1, <3>3
    <2> QED
      BY <2>1, <2>2
  <1> QED
    BY <1>2 DEF NumbersFit

\* What NumbersFit says of the shared variables.
LEMMA NumberFacts ==
    ASSUME NumbersFit
    PROVE  /\ lead.session <= owner.session /\ owner.session <= started
           /\ lead.pending # None => lead.session < lead.pending /\ lead.pending <= started
           /\ owner.pending # None => owner.pending <= started
           /\ record # None => record <= started
           /\ \A g \in Generations : g > started => session[g] = "none"
  BY DEF NumbersFit

\* A plan has seats.
LEMMA PlanFields ==
    ASSUME PlacesFit, NEW p \in Procs, pc[p] \in Planned
    PROVE  /\ plan[p].lead \in Seat /\ plan[p].lead.session \in Nat
           /\ pc[p] = "publish" => observed[p].session \in Nat
  <1>1. plan[p].lead \in Seat
    BY DEF PlacesFit, PlaceFits, Plan
  <1>2. pc[p] = "publish" => observed[p] \in Seat
    BY DEF PlacesFit, PlaceFits
  <1> QED
    BY <1>1, <1>2, SeatFields

\* The plans of the others stay plans of the past as the seats move forward.
LEMMA PlansOfOthers ==
    ASSUME TypeOK, TypeOK', PlacesFit, PlansArePast, NEW p \in Procs, OthersStay(p), PlanIsPast(p)',
           lead'.session >= lead.session, owner'.session >= owner.session
    PROVE  PlansArePast'
  <1>1. /\ lead.session \in Nat /\ owner.session \in Nat
        /\ lead'.session \in Nat /\ owner'.session \in Nat
    BY Naturals, SeatFields DEF TypeOK
  <1>2. ASSUME NEW q \in Procs, q # p PROVE PlanIsPast(q)'
    <2>1. /\ pc[q] \in Planned => plan[q].lead.session \in Nat
          /\ pc[q] = "publish" => observed[q].session \in Nat
      BY PlanFields DEF Planned, Lifting
    <2>2. PlanIsPast(q)
      BY DEF PlansArePast
    <2>3. pc'[q] = pc[q] /\ plan'[q] = plan[q] /\ mine'[q] = mine[q] /\ observed'[q] = observed[q]
      BY <1>2 DEF OthersStay
    <2>4. pc[q] \in Planned => plan[q].lead.session <= lead'.session
      BY <1>1, <2>1, <2>2 DEF PlanIsPast
    <2>5. pc[q] = "publish" => /\ plan[q].lead.session <= observed[q].session
                              /\ observed[q].session <= owner'.session
      BY <1>1, <2>1, <2>2 DEF PlanIsPast
    <2> QED
      BY <2>2, <2>3, <2>4, <2>5 DEF PlanIsPast
  <1> QED
    BY <1>2 DEF PlansArePast

\* Who is alone at the locks is alone inside them.
LEMMA InsideAlone ==
    ASSUME PlacesFit, NEW p \in Procs, rootLock \in {None, p}, NEW q \in Procs, q # p
    PROVE  pc[q] \notin Inside
  BY TeamleadRebindAssumption DEF PlacesFit, PlaceFits

\* The other binders get as far as they got.
LEMMA BindersOfOthers ==
    ASSUME PlacesFit, BindersFit, NEW p \in Procs, OthersStay(p), BinderFits(p)',
           \/ rootLock \in {None, p}
           \/ intent' = intent /\ owner'.session = owner.session /\ lead'.session = lead.session
    PROVE  BindersFit'
  <1>1. ASSUME NEW q \in Procs, q # p PROVE BinderFits(q)'
    BY <1>1, InsideAlone DEF BindersFit, BinderFits, OthersStay, Inside
  <1> QED
    BY <1>1 DEF BindersFit

\* The other stops keep their session and their record.
LEMMA RetainersOfOthers ==
    ASSUME PlacesFit, RetainersFit, NEW p \in Procs, OthersStay(p), RetainerFits(p)',
           \A q \in Procs : q # p /\ pc[q] \in {"retain"} \cup Retaining /\ session[mine[q]] = "stopped" =>
               session'[mine[q]] = "stopped",
           \/ rootLock \in {None, p}
           \/ record' = record /\ owner'.session = owner.session /\ lead'.session = lead.session
           \/ ~\E q \in Procs : q # p /\ pc[q] \in Retaining
    PROVE  RetainersFit'
  <1>1. ASSUME NEW q \in Procs, q # p PROVE RetainerFits(q)'
    BY <1>1, InsideAlone DEF RetainersFit, RetainerFits, OthersStay, Inside, Retaining, Linked
  <1> QED
    BY <1>1 DEF RetainersFit

\* A lift that has reserved stays alone when the others do not reserve, and
\* keeps what it has when nothing of that moves.
LEMMA LiftersOfOthers ==
    ASSUME PlacesFit, native => OneLifter /\ \A q \in Procs : LifterStands(q), NEW p \in Procs,
           OthersStay(p), native' = native,
           native /\ pc'[p] \in Lifting => pc[p] \in Lifting /\ LifterStands(p)',
           native => \A q \in Procs : q # p /\ pc[q] \in Lifting /\ LifterStands(q) =>
               /\ lead'.pending = lead.pending /\ lead'.session = lead.session /\ owner' = owner
               /\ intent' # None => intent # None /\ intent' = intent
               /\ record = None => record' = None
               /\ session[mine[q]] = "none" => session'[mine[q]] = "none"
    PROVE  LiftersAlone'
  <1> SUFFICES ASSUME native PROVE OneLifter' /\ \A q \in Procs : LifterStands(q)'
    BY DEF LiftersAlone
  <1>1. ASSUME NEW q \in Procs, pc'[q] \in Lifting PROVE pc[q] \in Lifting
    BY <1>1 DEF OthersStay
  <1>2. OneLifter'
    BY <1>1 DEF OneLifter
  <1>3. ASSUME NEW q \in Procs, q # p PROVE LifterStands(q)'
    <2> SUFFICES ASSUME pc'[q] \in Lifting PROVE LifterStands(q)'
      BY DEF LifterStands
    <2>1. /\ pc[q] \in Lifting /\ LifterStands(q)
          /\ pc'[q] = pc[q] /\ mine'[q] = mine[q] /\ observed'[q] = observed[q]
      BY <1>1, <1>3 DEF OthersStay
    <2>2. /\ lead'.pending = lead.pending /\ lead'.session = lead.session /\ owner' = owner
          /\ intent' # None => intent # None /\ intent' = intent
          /\ record = None => record' = None
          /\ session[mine[q]] = "none" => session'[mine[q]] = "none"
      BY <1>3, <2>1
    <2> QED
      BY <2>1, <2>2 DEF LifterStands
  <1>4. LifterStands(p)'
    BY DEF LifterStands
  <1> QED
    BY <1>2, <1>3, <1>4

\* A step that starts no session and moves no seat to another keeps the
\* numbers and the plans.
LEMMA SeatStep ==
    ASSUME TypeOK, TypeOK', PlacesFit, NumbersFit, PlansArePast, NEW p \in Procs, OthersStay(p),
           started' = started, session' = session,
           lead'.session = lead.session, owner'.session = owner.session,
           lead'.pending \in {lead.pending, None}, owner'.pending \in {owner.pending, mine[p], None},
           record' \in {record, None}, mine'[p] \in {mine[p], None},
           pc'[p] \notin {"persist", "publish"},
           pc'[p] \in Planned => pc[p] \in Planned /\ plan'[p] = plan[p]
    PROVE  NumbersFit' /\ PlansArePast'
  <1>1. started \in Nat /\ lead.session \in Nat /\ owner.session \in Nat
    BY Naturals
  <1>2. started' >= started
    BY <1>1
  <1>3. mine[p] # None => mine[p] <= started
    BY DEF NumbersFit
  <1>4. lead'.session <= owner'.session /\ owner'.session <= started'
    BY NumberFacts
  <1>5. lead'.pending # None => lead'.session < lead'.pending /\ lead'.pending <= started'
    BY NumberFacts
  <1>6. owner'.pending # None => owner'.pending <= started'
    BY <1>3, NumberFacts
  <1>7. record' # None => record' <= started'
    BY NumberFacts
  <1>8. \A g \in Generations : g > started' => session'[g] = "none"
    BY NumberFacts
  <1>9. NumbersFit'
    BY <1>2, <1>3, <1>4, <1>5, <1>6, <1>7, <1>8, NumbersGoOn
  <1>10. PlanIsPast(p)'
    BY DEF PlansArePast, PlanIsPast
  <1>11. lead'.session >= lead.session /\ owner'.session >= owner.session
    BY <1>1
  <1> QED
    BY <1>9, <1>10, <1>11, PlansOfOthers

\* A rebind that waits stands where its seats do.
LEMMA IntentKept ==
    ASSUME IntentStands, HalvesAgree, native' = native, intent' = intent, started' = started,
           lead'.session = lead.session, owner'.session = owner.session,
           intent # None /\ native /\ lead.session = intent.oldLead.session => lead' = lead,
           intent # None /\ native /\ owner.session = intent.oldOwner.session => owner' = owner
    PROVE  IntentStands' /\ HalvesAgree'
  BY DEF IntentStands, HalvesAgree

----------------------------------------------------------------------------
(* Steps of a lift.                                                         *)

\* A step that changes only the memory of its process.
LEMMA QuietStep == ASSUME IInv, TypeOK', PlacesFit', NEW p \in Procs, Quiet(p) PROVE RebindInv'
  <1> USE DEF IInv, RebindInv
  <1>1. UNCHANGED shared
    BY QuietShares
  <1>2. OthersStay(p)
    BY StepOfOne DEF Quiet, Step, LiftStep, BindStep, StopStep
  <1>3. /\ mine'[p] \in {mine[p], None}
        /\ native /\ pc'[p] \in Lifting => /\ pc[p] \in Lifting /\ mine'[p] = mine[p]
                                           /\ pc[p] # "unreserve child"
                                           /\ pc'[p] # "reserve child"
        /\ pc'[p] \in Unasked /\ native => pc[p] \in Unasked
        /\ pc'[p] \in {"persist", "publish"} => pc[p] = "persist" /\ mine'[p] = mine[p]
        /\ pc'[p] = "publish" => observed'[p] = owner
        /\ pc'[p] \notin {"bind root", "unlink", "retain", "retain root", "drop record"}
    BY MemoryTypes DEF Quiet, PlanStep, PlanRoot, PlanIntent, PlanRecovery, PlanLift, PlanRefused,
       ReserveRefused, Prepare, PrepareFails, ReadOwner, PublishRefused, Observe, NothingToRecover,
       BindStale, BindRefused, RetainRefused, At, Go, Leave, local, Lifting, Unasked
  <1>4. pc'[p] \in Planned => \/ plan'[p].lead = lead
                              \/ pc[p] \in Planned /\ plan'[p].lead = plan[p].lead
    <2>1. CASE PlanRoot(p)
      BY <2>1, MemoryTypes DEF PlanRoot
    <2>2. CASE PlanIntent(p) \/ PlanLift(p)
      <3>1. pc[p] \in Planned
        BY <2>2 DEF PlanIntent, PlanLift, At, Planned
      <3>2. plan[p] \in Plan
        BY <3>1 DEF PlacesFit, PlaceFits
      <3>3. \/ plan'[p] = [plan[p] EXCEPT !.pending = intent # None]
            \/ plan'[p] = [plan[p] EXCEPT !.owner = owner]
        BY <2>2, MemoryTypes DEF PlanIntent, PlanLift
      <3> QED
        BY <3>1, <3>2, <3>3 DEF Plan
    <2>3. CASE ~(PlanRoot(p) \/ PlanIntent(p) \/ PlanLift(p))
      BY <2>3, MemoryTypes DEF Quiet, PlanStep, PlanRecovery, PlanRefused,
         ReserveRefused, Prepare, PrepareFails, ReadOwner, PublishRefused, Observe,
         NothingToRecover, BindStale, BindRefused, RetainRefused, At, Go, Leave, local, Planned, Lifting
    <2> QED
      BY <2>1, <2>2, <2>3
  <1> USE <1>1 DEF shared
  <1>5. NumbersFit'
    BY <1>2, <1>3 DEF NumbersFit, OthersStay
  <1>6. PlansArePast'
    <2>1. PlanIsPast(p)
      BY DEF PlansArePast
    <2>2. lead.session \in Nat /\ owner.session \in Nat /\ lead.session <= owner.session
      BY Naturals DEF NumbersFit
    <2>3. PlanIsPast(p)'
      <3>1. pc'[p] \in Planned => plan'[p].lead.session <= lead.session
        BY <1>4, <2>1, <2>2 DEF PlanIsPast
      <3>2. pc'[p] \in {"persist", "publish"} => plan'[p].lead = plan[p].lead /\ pc[p] = "persist"
        <4>1. CASE ReadOwner(p)
          BY <4>1 DEF ReadOwner, At
        <4>2. CASE ~ReadOwner(p)
          BY <1>3, <4>2, MemoryTypes DEF Quiet, PlanStep, PlanRoot, PlanIntent, PlanRecovery, PlanLift,
             PlanRefused, ReserveRefused, Prepare, PrepareFails, PublishRefused, Observe,
             NothingToRecover, BindStale, BindRefused, RetainRefused, At, Go, Leave
        <4> QED
          BY <4>1, <4>2
      <3>3. pc'[p] = "publish" => observed'[p].session = owner.session
        BY <1>3
      <3>4. pc'[p] \in {"persist", "publish"} => plan[p].lead.session < mine[p]
        BY <1>3, <2>1 DEF PlanIsPast
      <3>5. pc'[p] = "publish" => plan[p].lead.session <= lead.session /\ plan[p].lead.session \in Nat
        BY <1>3, <2>1, PlanFields DEF PlanIsPast, Planned, Lifting
      <3>6. pc'[p] = "publish" => plan'[p].lead.session <= observed'[p].session
        BY <2>2, <3>2, <3>3, <3>5
      <3>7. pc'[p] \in {"persist", "publish"} => plan'[p].lead.session < mine'[p]
        BY <1>3, <3>2, <3>4
      <3>8. pc'[p] = "publish" => observed'[p].session <= owner.session
        BY <2>2, <3>3
      <3> QED
        BY <3>1, <3>6, <3>7, <3>8 DEF PlanIsPast
    <2> QED
      BY <1>2, <2>2, <2>3, PlansOfOthers
  <1>7. IntentStands' /\ HalvesAgree' /\ StopsAreTrue' /\ RecordStands'
    BY DEF IntentStands, HalvesAgree, StopsAreTrue, RecordStands
  <1>8. BindersFit'
    BY <1>2, <1>3, BindersOfOthers DEF BinderFits
  <1>9. LiftersAlone'
    <2>1. native /\ pc'[p] \in Lifting => LifterStands(p)'
      BY <1>3 DEF LiftersAlone, LifterStands
    <2> QED
      BY <1>2, <1>3, <2>1, LiftersOfOthers DEF LiftersAlone
  <1>10. RetainersFit'
    BY <1>2, <1>3, RetainersOfOthers DEF RetainerFits, Retaining
  <1> QED
    BY <1>5, <1>6, <1>7, <1>8, <1>9, <1>10

\* A reservation finds both seats stopped, the registry empty and nobody
\* else with a reservation; a rebind that waits has bound both seats.
LEMMA ReserveRootStep ==
    ASSUME IInv, TypeOK', PlacesFit', NEW p \in Procs, ReserveRoot(p) PROVE RebindInv'
  <1> USE DEF IInv, RebindInv
  <1> PICK g : g = started + 1
    OBVIOUS
  <1>0. g \in Generations /\ g \in Nat /\ started \in Nat /\ started < g
    <2>1. started < MaxGeneration /\ started \in Nat
      BY Naturals DEF ReserveRoot
    <2> QED
      BY ONLY <2>1, g = started + 1, TeamleadRebindAssumption DEF Generations
  <1>1. /\ native /\ rootLock = None /\ OthersStay(p) /\ native' = native
        /\ lead \in Seat /\ owner \in Seat /\ lead' = [lead EXCEPT !.pending = g]
    BY StepOfOne, Naturals DEF Step, LiftStep, ReserveRoot, TakeLocks, LocksFree, PlacesFit, PlaceFits,
       At, NativeOnly
  <1>2. /\ lead.pending = None /\ record = None /\ lead.stopped /\ owner.stopped
        /\ lead.session = owner.session
    BY DEF ReserveRoot, MayReserve, Terminal
  <1>3. /\ lead'.session = lead.session /\ lead'.pending = g /\ lead'.stopped = lead.stopped
    BY <1>1, WrittenFields
  <1>4. /\ UNCHANGED <<owner, intent, record, session>> /\ started' = g
        /\ mine'[p] = g /\ plan'[p] = plan[p] /\ pc[p] = "reserve" /\ pc'[p] = "reserve child"
    BY MemoryTypes DEF ReserveRoot, Go, At
  <1>5. lead.session \in Nat /\ owner.session \in Nat
    BY Naturals
  <1>6. ASSUME intent # None PROVE lead.session = intent.generation
    <2>1. intent.generation \in Nat
      BY <1>6, Naturals
    <2>2. lead # intent.oldLead
      BY <1>1, <1>2, <1>6, <2>1, TeamleadRebindAssumption DEF IntentStands
    <2> QED
      BY <1>1, <1>6, <2>2 DEF IntentStands
  <1>7. ASSUME NEW q \in Procs, q # p PROVE pc[q] \notin Lifting
    <2>1. pc[q] \notin Inside
      BY <1>1, <1>7, InsideAlone
    <2>2. pc[q] \in Lifting => mine[q] \in Generations
      BY <1>1 DEF PlacesFit, PlaceFits
    <2>3. pc[q] \in Lifting /\ pc[q] # "unreserve child" => lead.pending = mine[q]
      BY <1>1 DEF LiftersAlone, LifterStands
    <2>4. None \notin Generations
      BY TeamleadRebindAssumption DEF Generations
    <2> QED
      BY <1>2, <2>1, <2>2, <2>3, <2>4 DEF Inside
  <1>8. NumbersFit'
    <2>1. lead.session <= started /\ owner.session <= started
      BY ONLY <1>0, <1>5, NumbersFit, NumberFacts
    <2>6. started' = g /\ owner' = owner /\ lead'.session = lead.session /\ mine'[p] = g
      BY <1>3, <1>4
    <2>7. lead'.pending = g
      BY <1>3
    <2>2. /\ lead'.session <= owner'.session /\ owner'.session <= started'
          /\ lead'.session < lead'.pending /\ lead'.pending <= started' /\ started' >= started
      <3>1. lead.session < g /\ owner.session <= g /\ g <= g
        BY ONLY <1>0, <1>5, <2>1
      <3>2. started' >= started
        BY ONLY <1>0, <2>6
      <3>3. lead.session <= owner.session
        BY NumberFacts
      <3>4. lead'.session <= owner'.session /\ owner'.session <= started'
        BY ONLY <1>0, <1>5, <2>6, <3>1, <3>3
      <3>5. lead'.session < lead'.pending /\ lead'.pending <= started'
        BY ONLY <2>6, <2>7, <3>1
      <3> QED
        BY <3>2, <3>4, <3>5
    <2>3. owner'.pending # None => owner'.pending <= started'
      <3>1. owner.pending # None => owner.pending \in Nat /\ owner.pending <= started
        BY <1>1, SeatFields, NumberFacts
      <3> QED
        BY ONLY <1>0, <2>6, <3>1
    <2>4. \A h \in Generations : h > started' => session'[h] = "none"
      <3>1. \A h \in Generations : h > g => h > started
        BY ONLY <1>0, TeamleadRebindAssumption DEF Generations
      <3> QED
        BY <1>4, <3>1, NumberFacts
    <2>5. mine'[p] <= started'
      BY ONLY <1>0, <2>6
    <2> QED
      BY <1>1, <1>2, <1>4, <2>2, <2>3, <2>4, <2>5, NumbersGoOn
  <1>9. PlansArePast'
    <2>1. PlanIsPast(p)'
      BY <1>3, <1>4 DEF PlansArePast, PlanIsPast, Planned
    <2>2. lead'.session >= lead.session /\ owner'.session >= owner.session
      <3>1. lead'.session = lead.session /\ owner' = owner
        BY <1>3, <1>4
      <3> QED
        BY ONLY <1>5, <3>1
    <2> QED
      BY <1>1, <2>1, <2>2, PlansOfOthers
  <1>10. IntentStands' /\ HalvesAgree'
    <2>1. ASSUME intent # None PROVE lead.session # intent.oldLead.session
      BY <1>5, <1>6, <2>1, Naturals DEF IntentStands
    <2>2. ASSUME intent # None PROVE intent.generation <= started'
      <3>1. intent.generation \in Nat /\ intent.generation <= started
        BY <2>2, Naturals DEF IntentStands
      <3>2. started' = g
        BY <1>4
      <3> QED
        BY ONLY <1>0, <3>1, <3>2
    <2>3. IntentStands'
      BY <1>1, <1>3, <1>4, <2>1, <2>2 DEF IntentStands
    <2> QED
      BY <1>3, <1>4, <2>3 DEF HalvesAgree
  <1>11. BindersFit'
    BY <1>1, <1>4, BindersOfOthers DEF BinderFits
  <1>12. StopsAreTrue' /\ RecordStands'
    BY <1>1, <1>2, <1>3, <1>4, TeamleadRebindAssumption DEF StopsAreTrue, RecordStands, Generations
  <1>13. LiftersAlone'
    <2>1. ASSUME NEW q \in Procs, pc'[q] \in Lifting PROVE q = p
      BY <1>1, <1>7, <2>1 DEF OthersStay
    <2>2. session'[mine'[p]] = "none"
      <3>1. g > started
        BY ONLY <1>0
      <3> QED
        BY <1>0, <1>4, <3>1, NumberFacts
    <2>3. LifterStands(p)'
      BY <1>2, <1>3, <1>4, <1>6, <2>2 DEF LifterStands
    <2>4. OneLifter' /\ \A q \in Procs : LifterStands(q)'
      BY <2>1, <2>3 DEF OneLifter, LifterStands
    <2> QED
      BY <2>4 DEF LiftersAlone
  <1>14. RetainersFit'
    BY <1>1, <1>4, RetainersOfOthers DEF RetainerFits, Retaining
  <1> QED
    BY <1>8, <1>9, <1>10, <1>11, <1>12, <1>13, <1>14

\* The lift that reserved is alone.
LEMMA LifterAlone ==
    ASSUME LiftersAlone, native, NEW p \in Procs, pc[p] \in Lifting
    PROVE  /\ LifterStands(p)
           /\ \A q \in Procs : q # p => pc[q] \notin Lifting
  BY DEF LiftersAlone, OneLifter

\* Over a lift that has reserved, a rebind that waits has bound both seats.
LEMMA LifterOverIntent ==
    ASSUME TypeOK, IntentStands, NEW p \in Procs, LifterStands(p), pc[p] \in Lifting, intent # None
    PROVE  /\ lead.session # intent.oldLead.session
           /\ owner.session # intent.oldOwner.session
  <1>1. /\ lead.session = intent.generation /\ owner.session = intent.generation
        /\ intent.oldLead.session = intent.oldOwner.session
        /\ intent.oldLead.session < intent.generation
    BY DEF IntentStands, LifterStands
  <1>2. intent.oldLead.session \in Nat /\ intent.generation \in Nat
    BY Naturals
  <1> QED
    BY ONLY <1>1, <1>2

\* The child is reserved under the locks of the lift, which is alone.
LEMMA ReserveChildStep ==
    ASSUME IInv, TypeOK', PlacesFit', NEW p \in Procs, ReserveChild(p) PROVE RebindInv'
  <1> USE DEF IInv, RebindInv
  <1>1. /\ native /\ rootLock = p /\ OthersStay(p) /\ native' = native
        /\ owner \in Seat /\ owner' = [owner EXCEPT !.pending = mine[p]]
    BY StepOfOne, Naturals DEF Step, LiftStep, ReserveChild, PlacesFit, PlaceFits, At, NativeOnly,
       Inside
  <1>2. /\ pc[p] = "reserve child" /\ pc'[p] = "prepare" /\ plan'[p] = plan[p] /\ mine'[p] = mine[p]
        /\ UNCHANGED <<lead, intent, record, session, started>>
    BY MemoryTypes DEF ReserveChild, At, Go, local
  <1>3. owner'.session = owner.session /\ owner'.pending = mine[p] /\ owner'.stopped = owner.stopped
    BY <1>1, WrittenFields
  <1>4. /\ pc[p] \in Lifting /\ LifterStands(p)
        /\ \A q \in Procs : q # p => pc[q] \notin Lifting
    BY <1>1, <1>2, LifterAlone DEF Lifting
  <1>5. lead.pending = mine[p] /\ owner.stopped /\ record = None /\ session[mine[p]] = "none"
    BY <1>2, <1>4 DEF LifterStands, Unasked
  <1>6. NumbersFit' /\ PlansArePast'
    BY <1>1, <1>2, <1>3, SeatStep DEF Planned, Lifting
  <1>7. IntentStands' /\ HalvesAgree'
    BY <1>1, <1>2, <1>3, <1>4, LifterOverIntent, IntentKept
  <1>8. BindersFit'
    BY <1>1, <1>2, BindersOfOthers DEF BinderFits
  <1>9. StopsAreTrue' /\ RecordStands'
    BY <1>1, <1>2, <1>3, <1>5 DEF StopsAreTrue, RecordStands
  <1>10. LiftersAlone'
    <2>1. LifterStands(p)'
      BY <1>2, <1>4 DEF LifterStands, Unasked
    <2> QED
      BY <1>1, <1>4, <2>1, LiftersOfOthers DEF LiftersAlone
  <1>11. RetainersFit'
    BY <1>1, <1>2, RetainersOfOthers DEF RetainerFits, Retaining
  <1> QED
    BY <1>6, <1>7, <1>8, <1>9, <1>10, <1>11

\* A reservation is taken back only where it is the lift's own.
LEMMA UnreserveRootStep ==
    ASSUME IInv, TypeOK', PlacesFit', NEW p \in Procs, UnreserveRoot(p) PROVE RebindInv'
  <1> USE DEF IInv, RebindInv
  <1>1. /\ native /\ rootLock = None /\ OthersStay(p) /\ native' = native
        /\ lead \in Seat /\ lead' \in {lead, Unreserved(lead)}
    BY StepOfOne, Naturals DEF Step, LiftStep, UnreserveRoot, PlacesFit, PlaceFits, At, NativeOnly,
       TakeLocks, LocksFree, Cleared
  <1>2. /\ pc[p] = "unreserve" /\ pc'[p] = "unreserve child" /\ plan'[p] = plan[p] /\ mine'[p] = mine[p]
        /\ UNCHANGED <<owner, intent, record, session, started>>
    BY MemoryTypes DEF UnreserveRoot, At, Go, local
  <1>3. /\ lead'.session = lead.session /\ lead'.pending \in {lead.pending, None}
        /\ lead'.stopped = lead.stopped
    BY <1>1, WrittenFields
  <1>4. /\ pc[p] \in Lifting /\ LifterStands(p)
        /\ \A q \in Procs : q # p => pc[q] \notin Lifting
    BY <1>1, <1>2, LifterAlone DEF Lifting
  <1>5. record = None /\ session[mine[p]] = "none"
    BY <1>2, <1>4 DEF LifterStands, Unasked
  <1>6. NumbersFit' /\ PlansArePast'
    BY <1>1, <1>2, <1>3, SeatStep DEF Planned, Lifting
  <1>7. IntentStands' /\ HalvesAgree'
    BY <1>1, <1>2, <1>3, <1>4, LifterOverIntent, IntentKept
  <1>8. BindersFit'
    BY <1>1, <1>2, BindersOfOthers DEF BinderFits
  <1>9. StopsAreTrue' /\ RecordStands'
    BY <1>1, <1>2, <1>3, <1>5 DEF StopsAreTrue, RecordStands
  <1>10. LiftersAlone'
    <2>1. LifterStands(p)'
      BY <1>2, <1>3, <1>4, <1>5 DEF LifterStands, Unasked
    <2> QED
      BY <1>1, <1>4, <2>1, LiftersOfOthers DEF LiftersAlone
  <1>11. RetainersFit'
    BY <1>1, <1>2, RetainersOfOthers DEF RetainerFits, Retaining
  <1> QED
    BY <1>6, <1>7, <1>8, <1>9, <1>10, <1>11

LEMMA UnreserveChildStep ==
    ASSUME IInv, TypeOK', PlacesFit', NEW p \in Procs, UnreserveChild(p) PROVE RebindInv'
  <1> USE DEF IInv, RebindInv
  <1>1. /\ native /\ rootLock = p /\ OthersStay(p) /\ native' = native
        /\ owner \in Seat /\ owner' \in {owner, Unreserved(owner)}
    BY StepOfOne, Naturals DEF Step, LiftStep, UnreserveChild, PlacesFit, PlaceFits, At, NativeOnly,
       Inside, Cleared
  <1>2. /\ pc[p] = "unreserve child" /\ pc'[p] = "idle" /\ mine'[p] = None
        /\ UNCHANGED <<lead, intent, record, session, started>>
    BY MemoryTypes DEF UnreserveChild, At, Go, Leave
  <1>3. /\ owner'.session = owner.session /\ owner'.pending \in {owner.pending, None}
        /\ owner'.stopped = owner.stopped
    BY <1>1, WrittenFields
  <1>4. /\ pc[p] \in Lifting /\ LifterStands(p)
        /\ \A q \in Procs : q # p => pc[q] \notin Lifting
    BY <1>1, <1>2, LifterAlone DEF Lifting
  <1>6. NumbersFit' /\ PlansArePast'
    BY <1>1, <1>2, <1>3, SeatStep DEF Planned, Lifting
  <1>7. IntentStands' /\ HalvesAgree'
    BY <1>1, <1>2, <1>3, <1>4, LifterOverIntent, IntentKept
  <1>8. BindersFit'
    BY <1>1, <1>2, BindersOfOthers DEF BinderFits
  <1>9. StopsAreTrue' /\ RecordStands'
    BY <1>1, <1>2, <1>3 DEF StopsAreTrue, RecordStands
  <1>10. LiftersAlone'
    BY <1>1, <1>2, <1>4, LiftersOfOthers DEF LiftersAlone, Lifting
  <1>11. RetainersFit'
    BY <1>1, <1>2, RetainersOfOthers DEF RetainerFits, Retaining
  <1> QED
    BY <1>6, <1>7, <1>8, <1>9, <1>10, <1>11

\* What is launched has its own new generation: reserved, where the lead is
\* native, by a lift that is alone, after the registry was seen empty.
LEMMA LaunchStep ==
    ASSUME IInv, TypeOK', PlacesFit', NEW p \in Procs, Launch(p) PROVE RebindInv'
  <1> USE DEF IInv, RebindInv
  <1> PICK g : g = IF native THEN mine[p] ELSE started + 1
    OBVIOUS
  <1>1. OthersStay(p) /\ native' = native
    BY StepOfOne DEF Step, LiftStep
  <1>2. /\ pc[p] = "launch" /\ pc'[p] = "persist" /\ plan'[p] = plan[p]
        /\ UNCHANGED <<lead, owner, intent, rootLock>>
    BY MemoryTypes DEF Launch, At, Go, journals, locks
  <1>3. /\ mine'[p] = g /\ session' = [session EXCEPT ![g] = "alive"]
        /\ native => started' = started /\ record' = g
        /\ ~native => started' = g /\ record' = None
        /\ g <= MaxGeneration
    BY MemoryTypes DEF Launch
  <1>4. started \in Nat /\ lead.session \in Nat /\ owner.session \in Nat
    BY Naturals
  <1>5. ASSUME native
        PROVE  /\ LifterStands(p) /\ lead.pending = g /\ record = None /\ session[g] = "none"
               /\ \A q \in Procs : q # p => pc[q] \notin Lifting
    BY <1>2, <1>5, LifterAlone DEF LifterStands, Lifting, Unasked
  <1>6. g \in Generations /\ g \in Nat
    <2>1. CASE native
      <3>1. g \in Generations
        BY <1>2, <2>1 DEF PlacesFit, PlaceFits, Lifting
      <3> QED
        BY <3>1 DEF Generations
    <2>2. CASE ~native
      <3>1. g = started + 1
        BY <2>2
      <3>2. g <= MaxGeneration
        BY <1>3
      <3> QED
        BY ONLY <1>4, <3>1, <3>2, TeamleadRebindAssumption DEF Generations
    <2> QED
      BY <2>1, <2>2
  <1>7. lead.session < g /\ started' >= started /\ g <= started'
    <2>1. CASE native
      <3>1. lead.pending # None
        BY <1>5, <1>6, <2>1, TeamleadRebindAssumption
      <3>2. lead.session < g /\ g <= started
        BY <1>5, <2>1, <3>1, NumberFacts
      <3>3. started' = started
        BY <1>3, <2>1
      <3> QED
        BY ONLY <1>4, <1>6, <3>2, <3>3
    <2>2. CASE ~native
      <3>1. g = started + 1
        BY <2>2
      <3>2. lead.session <= owner.session /\ owner.session <= started
        BY NumberFacts
      <3>3. started' = g
        BY <1>3, <2>2
      <3> QED
        BY ONLY <1>4, <1>6, <3>1, <3>2, <3>3
    <2> QED
      BY <2>1, <2>2
  <1>8. session[g] = "none"
    <2>1. CASE ~native
      <3>1. g = started + 1
        BY <2>1
      <3>2. g > started
        BY ONLY <1>4, <3>1
      <3> QED
        BY <1>6, <3>2, NumberFacts
    <2> QED
      BY <1>5, <2>1
  <1>9. \A h \in Generations : session'[h] = IF h = g THEN "alive" ELSE session[h]
    BY <1>3 DEF TypeOK
  <1>10. started' \in Nat
    BY TeamleadRebindAssumption DEF TypeOK, Generations
  <1>11. NumbersFit'
    <2>1. lead'.session <= owner'.session /\ owner'.session <= started'
      <3>1. lead.session <= owner.session /\ owner.session <= started
        BY NumberFacts
      <3>2. owner.session <= started'
        BY ONLY <1>4, <1>7, <1>10, <3>1
      <3> QED
        BY <1>2, <3>1, <3>2
    <2>2. ASSUME NEW n \in Nat, n <= started PROVE n <= started'
      BY ONLY <1>4, <1>7, <1>10, <2>2
    <2>3. lead'.pending # None => lead'.session < lead'.pending /\ lead'.pending <= started'
      BY <1>2, <2>2, NumberFacts, Naturals
    <2>4. owner'.pending # None => owner'.pending <= started'
      BY <1>2, <2>2, NumberFacts, Naturals
    <2>5. record' # None => record' <= started'
      BY <1>3, <1>7
    <2>6. ASSUME NEW h \in Generations, h > started' PROVE session'[h] = "none"
      <3>1. h \in Nat
        BY DEF Generations
      <3>2. h > started /\ h # g
        BY ONLY <1>4, <1>6, <1>7, <1>10, <2>6, <3>1
      <3> QED
        BY <1>9, <3>2, NumberFacts
    <2>7. mine'[p] <= started'
      BY <1>3, <1>7
    <2> QED
      BY <1>1, <1>7, <2>1, <2>3, <2>4, <2>5, <2>6, <2>7, NumbersGoOn
  <1>12. PlansArePast'
    <2>1. plan[p].lead.session <= lead.session /\ plan[p].lead.session \in Nat
      BY <1>2, PlanFields DEF PlansArePast, PlanIsPast, Planned, Lifting
    <2>2. plan[p].lead.session < g
      BY ONLY <1>4, <1>6, <1>7, <2>1
    <2>3. PlanIsPast(p)'
      BY <1>2, <1>3, <2>1, <2>2 DEF PlanIsPast
    <2>4. lead'.session >= lead.session /\ owner'.session >= owner.session
      BY <1>2, <1>4
    <2> QED
      BY <1>1, <2>3, <2>4, PlansOfOthers
  <1>13. IntentStands' /\ HalvesAgree'
    <2>1. ASSUME intent # None PROVE intent.generation <= started'
      <3>1. intent.generation \in Nat /\ intent.generation <= started
        BY <2>1, Naturals DEF IntentStands
      <3> QED
        BY ONLY <1>4, <1>7, <1>10, <3>1
    <2> QED
      BY <1>1, <1>2, <2>1 DEF IntentStands, HalvesAgree
  <1>14. BindersFit'
    BY <1>1, <1>2, BindersOfOthers DEF BinderFits
  <1>15. StopsAreTrue' /\ RecordStands'
    <2>1. StopsAreTrue'
      BY <1>1, <1>2, <1>8, <1>9, Naturals, SeatFields DEF StopsAreTrue
    <2>2. RecordStands'
      BY <1>1, <1>2, <1>3, <1>5, <1>9, TeamleadRebindAssumption DEF RecordStands, Generations
    <2> QED
      BY <2>1, <2>2
  <1>16. LiftersAlone'
    <2>1. native => LifterStands(p)'
      BY <1>2, <1>3, <1>5 DEF LifterStands, Unasked, Lifting
    <2> QED
      BY <1>1, <1>2, <1>5, <2>1, LiftersOfOthers DEF LiftersAlone, Lifting
  <1>17. RetainersFit'
    <2>1. ASSUME NEW q \in Procs PROVE pc[q] \notin Retaining
      <3>1. pc[q] \in Retaining => native /\ mine[q] \in Generations /\ record = mine[q]
        BY DEF PlacesFit, PlaceFits, NativeOnly, Retaining, RetainersFit, RetainerFits
      <3> QED
        BY <1>5, <3>1, TeamleadRebindAssumption DEF Generations
    <2>2. ASSUME NEW q \in Procs, pc[q] \in {"retain"} \cup Retaining, session[mine[q]] = "stopped"
          PROVE  session'[mine[q]] = "stopped"
      <3>1. mine[q] \in Generations
        BY <2>2 DEF PlacesFit, PlaceFits
      <3> QED
        BY <1>8, <1>9, <2>2, <3>1
    <2>3. RetainerFits(p)'
      BY <1>2 DEF RetainerFits, Retaining
    <2> QED
      BY <1>1, <2>1, <2>2, <2>3, RetainersOfOthers
  <1> QED
    BY <1>11, <1>12, <1>13, <1>14, <1>15, <1>16, <1>17

\* No record is retained while none is there.
LEMMA NoneRetains ==
    ASSUME PlacesFit, RetainersFit, native => record = None
    PROVE  \A q \in Procs : pc[q] \notin Retaining
  <1>1. ASSUME NEW q \in Procs, pc[q] \in Retaining PROVE FALSE
    <2>1. native /\ mine[q] \in Generations /\ record = mine[q]
      BY <1>1 DEF PlacesFit, PlaceFits, NativeOnly, RetainersFit, RetainerFits
    <2> QED
      BY <2>1, TeamleadRebindAssumption DEF Generations
  <1> QED
    BY <1>1

\* A lift that fails before its driver answered leaves no record, and none
\* was there.
LEMMA LaunchFailsStep ==
    ASSUME IInv, TypeOK', PlacesFit', NEW p \in Procs, LaunchFails(p) PROVE RebindInv'
  <1> USE DEF IInv, RebindInv
  <1>1. OthersStay(p) /\ native' = native
    BY StepOfOne DEF Step, LiftStep
  <1>2. /\ pc[p] = "launch" /\ pc'[p] = "idle" /\ mine'[p] = None /\ record' = None
        /\ UNCHANGED <<lead, owner, intent, session, started, rootLock>>
    BY MemoryTypes DEF LaunchFails, At, Go, Leave, journals, locks
  <1>3. ASSUME native PROVE record = None /\ \A q \in Procs : q # p => pc[q] \notin Lifting
    BY <1>2, <1>3, LifterAlone DEF LifterStands, Lifting, Unasked
  <1>4. NumbersFit' /\ PlansArePast'
    BY <1>1, <1>2, SeatStep DEF Planned, Lifting
  <1>5. IntentStands' /\ HalvesAgree'
    BY <1>1, <1>2, IntentKept
  <1>6. BindersFit'
    BY <1>1, <1>2, BindersOfOthers DEF BinderFits
  <1>7. StopsAreTrue' /\ RecordStands'
    BY <1>1, <1>2, <1>3 DEF StopsAreTrue, RecordStands
  <1>8. LiftersAlone'
    BY <1>1, <1>2, <1>3, LiftersOfOthers DEF LiftersAlone, Lifting
  <1>9. RetainersFit'
    BY <1>1, <1>2, <1>3, NoneRetains, RetainersOfOthers DEF RetainerFits, Retaining
  <1> QED
    BY <1>4, <1>5, <1>6, <1>7, <1>8, <1>9

\* The intent is published where no rebind waits, so both seats are at the
\* session the lift planned over, and the new one is younger.
LEMMA PublishIntentStep ==
    ASSUME IInv, TypeOK', PlacesFit', NEW p \in Procs, PublishIntent(p) PROVE RebindInv'
  <1> USE DEF IInv, RebindInv
  <1>1. OthersStay(p) /\ native' = native
    BY StepOfOne DEF Step, LiftStep
  <1>2. /\ pc[p] = "publish" /\ pc'[p] = "observe" /\ mine'[p] = mine[p]
        /\ rootLock = None /\ intent = None /\ lead.session = plan[p].lead.session
        /\ UNCHANGED <<lead, owner, record, session, started, rootLock>>
    BY MemoryTypes DEF PublishIntent, MayPublish, At, Go, journals, locks
  <1>3. ASSUME native
        PROVE  /\ lead.pending = mine[p] /\ observed[p] = owner
               /\ \A q \in Procs : q # p => pc[q] \notin Lifting
    BY <1>2, <1>3, LifterAlone DEF LifterStands, Lifting
  <1>4. NumbersFit' /\ PlansArePast'
    BY <1>1, <1>2, SeatStep DEF Planned, Lifting
  <1>5. /\ mine[p] \in Generations /\ observed[p] \in Seat
        /\ mine[p] \in Nat /\ mine[p] # None
    BY <1>2, TeamleadRebindAssumption DEF PlacesFit, PlaceFits, Generations
  <1>6. /\ intent'.generation = mine[p] /\ intent'.oldLead = lead /\ intent'.oldOwner = observed[p]
    BY DEF PublishIntent
  <1>7. lead.session < mine[p] /\ observed[p].session = lead.session /\ mine[p] <= started
    <2>1. /\ lead.session \in Nat /\ owner.session \in Nat /\ observed[p].session \in Nat
      BY <1>5, Naturals, SeatFields
    <2>2. plan[p].lead.session < mine[p]
      BY <1>2 DEF PlansArePast, PlanIsPast
    <2>3. plan[p].lead.session <= observed[p].session /\ observed[p].session <= owner.session
      BY <1>2 DEF PlansArePast, PlanIsPast
    <2>4. owner.session = lead.session /\ plan[p].lead.session = lead.session
      BY <1>2 DEF HalvesAgree
    <2>5. observed[p].session = lead.session
      BY ONLY <2>1, <2>3, <2>4
    <2> QED
      BY <1>5, <2>2, <2>4, <2>5 DEF NumbersFit
  <1>8. lead.session # mine[p] /\ owner.session = lead.session
    <2>1. lead.session \in Nat
      BY Naturals
    <2>2. lead.session # mine[p]
      BY ONLY <1>5, <1>7, <2>1
    <2> QED
      BY <1>2, <2>2 DEF HalvesAgree
  <1>9. intent' # None
    BY <1>6, <1>5, NoRecordAssumption, Naturals DEF PublishIntent, Intent
  <1>10. IntentStands' /\ HalvesAgree'
    BY <1>1, <1>2, <1>3, <1>6, <1>7, <1>8, <1>9 DEF IntentStands, HalvesAgree
  <1>11. BindersFit'
    BY <1>1, <1>2, BindersOfOthers DEF BinderFits
  <1>12. StopsAreTrue' /\ RecordStands'
    BY <1>1, <1>2 DEF StopsAreTrue, RecordStands
  <1>13. LiftersAlone'
    BY <1>1, <1>2, <1>3, LiftersOfOthers DEF LiftersAlone, Lifting
  <1>14. RetainersFit'
    BY <1>1, <1>2, RetainersOfOthers DEF RetainerFits, Retaining
  <1> QED
    BY <1>4, <1>10, <1>11, <1>12, <1>13, <1>14

----------------------------------------------------------------------------
(* Steps of a stop, and a crash.                                            *)

\* The stop asks and confirms in one step; a session that ran is in the
\* registry under that generation.
LEMMA StopHolderStep ==
    ASSUME IInv, TypeOK', PlacesFit', NEW p \in Procs, StopHolder(p) PROVE RebindInv'
  <1> USE DEF IInv, RebindInv
  <1>1. OthersStay(p) /\ native' = native
    BY StepOfOne DEF Step, StopStep
  <1>2. /\ pc[p] = "idle" /\ pc'[p] = "retain" /\ mine'[p] = record /\ record \in Generations
        /\ session[record] \in {"alive", "stopped"} /\ session' = [session EXCEPT ![record] = "stopped"]
        /\ UNCHANGED <<lead, owner, intent, record, started, rootLock>>
    BY MemoryTypes DEF StopHolder, At, Go, journals, locks, TypeOK
  <1>3. \A h \in Generations : session'[h] = IF h = record THEN "stopped" ELSE session[h]
    BY <1>2 DEF TypeOK
  <1>4. record # None
    BY <1>2, TeamleadRebindAssumption DEF Generations
  <1>5. NumbersFit'
    <2>1. \A h \in Generations : h > started' => session'[h] = "none"
      BY <1>2, <1>3, NumberFacts
    <2>2. record <= started /\ started' >= started
      BY <1>2, <1>4, Naturals, NumberFacts
    <2> QED
      BY <1>1, <1>2, <2>1, <2>2, NumberFacts, NumbersGoOn
  <1>6. PlansArePast'
    <2>1. lead'.session >= lead.session /\ owner'.session >= owner.session
      BY <1>2, Naturals
    <2> QED
      BY <1>1, <1>2, <2>1, PlansOfOthers DEF PlanIsPast, Planned, Lifting
  <1>7. IntentStands' /\ HalvesAgree'
    BY <1>1, <1>2, IntentKept
  <1>8. BindersFit'
    BY <1>1, <1>2, BindersOfOthers DEF BinderFits
  <1>9. StopsAreTrue' /\ RecordStands'
    BY <1>1, <1>2, <1>3, Naturals, SeatFields DEF StopsAreTrue, RecordStands
  <1>10. LiftersAlone'
    <2>1. ASSUME NEW q \in Procs, native, pc[q] \in Lifting, session[mine[q]] = "none"
          PROVE  session'[mine[q]] = "none"
      BY <1>2, <1>3, <2>1 DEF PlacesFit, PlaceFits
    <2> QED
      BY <1>1, <1>2, <2>1, LiftersOfOthers DEF LiftersAlone, Lifting
  <1>11. RetainersFit'
    <2>1. ASSUME NEW q \in Procs, pc[q] \in {"retain"} \cup Retaining, session[mine[q]] = "stopped"
          PROVE  session'[mine[q]] = "stopped"
      BY <1>3, <2>1 DEF PlacesFit, PlaceFits
    <2>2. RetainerFits(p)'
      BY <1>2, <1>3 DEF RetainerFits, Retaining
    <2> QED
      BY <1>1, <1>2, <2>1, <2>2, RetainersOfOthers
  <1> QED
    BY <1>5, <1>6, <1>7, <1>8, <1>9, <1>10, <1>11

\* The record is dropped by the stop that retained its proof in both seats.
LEMMA DropRecordStep ==
    ASSUME IInv, TypeOK', PlacesFit', NEW p \in Procs, DropRecord(p) PROVE RebindInv'
  <1> USE DEF IInv, RebindInv
  <1>1. OthersStay(p) /\ native' = native
    BY StepOfOne DEF Step, StopStep
  <1>2. /\ pc[p] = "drop record" /\ pc'[p] = "idle" /\ mine'[p] = None /\ record' = None /\ rootLock = p
        /\ UNCHANGED <<lead, owner, intent, session, started>>
    BY MemoryTypes DEF DropRecord, DropLocks, At, Go, Leave, journals
  <1>3. record = mine[p] /\ session[mine[p]] = "stopped"
    BY <1>2 DEF RetainersFit, RetainerFits, Retaining
  <1>4. NumbersFit' /\ PlansArePast'
    BY <1>1, <1>2, SeatStep DEF Planned, Lifting
  <1>5. IntentStands' /\ HalvesAgree'
    BY <1>1, <1>2, IntentKept
  <1>6. BindersFit'
    BY <1>1, <1>2, BindersOfOthers DEF BinderFits
  <1>7. StopsAreTrue' /\ RecordStands'
    BY <1>1, <1>2, <1>3 DEF StopsAreTrue, RecordStands
  <1>8. LiftersAlone'
    BY <1>1, <1>2, LiftersOfOthers DEF LiftersAlone, Lifting
  <1>9. RetainersFit'
    BY <1>1, <1>2, RetainersOfOthers DEF RetainerFits, Retaining
  <1> QED
    BY <1>4, <1>5, <1>6, <1>7, <1>8, <1>9

\* A crash forgets the memory of one process and frees its locks.
LEMMA CrashStep ==
    ASSUME IInv, TypeOK', PlacesFit', NEW p \in Procs, Crash(p) PROVE RebindInv'
  <1> USE DEF IInv, RebindInv
  <1>1. OthersStay(p) /\ native' = native
    BY StepOfOne
  <1>2. /\ pc'[p] = "idle" /\ mine'[p] = None
        /\ UNCHANGED <<lead, owner, intent, record, session, started>>
    BY MemoryTypes DEF Crash, At, Go, Leave, journals
  <1>3. NumbersFit' /\ PlansArePast'
    BY <1>1, <1>2, SeatStep DEF Planned, Lifting
  <1>4. IntentStands' /\ HalvesAgree'
    BY <1>1, <1>2, IntentKept
  <1>5. BindersFit'
    BY <1>1, <1>2, BindersOfOthers DEF BinderFits
  <1>6. StopsAreTrue' /\ RecordStands'
    BY <1>1, <1>2 DEF StopsAreTrue, RecordStands
  <1>7. LiftersAlone'
    BY <1>1, <1>2, LiftersOfOthers DEF LiftersAlone, Lifting
  <1>8. RetainersFit'
    BY <1>1, <1>2, RetainersOfOthers DEF RetainerFits, Retaining
  <1> QED
    BY <1>3, <1>4, <1>5, <1>6, <1>7, <1>8

\* A record of the session in the seat excludes a reservation.
LEMMA LinkedUnreserved ==
    ASSUME TypeOK, NumbersFit, RecordStands, native, record # None, Linked
    PROVE  lead.pending = None
  <1> SUFFICES ASSUME lead.pending # None PROVE FALSE
    OBVIOUS
  <1>1. record = lead.pending /\ record = lead.session /\ lead.session < lead.pending
    BY NumberFacts DEF RecordStands, Linked
  <1>2. lead.session \in Nat
    BY Naturals
  <1>3. lead.session < lead.session
    BY <1>1
  <1> QED
    BY ONLY <1>2, <1>3

\* So nobody lifts over it, and a rebind that waits has bound the lead.
LEMMA LinkedAlone ==
    ASSUME IInv, native, record # None, Linked, rootLock = None \/ \E p \in Procs : rootLock = p /\ pc[p] \in Retaining
    PROVE  /\ \A q \in Procs : pc[q] \notin Lifting
           /\ intent # None => /\ lead.session # intent.oldLead.session
                               /\ owner.session # intent.oldOwner.session
  <1> USE DEF IInv, RebindInv
  <1>1. lead.pending = None
    BY LinkedUnreserved
  <1>2. ASSUME NEW q \in Procs, pc[q] \in Lifting PROVE FALSE
    <2>1. pc[q] # "unreserve child"
      <3>1. pc[q] = "unreserve child" => rootLock = q
        BY DEF PlacesFit, PlaceFits, Inside
      <3> QED
        BY <3>1, TeamleadRebindAssumption DEF Retaining
    <2>2. lead.pending = mine[q] /\ mine[q] \in Generations
      BY <1>2, <2>1 DEF LiftersAlone, LifterStands, PlacesFit, PlaceFits
    <2> QED
      BY <1>1, <2>2, TeamleadRebindAssumption DEF Generations
  <1>3. intent # None => lead.session # intent.oldLead.session
    BY <1>1, Naturals, TeamleadRebindAssumption DEF IntentStands
  <1>4. lead.session = owner.session
    BY DEF Linked
  <1> QED
    BY <1>2, <1>3, <1>4 DEF IntentStands

\* The proof of a stop goes into the child's seat, then into the root's.
LEMMA RetainOwnerStep ==
    ASSUME IInv, TypeOK', PlacesFit', NEW p \in Procs, RetainOwner(p) PROVE RebindInv'
  <1> USE DEF IInv, RebindInv
  <1>1. /\ native /\ OthersStay(p) /\ native' = native /\ owner \in Seat
        /\ owner' = [owner EXCEPT !.stopped = TRUE]
    BY StepOfOne, Naturals DEF Step, StopStep, RetainOwner, PlacesFit, PlaceFits, At, NativeOnly
  <1>2. /\ pc[p] = "retain" /\ pc'[p] = "retain root" /\ mine'[p] = mine[p] /\ mine[p] \in Generations
        /\ rootLock = None /\ record = mine[p] /\ Linked
        /\ UNCHANGED <<lead, intent, record, session, started>>
    BY MemoryTypes DEF RetainOwner, TakeLocks, LocksFree, At, Go, local, PlacesFit, PlaceFits
  <1>3. owner'.session = owner.session /\ owner'.pending = owner.pending /\ owner'.stopped
    BY <1>1, WrittenFields
  <1>4. record # None
    <2>1. None \notin Generations
      BY TeamleadRebindAssumption DEF Generations
    <2> QED
      BY <1>2, <2>1
  <1>5. /\ \A q \in Procs : pc[q] \notin Lifting
        /\ intent # None => /\ lead.session # intent.oldLead.session
                            /\ owner.session # intent.oldOwner.session
    BY <1>1, <1>2, <1>4, LinkedAlone
  <1>6. session[owner.session] = "stopped"
    BY <1>2 DEF RetainersFit, RetainerFits, Linked
  <1>7. NumbersFit' /\ PlansArePast'
    BY <1>1, <1>2, <1>3, SeatStep DEF Planned, Lifting
  <1>8. IntentStands' /\ HalvesAgree'
    BY <1>1, <1>2, <1>3, <1>5, IntentKept
  <1>9. BindersFit'
    BY <1>1, <1>2, BindersOfOthers DEF BinderFits
  <1>10. StopsAreTrue' /\ RecordStands'
    BY <1>1, <1>2, <1>3, <1>6 DEF StopsAreTrue, RecordStands
  <1>11. LiftersAlone'
    BY <1>1, <1>2, <1>5, LiftersOfOthers DEF LiftersAlone, Lifting
  <1>12. RetainersFit'
    <2>1. RetainerFits(p)'
      BY <1>2, <1>3 DEF RetainersFit, RetainerFits, Linked
    <2> QED
      BY <1>1, <1>2, <2>1, RetainersOfOthers
  <1> QED
    BY <1>7, <1>8, <1>9, <1>10, <1>11, <1>12

LEMMA RetainLeadStep ==
    ASSUME IInv, TypeOK', PlacesFit', NEW p \in Procs, RetainLead(p) PROVE RebindInv'
  <1> USE DEF IInv, RebindInv
  <1>1. /\ native /\ OthersStay(p) /\ native' = native /\ lead \in Seat
        /\ lead' = [lead EXCEPT !.stopped = TRUE]
    BY StepOfOne, Naturals DEF Step, StopStep, RetainLead, PlacesFit, PlaceFits, At, NativeOnly, Retaining
  <1>2. /\ pc[p] = "retain root" /\ pc'[p] = "drop record" /\ mine'[p] = mine[p] /\ mine[p] \in Generations
        /\ rootLock = p /\ rootLock' = p /\ record = mine[p] /\ Linked
        /\ UNCHANGED <<owner, intent, record, session, started>>
    BY MemoryTypes DEF RetainLead, At, Go, local, locks, PlacesFit, PlaceFits, Retaining, Inside,
       RetainersFit, RetainerFits
  <1>3. lead'.session = lead.session /\ lead'.pending = lead.pending /\ lead'.stopped
    BY <1>1, WrittenFields
  <1>4. record # None
    <2>1. None \notin Generations
      BY TeamleadRebindAssumption DEF Generations
    <2> QED
      BY <1>2, <2>1
  <1>5. /\ \A q \in Procs : pc[q] \notin Lifting
        /\ intent # None => /\ lead.session # intent.oldLead.session
                            /\ owner.session # intent.oldOwner.session
    BY <1>1, <1>2, <1>4, LinkedAlone DEF Retaining
  <1>6. session[lead.session] = "stopped"
    BY <1>2 DEF RetainersFit, RetainerFits, Linked, Retaining
  <1>7. NumbersFit' /\ PlansArePast'
    BY <1>1, <1>2, <1>3, SeatStep DEF Planned, Lifting
  <1>8. IntentStands' /\ HalvesAgree'
    BY <1>1, <1>2, <1>3, <1>5, IntentKept
  <1>9. BindersFit'
    BY <1>1, <1>2, BindersOfOthers DEF BinderFits
  <1>10. StopsAreTrue' /\ RecordStands'
    BY <1>1, <1>2, <1>3, <1>6 DEF StopsAreTrue, RecordStands
  <1>11. LiftersAlone'
    BY <1>1, <1>2, <1>5, LiftersOfOthers DEF LiftersAlone, Lifting
  <1>12. RetainersFit'
    <2>1. RetainerFits(p)'
      BY <1>2, <1>3 DEF RetainersFit, RetainerFits, Linked, Retaining
    <2> QED
      BY <1>1, <1>2, <2>1, RetainersOfOthers
  <1> QED
    BY <1>7, <1>8, <1>9, <1>10, <1>11, <1>12

\* A session that ends by itself was neither stopped nor yet to come.
LEMMA SessionEndsStep ==
    ASSUME IInv, TypeOK', PlacesFit', NEW g \in Generations, SessionEnds(g) PROVE RebindInv'
  <1> USE DEF IInv, RebindInv
  <1>1. /\ UNCHANGED <<native, lead, owner, intent, record, started, pc, plan, mine, observed>>
        /\ session[g] = "alive" /\ session' = [session EXCEPT ![g] = "dead"]
    BY DEF SessionEnds, journals, local
  <1>2. \A h \in Generations : session'[h] = IF h = g THEN "dead" ELSE session[h]
    BY <1>1 DEF TypeOK
  <1>3. \A h \in Generations : /\ session[h] \in {"none", "stopped"} => session'[h] = session[h]
                               /\ session'[h] = "alive" => session[h] = "alive"
    BY <1>1, <1>2
  <1>4. NumbersFit' /\ PlansArePast' /\ IntentStands' /\ HalvesAgree' /\ BindersFit'
    BY <1>1, <1>3 DEF NumbersFit, PlansArePast, PlanIsPast, IntentStands, HalvesAgree, BindersFit,
       BinderFits
  <1>5. StopsAreTrue' /\ RecordStands'
    BY <1>1, <1>3, Naturals, SeatFields DEF StopsAreTrue, RecordStands
  <1>6. LiftersAlone'
    <2>1. ASSUME native, NEW q \in Procs, LifterStands(q) PROVE LifterStands(q)'
      BY <1>1, <1>3, <2>1 DEF LifterStands, PlacesFit, PlaceFits
    <2> QED
      BY <1>1, <2>1 DEF LiftersAlone, OneLifter
  <1>7. RetainersFit'
    BY <1>1, <1>3 DEF RetainersFit, RetainerFits, PlacesFit, PlaceFits, Linked
  <1> QED
    BY <1>4, <1>5, <1>6, <1>7

----------------------------------------------------------------------------
(* Steps that finish a rebind.                                              *)

\* The numbers of a rebind that waits.
LEMMA IntentNumbers ==
    ASSUME TypeOK, IntentStands, intent # None
    PROVE  /\ intent.generation \in Nat /\ intent.generation <= started
           /\ lead.session <= intent.generation /\ owner.session <= intent.generation
           /\ intent.oldLead.session # intent.generation /\ intent.oldOwner.session # intent.generation
  <1>1. /\ intent.oldLead.session = intent.oldOwner.session
        /\ intent.oldLead.session < intent.generation
        /\ intent.generation <= started
        /\ lead.session \in {intent.oldLead.session, intent.generation}
        /\ owner.session \in {intent.oldOwner.session, intent.generation}
    BY DEF IntentStands
  <1>2. intent.oldLead.session \in Nat /\ intent.generation \in Nat
    BY Naturals
  <1> QED
    BY ONLY <1>1, <1>2

\* The child's seat is moved to the new generation, which the intent names.
LEMMA BindChildStep ==
    ASSUME IInv, TypeOK', PlacesFit', NEW p \in Procs, BindChild(p) PROVE RebindInv'
  <1> USE DEF IInv, RebindInv
  <1> PICK g : g = intent.generation
    OBVIOUS
  <1>1. OthersStay(p) /\ native' = native
    BY StepOfOne DEF Step, BindStep
  <1>2. /\ pc[p] = "bind" /\ pc'[p] = "bind root" /\ mine'[p] = mine[p] /\ plan'[p] = plan[p]
        /\ rootLock = None /\ intent # None
        /\ owner' = IF owner.session = g THEN owner ELSE Fresh(g)
        /\ UNCHANGED <<lead, intent, record, session, started>>
    BY MemoryTypes DEF BindChild, TakeLocks, LocksFree, At, Go, local
  <1>3. /\ owner'.session = g /\ owner'.pending \in {owner.pending, None}
        /\ owner' = owner \/ (~owner'.stopped /\ owner'.pending = None)
    BY <1>2, FreshFields
  <1>4. /\ g \in Nat /\ g <= started /\ lead.session <= g /\ owner.session <= g
        /\ intent.oldLead.session # g /\ intent.oldOwner.session # g
    BY <1>2, IntentNumbers
  <1>5. started \in Nat /\ owner.session \in Nat /\ lead.session \in Nat
    BY Naturals
  <1>6. NumbersFit'
    <2>1. started' >= started
      <3>1. started' = started
        BY <1>2
      <3> QED
        BY ONLY <1>5, <3>1
    <2>2. mine'[p] # None => mine'[p] <= started'
      BY <1>2 DEF NumbersFit
    <2>3. owner'.pending # None => owner'.pending <= started'
      BY <1>2, <1>3, NumberFacts
    <2> QED
      BY <1>1, <1>2, <1>3, <1>4, <2>1, <2>2, <2>3, NumberFacts, NumbersGoOn
  <1>7. PlansArePast'
    <2>1. lead'.session >= lead.session /\ owner'.session >= owner.session
      <3>1. lead'.session = lead.session /\ owner'.session = g
        BY <1>2, <1>3
      <3> QED
        BY ONLY <1>4, <1>5, <3>1
    <2> QED
      BY <1>1, <1>2, <2>1, PlansOfOthers DEF PlanIsPast, Planned, Lifting
  <1>8. IntentStands' /\ HalvesAgree'
    BY <1>1, <1>2, <1>3, <1>4 DEF IntentStands, HalvesAgree
  <1>9. BindersFit'
    BY <1>1, <1>2, <1>3, BindersOfOthers DEF BinderFits
  <1>10. StopsAreTrue' /\ RecordStands'
    BY <1>1, <1>2, <1>3 DEF StopsAreTrue, RecordStands
  <1>11. LiftersAlone'
    <2>1. ASSUME native, NEW q \in Procs, pc[q] \in Lifting, LifterStands(q) PROVE owner' = owner
      BY <1>2, <2>1 DEF LifterStands, IntentStands
    <2> QED
      BY <1>1, <1>2, <2>1, LiftersOfOthers DEF LiftersAlone, Lifting
  <1>12. RetainersFit'
    BY <1>1, <1>2, RetainersOfOthers DEF RetainerFits, Retaining
  <1> QED
    BY <1>6, <1>7, <1>8, <1>9, <1>10, <1>11, <1>12

\* The root's seat follows; where it held the reservation of the new
\* generation the registry can have no other record.
LEMMA BindRootStep ==
    ASSUME IInv, TypeOK', PlacesFit', NEW p \in Procs, BindRoot(p) PROVE RebindInv'
  <1> USE DEF IInv, RebindInv
  <1> PICK g : g = intent.generation
    OBVIOUS
  <1>1. OthersStay(p) /\ native' = native
    BY StepOfOne DEF Step, BindStep
  <1>2. /\ pc[p] = "bind root" /\ pc'[p] = "unlink" /\ mine'[p] = mine[p] /\ plan'[p] = plan[p]
        /\ rootLock = p /\ intent # None /\ owner.session = g
        /\ lead' = IF lead.session = g THEN lead ELSE Fresh(g)
        /\ UNCHANGED <<owner, intent, record, session, started>>
    BY MemoryTypes DEF BindRoot, At, Go, local, PlacesFit, PlaceFits, Inside, BindersFit, BinderFits
  <1>3. /\ lead'.session = g /\ lead'.pending \in {lead.pending, None}
        /\ lead' = lead \/ (~lead'.stopped /\ lead'.pending = None)
    BY <1>2, FreshFields
  <1>4. /\ g \in Nat /\ g <= started /\ lead.session <= g
        /\ intent.oldLead.session # g /\ intent.oldOwner.session # g
    BY <1>2, IntentNumbers
  <1>5. started \in Nat /\ owner.session \in Nat /\ lead.session \in Nat
    BY Naturals
  <1>6. NumbersFit'
    <2>1. started' >= started /\ lead'.session <= owner'.session /\ owner'.session <= started'
      <3>1. lead'.session = g /\ owner'.session = g /\ started' = started
        BY <1>2, <1>3
      <3> QED
        BY ONLY <1>4, <1>5, <3>1
    <2>2. mine'[p] # None => mine'[p] <= started'
      BY <1>2 DEF NumbersFit
    <2>3. lead'.pending # None => lead'.session < lead'.pending /\ lead'.pending <= started'
      BY <1>2, <1>3, NumberFacts
    <2> QED
      BY <1>1, <1>2, <2>1, <2>2, <2>3, NumberFacts, NumbersGoOn
  <1>7. PlansArePast'
    <2>1. lead'.session >= lead.session /\ owner'.session >= owner.session
      <3>1. lead'.session = g /\ owner'.session = owner.session
        BY <1>2, <1>3
      <3> QED
        BY ONLY <1>4, <1>5, <3>1
    <2> QED
      BY <1>1, <1>2, <2>1, PlansOfOthers DEF PlanIsPast, Planned, Lifting
  <1>8. IntentStands' /\ HalvesAgree'
    BY <1>1, <1>2, <1>3, <1>4 DEF IntentStands, HalvesAgree
  <1>9. BindersFit'
    BY <1>1, <1>2, <1>3, BindersOfOthers DEF BinderFits
  <1>10. StopsAreTrue' /\ RecordStands'
    <2>1. StopsAreTrue'
      BY <1>1, <1>2, <1>3 DEF StopsAreTrue
    <2>2. native /\ lead' # lead => lead.pending = g /\ lead'.session = g /\ lead'.pending = None
      BY <1>2, <1>3 DEF IntentStands
    <2>3. g # None
      BY <1>4, TeamleadRebindAssumption
    <2> QED
      BY <1>1, <1>2, <2>1, <2>2, <2>3 DEF RecordStands
  <1>11. LiftersAlone'
    <2>1. ASSUME native, NEW q \in Procs, pc[q] \in Lifting, LifterStands(q) PROVE lead' = lead
      BY <1>2, <2>1 DEF LifterStands
    <2> QED
      BY <1>1, <1>2, <2>1, LiftersOfOthers DEF LiftersAlone, Lifting
  <1>12. RetainersFit'
    BY <1>1, <1>2, RetainersOfOthers DEF RetainerFits, Retaining
  <1> QED
    BY <1>6, <1>7, <1>8, <1>9, <1>10, <1>11, <1>12

\* The file goes when both seats are at one session.
LEMMA UnlinkStep ==
    ASSUME IInv, TypeOK', PlacesFit', NEW p \in Procs, Unlink(p) \/ UnlinkStopped(p) PROVE RebindInv'
  <1> USE DEF IInv, RebindInv
  <1>1. OthersStay(p) /\ native' = native
    BY StepOfOne DEF Step, BindStep
  <1>2. /\ pc'[p] \in {"idle", "replan"} /\ mine'[p] \in {mine[p], None} /\ rootLock \in {None, p}
        /\ intent' = None
        /\ UNCHANGED <<lead, owner, record, session, started>>
    BY MemoryTypes DEF Unlink, UnlinkStopped, DropLocks, LocksFree, Bound, At, Go, Leave, local, journals
  <1>3. lead.session = owner.session
    BY DEF Unlink, UnlinkStopped, Terminal, At, BindersFit, BinderFits
  <1>4. NumbersFit' /\ PlansArePast'
    BY <1>1, <1>2, SeatStep DEF Planned, Lifting
  <1>5. IntentStands' /\ HalvesAgree'
    BY <1>2, <1>3 DEF IntentStands, HalvesAgree
  <1>6. BindersFit'
    BY <1>1, <1>2, BindersOfOthers DEF BinderFits
  <1>7. StopsAreTrue' /\ RecordStands'
    BY <1>1, <1>2 DEF StopsAreTrue, RecordStands
  <1>8. LiftersAlone'
    BY <1>1, <1>2, LiftersOfOthers DEF LiftersAlone, Lifting
  <1>9. RetainersFit'
    BY <1>1, <1>2, RetainersOfOthers DEF RetainerFits, Retaining
  <1> QED
    BY <1>4, <1>5, <1>6, <1>7, <1>8, <1>9

----------------------------------------------------------------------------
(* The invariant.                                                           *)

LEMMA InitIInv == Init => IInv
  <1> SUFFICES ASSUME Init PROVE IInv
    OBVIOUS
  <1>1. 0 \in Generations /\ 0 \in Nat /\ None # 0 /\ 0 \in 0..MaxCrashes /\ 0 <= 0
    BY TeamleadRebindAssumption DEF Generations
  <1>2. /\ Fresh(0) \in Seat /\ [Fresh(0) EXCEPT !.stopped = native] \in Seat
        /\ [Fresh(0) EXCEPT !.stopped = native].session = 0
        /\ [Fresh(0) EXCEPT !.stopped = native].pending = None
        /\ [Fresh(0) EXCEPT !.stopped = native].stopped = native
    BY <1>1 DEF Init, Fresh, Seat
  <1>3. /\ lead \in Seat /\ lead.session = 0 /\ lead.pending = None
        /\ owner \in Seat /\ owner.session = 0 /\ owner.pending = None
    BY <1>2 DEF Init
  <1>4. /\ session[0] = "stopped" /\ \A g \in Generations : g # 0 => session[g] = "none"
        /\ \A p \in Procs : pc[p] = "idle" /\ mine[p] = None
    BY <1>1 DEF Init
  <1>5. TypeOK
    BY <1>1, <1>3 DEF Init, TypeOK, Steps
  <1>6. PlacesFit
    BY <1>4 DEF PlacesFit, PlaceFits, Inside, NativeOnly, Planned, Lifting, Retaining
  <1>7. NumbersFit
    <2>1. \A g \in Generations : g > 0 => g # 0
      BY DEF Generations
    <2> QED
      BY <1>1, <1>3, <1>4, <2>1 DEF Init, NumbersFit
  <1>8. PlansArePast /\ BindersFit /\ RetainersFit
    BY <1>4 DEF PlansArePast, PlanIsPast, BindersFit, BinderFits, RetainersFit, RetainerFits, Planned,
       Lifting, Retaining
  <1>9. IntentStands /\ HalvesAgree
    BY <1>3 DEF Init, IntentStands, HalvesAgree
  <1>10. StopsAreTrue /\ RecordStands
    <2>1. \A g \in Generations : session[g] # "alive"
      BY <1>4
    <2> QED
      BY <1>3, <1>4, <2>1 DEF Init, StopsAreTrue, RecordStands
  <1>11. LiftersAlone
    BY <1>4 DEF LiftersAlone, OneLifter, LifterStands, Lifting
  <1> QED
    BY <1>5, <1>6, <1>7, <1>8, <1>9, <1>10, <1>11 DEF IInv, RebindInv

LEMMA InductiveStep == IInv /\ [Next]_vars => IInv'
  <1> SUFFICES ASSUME IInv, [Next]_vars PROVE IInv'
    OBVIOUS
  <1>1. TypeOK' /\ PlacesFit'
    BY TypeStep, PlacesStep
  <1>2. CASE UNCHANGED vars
    <2>1. RebindInv
      BY DEF IInv
    <2>2. NumbersFit' /\ PlansArePast' /\ IntentStands' /\ HalvesAgree' /\ BindersFit'
      BY <1>2, <2>1 DEF vars, RebindInv, NumbersFit, PlansArePast, PlanIsPast, IntentStands, HalvesAgree,
         BindersFit, BinderFits
    <2>3. StopsAreTrue' /\ RecordStands' /\ RetainersFit'
      BY <1>2, <2>1 DEF vars, RebindInv, StopsAreTrue, RecordStands, RetainersFit, RetainerFits, Linked
    <2>4. LiftersAlone'
      BY <1>2, <2>1 DEF vars, RebindInv, LiftersAlone, OneLifter, LifterStands
    <2> QED
      BY <1>1, <2>2, <2>3, <2>4 DEF IInv, RebindInv
  <1>3. ASSUME NEW p \in Procs,
               \/ Quiet(p) \/ Crash(p)
               \/ ReserveRoot(p) \/ ReserveChild(p) \/ UnreserveRoot(p) \/ UnreserveChild(p)
               \/ Launch(p) \/ LaunchFails(p) \/ PublishIntent(p)
               \/ BindChild(p) \/ BindRoot(p) \/ Unlink(p) \/ UnlinkStopped(p)
               \/ StopHolder(p) \/ RetainOwner(p) \/ RetainLead(p) \/ DropRecord(p)
        PROVE  RebindInv'
    BY <1>1, <1>3, QuietStep, CrashStep, ReserveRootStep, ReserveChildStep, UnreserveRootStep,
       UnreserveChildStep, LaunchStep, LaunchFailsStep, PublishIntentStep, BindChildStep, BindRootStep,
       UnlinkStep, StopHolderStep, RetainOwnerStep, RetainLeadStep, DropRecordStep
  <1>4. ASSUME NEW g \in Generations, SessionEnds(g) PROVE RebindInv'
    BY <1>1, <1>4, SessionEndsStep
  <1> QED
    BY <1>1, <1>2, <1>3, <1>4, StepKinds DEF IInv

\* The inductive invariant of rebinds holds in every state: nobody moves a
\* seat but along its intent, and a native lift that reserved is alone.
THEOREM Invariant == Spec => []IInv
  <1> QED
    BY InitIInv, InductiveStep, PTL DEF Spec

\* What a crash leaves of a rebind can be read off the disk and finished:
\* without a file the halves agree, and with one each is at the old or at the
\* new generation (RebindIsTraced).
THEOREM RebindTraced == Spec => []RebindIsTraced
  <1>1. IInv => RebindIsTraced
    <2> SUFFICES ASSUME IInv PROVE RebindIsTraced
      OBVIOUS
    <2>1. TypeOK /\ HalvesAgree /\ IntentStands /\ StopsAreTrue
      BY DEF IInv, RebindInv
    <2>2. ASSUME intent # None, session[intent.generation] # "stopped" PROVE Matches
      <3>1. CASE ~native
        BY <2>1, <2>2, <3>1 DEF Matches, IntentStands
      <3>2. CASE native
        <4>1. ASSUME NEW seat \in {lead, owner}, seat.session = intent.generation
              PROVE  seat = Fresh(intent.generation)
          <5>1. seat \in Seat /\ ~seat.stopped /\ seat.pending = None
            BY <2>1, <2>2, <3>2, <4>1, Naturals, SeatFields DEF StopsAreTrue
          <5> QED
            BY <4>1, <5>1 DEF Seat, Fresh
        <4> QED
          BY <2>1, <2>2, <3>2, <4>1 DEF Matches, IntentStands
      <3> QED
        BY <3>1, <3>2
    <2> QED
      BY <2>1, <2>2 DEF RebindIsTraced, RebindIsRecoverable
  <1> QED
    BY <1>1, Invariant, PTL

\* Never two live native sessions of one teamlead, and the live one is the one
\* the journals name or hold a reservation for (OneFencedSession).
THEOREM OneSession == Spec => []OneFencedSession
  <1>1. IInv => OneFencedSession
    <2>1. RecordStands /\ TeamleadRebindAssumption => OneFencedSession
      BY DEF RecordStands, OneFencedSession, TeamleadRebindAssumption, Generations
    <2> QED
      BY <2>1, TeamleadRebindAssumption DEF IInv, RebindInv
  <1> QED
    BY <1>1, Invariant, PTL

\* A journal never goes back to an earlier session (RebindMovesForward).
THEOREM MovesForward == Spec => RebindMovesForward
  <1>1. IInv /\ [Next]_vars => [lead'.session >= lead.session /\ owner'.session >= owner.session]_vars
    <2> SUFFICES ASSUME IInv, Next
                 PROVE  lead'.session >= lead.session /\ owner'.session >= owner.session
      BY DEF IInv
    <2>1. lead \in Seat /\ owner \in Seat /\ lead.session \in Nat /\ owner.session \in Nat
      BY Naturals DEF IInv
    <2>2. ASSUME lead'.session = lead.session, owner'.session = owner.session
          PROVE  lead'.session >= lead.session /\ owner'.session >= owner.session
      BY <2>1, <2>2
    <2>3. ASSUME NEW p \in Procs, Quiet(p) \/ Crash(p) \/ Launch(p) \/ LaunchFails(p) \/ PublishIntent(p)
                                   \/ Unlink(p) \/ UnlinkStopped(p) \/ StopHolder(p) \/ DropRecord(p)
          PROVE  lead' = lead /\ owner' = owner
      BY <2>3, QuietShares DEF shared, Crash, Launch, LaunchFails, PublishIntent, Unlink, UnlinkStopped,
         StopHolder, DropRecord, journals
    <2>4. ASSUME NEW g \in Generations, SessionEnds(g) PROVE lead' = lead /\ owner' = owner
      BY <2>4 DEF SessionEnds, journals
    <2>5. ASSUME NEW p \in Procs, \/ ReserveRoot(p) \/ ReserveChild(p) \/ UnreserveRoot(p)
                                  \/ UnreserveChild(p) \/ RetainOwner(p) \/ RetainLead(p)
          PROVE  lead'.session = lead.session /\ owner'.session = owner.session
      <3>1. \/ lead' = lead \/ lead' = Unreserved(lead) \/ lead' = [lead EXCEPT !.stopped = TRUE]
            \/ \E g : lead' = [lead EXCEPT !.pending = g]
        BY <2>5 DEF ReserveRoot, ReserveChild, UnreserveRoot, UnreserveChild, RetainOwner, RetainLead, Cleared
      <3>2. \/ owner' = owner \/ owner' = Unreserved(owner) \/ owner' = [owner EXCEPT !.stopped = TRUE]
            \/ \E g : owner' = [owner EXCEPT !.pending = g]
        BY <2>5 DEF ReserveRoot, ReserveChild, UnreserveRoot, UnreserveChild, RetainOwner, RetainLead, Cleared
      <3>3. lead'.session = lead.session
        BY ONLY <2>1, <3>1 DEF Seat, Unreserved
      <3>4. owner'.session = owner.session
        BY ONLY <2>1, <3>2 DEF Seat, Unreserved
      <3> QED
        BY <3>3, <3>4
    <2>6. ASSUME NEW p \in Procs, BindChild(p) \/ BindRoot(p)
          PROVE  lead'.session >= lead.session /\ owner'.session >= owner.session
      <3>1. TypeOK /\ IntentStands /\ intent # None
        BY <2>6 DEF IInv, RebindInv, BindersFit, BinderFits, BindChild, BindRoot, At
      <3>2. /\ lead'.session \in {lead.session, intent.generation}
            /\ owner'.session \in {owner.session, intent.generation}
        BY <2>6, FreshFields DEF BindChild, BindRoot
      <3>3. /\ intent.generation \in Nat
            /\ lead.session <= intent.generation /\ owner.session <= intent.generation
        BY <3>1, IntentNumbers
      <3> QED
        BY ONLY <2>1, <3>2, <3>3
    <2>7. CASE UNCHANGED vars
      BY <2>2, <2>7 DEF vars
    <2> QED
      BY <2>2, <2>3, <2>4, <2>5, <2>6, <2>7, StepKinds
  <1> QED
    BY <1>1, Invariant, PTL DEF Spec, RebindMovesForward

\* The two journals and the file are one register (ImplementsOneLead): it is
\* replaced when an intent is published, and everything else that is written
\* into a seat's session takes it there.
THEOREM Refinement == Spec => ImplementsOneLead
  <1>1. Init => Register!Init
    BY DEF Init, Register!Init, BoundTo, Fresh
  <1>2. IInv /\ [Next]_vars => [Register!Next]_<<BoundTo, owner.session, lead.session>>
    <2> SUFFICES ASSUME IInv, [Next]_vars
                 PROVE  Register!Next \/ UNCHANGED <<BoundTo, owner.session, lead.session>>
      OBVIOUS
    <2>1. TypeOK /\ lead \in Seat /\ owner \in Seat /\ lead.session \in Nat /\ owner.session \in Nat
      BY Naturals DEF IInv
    <2>2. ASSUME intent' = intent, lead'.session = lead.session, owner'.session = owner.session
          PROVE  UNCHANGED <<BoundTo, owner.session, lead.session>>
      BY <2>2 DEF BoundTo
    <2>3. ASSUME NEW p \in Procs, Quiet(p) \/ Crash(p) \/ Launch(p) \/ LaunchFails(p)
                                   \/ StopHolder(p) \/ DropRecord(p)
          PROVE  lead' = lead /\ owner' = owner /\ intent' = intent
      BY <2>3, QuietShares DEF shared, Crash, Launch, LaunchFails, StopHolder, DropRecord, journals
    <2>4. ASSUME NEW g \in Generations, SessionEnds(g) PROVE lead' = lead /\ owner' = owner /\ intent' = intent
      BY <2>4 DEF SessionEnds, journals
    <2>5. ASSUME NEW p \in Procs, \/ ReserveRoot(p) \/ ReserveChild(p) \/ UnreserveRoot(p)
                                  \/ UnreserveChild(p) \/ RetainOwner(p) \/ RetainLead(p)
          PROVE  intent' = intent /\ lead'.session = lead.session /\ owner'.session = owner.session
      <3>1. \/ lead' = lead \/ lead' = Unreserved(lead) \/ lead' = [lead EXCEPT !.stopped = TRUE]
            \/ \E g : lead' = [lead EXCEPT !.pending = g]
        BY <2>5 DEF ReserveRoot, ReserveChild, UnreserveRoot, UnreserveChild, RetainOwner, RetainLead, Cleared
      <3>2. \/ owner' = owner \/ owner' = Unreserved(owner) \/ owner' = [owner EXCEPT !.stopped = TRUE]
            \/ \E g : owner' = [owner EXCEPT !.pending = g]
        BY <2>5 DEF ReserveRoot, ReserveChild, UnreserveRoot, UnreserveChild, RetainOwner, RetainLead, Cleared
      <3>3. lead'.session = lead.session
        BY ONLY <2>1, <3>1 DEF Seat, Unreserved
      <3>4. owner'.session = owner.session
        BY ONLY <2>1, <3>2 DEF Seat, Unreserved
      <3>5. intent' = intent
        BY <2>5 DEF ReserveRoot, ReserveChild, UnreserveRoot, UnreserveChild, RetainOwner, RetainLead
      <3> QED
        BY <3>3, <3>4, <3>5
    <2>6. ASSUME NEW p \in Procs, BindChild(p) PROVE Register!ChildCatchesUp
      <3>1. /\ intent # None /\ intent' = intent /\ lead' = lead
            /\ owner' = IF owner.session = intent.generation THEN owner ELSE Fresh(intent.generation)
        BY <2>6 DEF BindChild
      <3>2. owner'.session = intent.generation
        BY <3>1, FreshFields
      <3> QED
        BY <3>1, <3>2 DEF Register!ChildCatchesUp, BoundTo
    <2>7. ASSUME NEW p \in Procs, BindRoot(p) PROVE Register!RootCatchesUp
      <3>1. /\ intent # None /\ owner.session = intent.generation
            /\ intent' = intent /\ owner' = owner
            /\ lead' = IF lead.session = intent.generation THEN lead ELSE Fresh(intent.generation)
        BY <2>7 DEF IInv, RebindInv, BindersFit, BinderFits, BindRoot, At
      <3>2. lead'.session = intent.generation
        BY <3>1, FreshFields
      <3> QED
        BY <3>1, <3>2 DEF Register!RootCatchesUp, BoundTo
    <2>8. ASSUME NEW p \in Procs, PublishIntent(p) PROVE Register!Replace
      <3>1. /\ intent = None /\ lead' = lead /\ owner' = owner /\ At(p, "publish")
            /\ lead.session = plan[p].lead.session
            /\ intent' = [generation |-> mine[p], oldLead |-> lead, oldOwner |-> observed[p]]
        BY <2>8 DEF PublishIntent, MayPublish, journals
      <3>2. lead.session = owner.session
        BY <3>1 DEF IInv, RebindInv, HalvesAgree
      <3>3. mine[p] \in Generations /\ plan[p].lead.session < mine[p]
        BY <3>1 DEF IInv, RebindInv, PlacesFit, PlaceFits, PlansArePast, PlanIsPast, At
      <3>4. mine[p] \in Nat
        BY <3>3, TeamleadRebindAssumption DEF Generations
      <3>5. intent' # None /\ intent'.generation = mine[p]
        <4>1. observed[p] \in Seat
          BY <3>1 DEF IInv, RebindInv, PlacesFit, PlaceFits, At
        <4> QED
          BY <2>1, <3>1, <3>3, <4>1, NoRecordAssumption DEF Intent
      <3>6. BoundTo = owner.session /\ BoundTo' = mine[p]
        BY <3>1, <3>5 DEF BoundTo
      <3>7. mine[p] > owner.session
        BY <2>1, <3>1, <3>2, <3>3, <3>4
      <3> QED
        BY <3>1, <3>2, <3>4, <3>6, <3>7 DEF Register!Replace
    <2>9. ASSUME NEW p \in Procs, Unlink(p) \/ UnlinkStopped(p)
          PROVE  UNCHANGED <<BoundTo, owner.session, lead.session>>
      <3>1. intent # None /\ intent' = None /\ lead' = lead /\ owner' = owner
        BY <2>9 DEF Unlink, UnlinkStopped, journals, IInv, RebindInv, BindersFit, BinderFits, At
      <3>2. owner.session = intent.generation
        <4>1. CASE Unlink(p)
          BY <4>1 DEF Unlink, IInv, RebindInv, BindersFit, BinderFits, At
        <4>2. CASE UnlinkStopped(p)
          <5>1. Running(owner) = Fresh(intent.generation)
            BY <4>2 DEF UnlinkStopped, BoundAndStopped
          <5>2. Running(owner).session = owner.session
            BY <2>1 DEF Running, Seat
          <5> QED
            BY <5>1, <5>2, FreshFields
        <4> QED
          BY <2>9, <4>1, <4>2
      <3> QED
        BY <3>1, <3>2 DEF BoundTo
    <2>10. CASE UNCHANGED vars
      BY <2>2, <2>10 DEF vars
    <2> QED
      BY <2>2, <2>3, <2>4, <2>5, <2>6, <2>7, <2>8, <2>9, <2>10, StepKinds DEF Register!Next
  <1> QED
    BY <1>1, <1>2, Invariant, PTL DEF Spec, ImplementsOneLead, Register!Spec, Register!vars
=============================================================================
