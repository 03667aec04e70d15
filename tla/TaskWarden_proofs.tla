-------------------------- MODULE TaskWarden_proofs --------------------------
(***************************************************************************)
(* Proofs about TaskWarden, for any tasks, demands, crashes and failures:   *)
(* a loop has its seat and is the only one, a demand is used up by its own  *)
(* loop, and what was called off stops.  The argument is one of accounts:   *)
(* each loop the service has an entry of is in one place, as a start on its *)
(* way, as a loop, or as the event of its end on the way back.              *)
(***************************************************************************)
EXTENDS TaskWarden, SharedService, FiniteSetTheorems, SequenceTheorems, TLAPS

\* A start or an event of t among those on their way.
StartsAt(i, t) == toWorker[i].kind = "start" /\ toWorker[i].task = t
NoEvent(t) == \A j \in 1..Len(toService) : toService[j].task # t
EntryIs(t, d) == entry[t] # None /\ entry[t].generation = d

\* What the service has started of t is on its way, runs, or has reported its
\* end, and it is what the entry says.
AccountOf(t) ==
    /\ \A i \in 1..Len(toWorker) : StartsAt(i, t) =>
          /\ EntryIs(t, toWorker[i].generation)
          /\ loop[t] = None
          /\ \A j \in 1..Len(toWorker) : StartsAt(j, t) => j = i
          /\ NoEvent(t)
    /\ loop[t] # None => EntryIs(t, loop[t].generation) /\ NoEvent(t)
    /\ \A i \in 1..Len(toService) : toService[i].task = t =>
          /\ EntryIs(t, toService[i].generation)
          /\ \A j \in 1..Len(toService) : toService[j].task = t => j = i
OneAccount == \A t \in Tasks : AccountOf(t)

\* A process that is not up yet has nothing under way.
QuietBefore ==
    service \in {"down", "opening"} =>
        toWorker = <<>> /\ toService = <<>> /\ \A t \in Tasks : entry[t] = None /\ loop[t] = None

\* The numbers of demands tell tasks and calls apart, and one that stands was
\* never called off.
Wanted == {t \in Tasks : demand[t].required}
IsOf(d, an_entry, a_demand) ==
    (an_entry # None /\ an_entry.generation = d) \/ a_demand.number = d
NumbersDiffer ==
    /\ \A t \in Tasks, d \in Demands : IsOf(d, entry[t], demand[t]) => d <= serial
    /\ \A t, u \in Tasks, d \in Demands :
          IsOf(d, entry[t], demand[t]) /\ IsOf(d, entry[u], demand[u]) => t = u
    /\ \A d \in cancelled : d <= serial
    /\ \A t \in Wanted : demand[t].number \in Demands \ cancelled

\* The end of a loop is reported after it came.
StoppedIsSettled ==
    \A i \in 1..Len(toService) :
        toService[i].kind = "stopped" => toService[i].generation \in settled

IInv ==
    /\ TypeOK
    /\ RunnerHasSeat
    /\ QuietBefore
    /\ OneAccount
    /\ NumbersDiffer
    /\ StoppedIsSettled
    /\ ConsumedWasServed
    /\ CalledOffStops

----------------------------------------------------------------------------
(* Messages.                                                                *)

\* An order of some tasks is a sequence of them, each once.
LEMMA Orders ==
    ASSUME NEW some, some \subseteq Tasks, NEW order \in SetToSeqs(some)
    PROVE  /\ \E n \in Nat : DOMAIN order = 1..n
           /\ \A i \in DOMAIN order : order[i] \in some
           /\ \A i, j \in DOMAIN order : i # j => order[i] # order[j]
  <1>1. Cardinality(some) \in Nat
    BY TasksAssumption, FS_Subset, FS_CardinalityType
  <1> QED
    BY <1>1 DEF SetToSeqs

\* What is on its way stays in front of what is added, and no start is added.
Grows ==
    /\ toWorker' \in Seq(Command)
    /\ Len(toWorker') >= Len(toWorker)
    /\ \A i \in 1..Len(toWorker) : toWorker'[i] = toWorker[i]
NoNewStart == \A i \in 1..Len(toWorker') : i > Len(toWorker) => toWorker'[i].kind # "start"

\* The loops the service has an entry of stay the same.
SameEntries ==
    \A t \in Tasks :
        /\ entry'[t] = None <=> entry[t] = None
        /\ entry[t] # None => entry'[t].generation = entry[t].generation

\* A shutdown adds nothing but aborts.
LEMMA AbortsAll ==
    ASSUME TypeOK, AbortAll
    PROVE  /\ Grows /\ NoNewStart
           /\ entry' \in [Tasks -> Entry \cup {None}] /\ SameEntries
  <1>1. /\ entry' \in [Tasks -> Entry \cup {None}]
        /\ SameEntries
    BY NoneAssumption DEF AbortAll, SameEntries, TypeOK, Entry
  <1>2. PICK order \in SetToSeqs(Entered) :
           toWorker' = toWorker \o [i \in DOMAIN order |-> Abort(order[i])]
    BY DEF AbortAll
  <1>3. PICK n \in Nat : DOMAIN order = 1..n
    BY Orders DEF Entered
  <1>4. \A i \in 1..n : order[i] \in Entered
    BY <1>3, Orders DEF Entered
  <1> DEFINE more == [i \in 1..n |-> Abort(order[i])]
  <1>5. \A i \in 1..n : Abort(order[i]) \in Command /\ Abort(order[i]).kind = "abort"
    BY <1>4 DEF Abort, Command, Entered, TypeOK, Entry
  <1>6. more \in [1..n -> Command]
    BY <1>5
  <1>7. more \in Seq(Command) /\ Len(more) = n
    BY <1>6, SeqDef
  <1>8. \A i \in 1..n : more[i].kind = "abort"
    BY <1>5
  <1>9. toWorker' = toWorker \o more /\ toWorker \in Seq(Command)
    BY <1>2, <1>3 DEF TypeOK
  <1> HIDE DEF more
  <1>10. /\ toWorker' \in Seq(Command)
         /\ Len(toWorker') = Len(toWorker) + n
         /\ \A i \in 1..Len(toWorker) + n :
               toWorker'[i] = IF i <= Len(toWorker) THEN toWorker[i] ELSE more[i - Len(toWorker)]
    BY <1>7, <1>9, ConcatProperties
  <1>11. Len(toWorker) \in Nat
    BY <1>9
  <1>12. Grows
    BY <1>10, <1>11 DEF Grows
  <1>13. NoNewStart
    BY <1>8, <1>10, <1>11 DEF NoNewStart
  <1> QED
    BY <1>1, <1>12, <1>13

\* Neither does a failure of the service.
LEMMA FailsQuietly ==
    ASSUME TypeOK, Fail
    PROVE  /\ Grows /\ NoNewStart
           /\ entry' \in [Tasks -> Entry \cup {None}] /\ SameEntries
           /\ busy' = busy /\ service' = "failed"
  <1>1. CASE service = "up"
    BY <1>1, AbortsAll DEF Fail
  <1>2. CASE service # "up"
    BY <1>2 DEF Fail, Grows, NoNewStart, SameEntries, TypeOK
  <1> QED
    BY <1>1, <1>2 DEF Fail

----------------------------------------------------------------------------
(* Types.                                                                   *)

\* The commands a start of the service sends again.
LEMMA Recovered ==
    ASSUME TypeOK, NumbersDiffer, NEW some, some \subseteq Wanted,
           NEW order \in SetToSeqs(some)
    PROVE  /\ [i \in DOMAIN order |-> Start(order[i], demand[order[i]].number)] \in Seq(Command)
           /\ Len([i \in DOMAIN order |-> Start(order[i], demand[order[i]].number)]) \in Nat
           /\ DOMAIN order = 1..Len([i \in DOMAIN order |-> Start(order[i], demand[order[i]].number)])
  <1>1. PICK n \in Nat : DOMAIN order = 1..n
    BY Orders DEF Wanted
  <1>2. \A i \in 1..n : order[i] \in some
    BY <1>1, Orders DEF Wanted
  <1> DEFINE starts == [i \in 1..n |-> Start(order[i], demand[order[i]].number)]
  <1>3. \A i \in 1..n : Start(order[i], demand[order[i]].number) \in Command
    BY <1>2 DEF Start, Command, NumbersDiffer, Wanted
  <1>4. starts \in [1..n -> Command]
    BY <1>3
  <1>5. starts \in Seq(Command) /\ Len(starts) = n
    BY <1>4, SeqDef
  <1> QED
    BY <1>1, <1>5

\* Calling a demand off leaves its number.
LEMMA CallsOff ==
    ASSUME TypeOK, NEW t \in Tasks, CallOff(t)
    PROVE  /\ demand' \in [Tasks -> Demand]
           /\ demand'[t].number = demand[t].number /\ demand'[t].required = FALSE
           /\ \A u \in Tasks : u # t => demand'[u] = demand[u]
  <1>1. demand[t] \in Demand
    BY DEF TypeOK
  <1>2. /\ [demand[t] EXCEPT !.required = FALSE] \in Demand
        /\ [demand[t] EXCEPT !.required = FALSE].number = demand[t].number
        /\ [demand[t] EXCEPT !.required = FALSE].required = FALSE
    BY <1>1 DEF Demand
  <1>3. demand' = [demand EXCEPT ![t] = [demand[t] EXCEPT !.required = FALSE]]
    BY DEF CallOff
  <1> QED
    BY <1>2, <1>3 DEF TypeOK

\* A message that is sent follows those on their way.
LEMMA Sends ==
    ASSUME TypeOK
    PROVE  /\ \A x \in Command : Append(toWorker, x) \in Seq(Command)
           /\ \A x \in Event : Append(toService, x) \in Seq(Event)
  BY DEF TypeOK

\* Each step keeps the types.
LEMMA TypeInductive ==
    ASSUME TypeOK, QuietBefore, NumbersDiffer, [Next]_vars
    PROVE  TypeOK'
  <1> USE NoneAssumption, BoundsAssumption DEF TypeOK, Demand, Demands, files, mind, ghosts, Trouble
  <1>1. CASE Open
    BY <1>1 DEF Open
  <1>2. CASE Recover
    <2> DEFINE wanted == {t \in Tasks : demand[t].required}
    <2>1. PICK order \in SetToSeqs(wanted \cap active) :
             toWorker' = [i \in DOMAIN order |-> Start(order[i], demand[order[i]].number)]
      BY <1>2 DEF Recover
    <2>2. toWorker' \in Seq(Command)
      <3>1. wanted \cap active \subseteq Wanted
        BY DEF Wanted
      <3> QED
        BY ONLY <2>1, <3>1, TypeOK, NumbersDiffer, Recovered, SMTT(30)
    <2>3. entry' \in [Tasks -> Entry \cup {None}]
      BY <1>2 DEF Recover, Opened, Entry, NumbersDiffer, Wanted
    <2>4. demand' \in [Tasks -> Demand]
      <3>1. demand' = [t \in Tasks |-> IF t \in wanted \ active
                                       THEN [demand[t] EXCEPT !.required = FALSE] ELSE demand[t]]
        BY ONLY <1>2 DEF Recover
      <3>2. \A t \in Tasks : /\ demand[t] \in Demand
                            /\ [demand[t] EXCEPT !.required = FALSE] \in Demand
        OBVIOUS
      <3> HIDE DEF TypeOK, Demand
      <3> QED
        BY ONLY <3>1, <3>2
    <2>5. cancelled' \subseteq Demands
      BY <1>2 DEF Recover, Current, NumbersDiffer, Wanted
    <2> QED
      BY <1>2, <2>2, <2>3, <2>4, <2>5 DEF Recover
  <1>3. CASE HandleEvent
    <2> DEFINE e == Head(toService)
    <2>1. e \in Event /\ toService' \in Seq(Event)
      BY <1>3 DEF HandleEvent
    <2>2. CASE UNCHANGED <<demand, mind, toWorker, service>>
      BY <1>3, <2>1, <2>2 DEF HandleEvent
    <2>3. CASE Settle(e)
      <3>1. e.task \in Tasks
        BY <2>1 DEF Event
      <3>2. Renews(e) => /\ Start(e.task, demand[e.task].number) \in Command
                         /\ Opened(demand[e.task].number) \in Entry
        BY <3>1 DEF Renews, Start, Command, Opened, Entry, NumbersDiffer, Wanted
      <3>3. toWorker' \in Seq(Command)
        BY <2>3, <3>2, AppendProperties DEF Settle
      <3>4. entry' \in [Tasks -> Entry \cup {None}] /\ busy' \subseteq Tasks
        <4>1. CASE Renews(e)
          BY <2>3, <3>1, <3>2, <4>1, SMTT(30) DEF Settle
        <4>2. CASE ~Renews(e)
          BY <2>3, <3>1, <4>2 DEF Settle
        <4> QED
          BY <4>1, <4>2
      <3>5. demand' \in [Tasks -> Demand]
        <4>1. CallOff(e.task) \/ UNCHANGED demand
          BY <2>3 DEF Settle
        <4> QED
          BY <3>1, <4>1, CallsOff
      <3> QED
        BY <1>3, <2>1, <2>3, <3>3, <3>4, <3>5 DEF HandleEvent, Settle
    <2>4. CASE UNCHANGED demand /\ Fail
      BY <1>3, <2>1, <2>4, FailsQuietly DEF HandleEvent, Grows
    <2> QED
      BY <1>3, <2>2, <2>3, <2>4 DEF HandleEvent
  <1>4. CASE CloseWorker
    BY <1>4 DEF CloseWorker, Command
  <1>5. CASE Leave
    BY <1>5 DEF Leave, Gone
  <1>6. CASE HandleCommand
    <2> DEFINE c == Head(toWorker)
    <2>1. c \in Command /\ toWorker' \in Seq(Command)
      BY <1>6 DEF HandleCommand
    <2>2. CASE c.kind = "start" /\ StartLoop(c)
      <3>1. c.task \in Tasks /\ c.generation \in Demands
        BY <2>1, <2>2 DEF Command
      <3>2. /\ [kind |-> "failed", task |-> c.task, generation |-> c.generation] \in Event
            /\ [kind |-> "busy", task |-> c.task, generation |-> c.generation] \in Event
            /\ [generation |-> c.generation, aborted |-> FALSE, phase |-> "running"] \in Loop
        BY <3>1 DEF Event, Loop
      <3>3. toService' \in Seq(Event)
        <4>1. \/ UNCHANGED toService
              \/ \E x \in Event : toService' = Append(toService, x)
          BY <2>2, <3>2 DEF StartLoop, Reply
        <4> QED
          BY <4>1, Sends, Zenon
      <3>4. loop' \in [Tasks -> Loop \cup {None}]
        BY <2>2, <3>1, <3>2 DEF StartLoop
      <3>5. seat' \in [Tasks -> {"free", "service", "legacy", "dead"}]
        BY <2>2, <3>1 DEF StartLoop
      <3> QED
        BY <1>6, <2>1, <3>3, <3>4, <3>5 DEF HandleCommand
    <2>3. CASE c.kind = "abort" /\ AbortLoop(c)
      <3>1. c.task \in Tasks
        BY <2>1, <2>3 DEF Command
      <3>2. \/ loop' = loop
            \/ loop[c.task] # None /\ loop' = [loop EXCEPT ![c.task].aborted = TRUE]
        BY <2>3 DEF AbortLoop
      <3>3. ASSUME NEW t \in Tasks, loop[t] # None PROVE [loop[t] EXCEPT !.aborted = TRUE] \in Loop
        BY <3>3 DEF Loop
      <3>4. loop \in [Tasks -> Loop \cup {None}]
        OBVIOUS
      <3>5. loop' \in [Tasks -> Loop \cup {None}]
        BY ONLY <3>1, <3>2, <3>3, <3>4
      <3>6. UNCHANGED <<seat, toService>>
        BY <2>3 DEF AbortLoop
      <3> QED
        BY <1>6, <2>1, <3>5, <3>6 DEF HandleCommand
    <2>4. CASE c.kind = "close" /\ CloseLoops
      BY <1>6, <2>1, <2>4 DEF HandleCommand, CloseLoops, Loop
    <2> QED
      BY <1>6, <2>2, <2>3, <2>4 DEF HandleCommand
  <1>7. CASE Close
    BY <1>7, AbortsAll DEF Close, Grows
  <1>8. CASE SaveFails
    BY <1>8, FailsQuietly DEF SaveFails, Grows
  <1>9. CASE SettleUnsaved
    BY <1>9, FailsQuietly, SMTT(30) DEF SettleUnsaved, Grows
  <1>10. CASE StartFails
    <2>1. Head(toWorker) \in Command /\ Head(toWorker).kind = "start"
      BY <1>10 DEF StartFails
    <2>2. [kind |-> "failed", task |-> Head(toWorker).task, generation |-> Head(toWorker).generation]
             \in Event
      BY <2>1 DEF Event, Command
    <2> QED
      BY <1>10, <2>2, SMTT(30) DEF StartFails, Reply
  <1>11. CASE WorkerDies
    BY <1>11 DEF WorkerDies
  <1>12. CASE Crash
    BY <1>12 DEF Crash, Gone
  <1>13. ASSUME NEW t \in Tasks, Ensure(t) PROVE TypeOK'
    <2>1. serial + 1 \in Demands
      BY <1>13 DEF Ensure
    <2>2. Start(t, serial + 1) \in Command /\ Opened(serial + 1) \in Entry
      BY <2>1 DEF Start, Command, Opened, Entry
    <2>3. toWorker' \in Seq(Command)
      <3>1. toWorker' = toWorker \/ \E x \in Command : toWorker' = Append(toWorker, x)
        BY <1>13, <2>2 DEF Ensure
      <3> QED
        BY <3>1, Sends, Zenon
    <2>4. entry' \in [Tasks -> Entry \cup {None}]
      BY <1>13, <2>2 DEF Ensure
    <2>5. demand' \in [Tasks -> Demand]
      BY <1>13, <2>1 DEF Ensure
    <2>6. serial' \in 0..MaxDemands /\ busy' \subseteq Tasks
      BY <1>13, <2>1 DEF Ensure
    <2> QED
      BY <1>13, <2>3, <2>4, <2>5, <2>6 DEF Ensure
  <1>14. ASSUME NEW t \in Tasks, AbortTask(t) PROVE TypeOK'
    <2>1. entry[t] # None => Abort(t) \in Command /\ entry[t].generation \in Demands
      BY DEF Abort, Command, Entry
    <2>2. Current(t) \subseteq Demands
      BY DEF Current, NumbersDiffer, Wanted
    <2>3. toWorker' \in Seq(Command)
      <3>1. toWorker' = toWorker \/ \E x \in Command : toWorker' = Append(toWorker, x)
        BY <1>14, <2>1 DEF AbortTask
      <3> QED
        BY <3>1, Sends, Zenon
    <2>4. entry' \in [Tasks -> Entry \cup {None}]
      <3>1. CASE entry[t] = None
        BY <1>14, <3>1 DEF AbortTask
      <3>2. CASE entry[t] # None
        <4>1. [entry[t] EXCEPT !.stopping = TRUE] \in Entry
          BY <3>2 DEF Entry
        <4>2. entry' = [entry EXCEPT ![t] = [entry[t] EXCEPT !.stopping = TRUE]]
          BY <1>14, <3>2 DEF AbortTask
        <4> QED
          BY <4>1, <4>2
      <3> QED
        BY <3>1, <3>2
    <2>5. demand' \in [Tasks -> Demand]
      BY <1>14, CallsOff DEF AbortTask
    <2>6. cancelled' \subseteq Demands /\ busy' \subseteq Tasks
      BY <1>14, <2>1, <2>2 DEF AbortTask
    <2> QED
      BY <1>14, <2>3, <2>4, <2>5, <2>6 DEF AbortTask
  <1>15. ASSUME NEW t \in Tasks, Unwind(t) PROVE TypeOK'
    BY <1>15 DEF Unwind, Loop
  <1>16. ASSUME NEW t \in Tasks, EndLoop(t) PROVE TypeOK'
    <2>1. loop[t].generation \in Demands
      BY <1>16 DEF EndLoop, Loop
    <2>2. [kind |-> "stopped", task |-> t, generation |-> loop[t].generation] \in Event
      BY <2>1 DEF Event
    <2>3. toService' \in Seq(Event)
      BY <1>16, <2>2, AppendProperties DEF EndLoop, Reply
    <2>4. seat' \in [Tasks -> {"free", "service", "legacy", "dead"}]
      BY <1>16 DEF EndLoop, Cleared
    <2>5. loop' \in [Tasks -> Loop \cup {None}]
      BY <1>16 DEF EndLoop
    <2> QED
      BY <1>16, <2>1, <2>3, <2>4, <2>5 DEF EndLoop
  <1>17. ASSUME NEW t \in Tasks, FailLoop(t) PROVE TypeOK'
    <2>1. loop[t].generation \in Demands
      BY <1>17 DEF FailLoop, Loop
    <2>2. [kind |-> "failed", task |-> t, generation |-> loop[t].generation] \in Event
      BY <2>1 DEF Event
    <2>3. toService' \in Seq(Event)
      BY <1>17, <2>2, AppendProperties DEF FailLoop, Reply
    <2>4. seat' \in [Tasks -> {"free", "service", "legacy", "dead"}]
      BY <1>17 DEF FailLoop, Cleared
    <2>5. loop' \in [Tasks -> Loop \cup {None}]
      BY <1>17 DEF FailLoop
    <2> QED
      BY <1>17, <2>1, <2>3, <2>4, <2>5 DEF FailLoop
  <1>18. ASSUME NEW t \in Tasks, LegacyTakes(t) PROVE TypeOK'
    BY <1>18 DEF LegacyTakes
  <1>19. ASSUME NEW t \in Tasks, LegacyLeaves(t) PROVE TypeOK'
    BY <1>19 DEF LegacyLeaves
  <1>20. ASSUME NEW t \in Tasks, TaskCloses(t) PROVE TypeOK'
    BY <1>20 DEF TaskCloses
  <1>21. CASE UNCHANGED vars
    BY <1>21 DEF vars
  <1> QED
    BY <1>1, <1>2, <1>3, <1>4, <1>5, <1>6, <1>7, <1>8, <1>9, <1>10, <1>11,
       <1>12, <1>13, <1>14, <1>15, <1>16, <1>17, <1>18, <1>19, <1>20, <1>21 DEF Next, Runs

----------------------------------------------------------------------------
(* Seats and ends.                                                          *)

\* Each step leaves a loop its seat.
LEMMA SeatInductive ==
    ASSUME TypeOK, RunnerHasSeat, [Next]_vars
    PROVE  RunnerHasSeat'
  <1> USE NoneAssumption DEF TypeOK, RunnerHasSeat
  <1>1. CASE Leave
    BY <1>1 DEF Leave, Gone
  <1>2. CASE HandleCommand
    <2> DEFINE c == Head(toWorker)
    <2>1. c \in Command
      BY <1>2 DEF HandleCommand
    <2>2. CASE c.kind = "start" /\ StartLoop(c)
      <3>1. c.task \in Tasks
        BY <2>1, <2>2 DEF Command
      <3> QED
        BY <1>2, <2>2, <3>1 DEF HandleCommand, StartLoop, SeatIsOpen
    <2>3. CASE AbortLoop(c)
      BY <1>2, <2>3 DEF AbortLoop
    <2>4. CASE CloseLoops
      BY <1>2, <2>4 DEF CloseLoops
    <2> QED
      BY <1>2, <2>2, <2>3, <2>4 DEF HandleCommand
  <1>3. CASE WorkerDies
    BY <1>3 DEF WorkerDies, files
  <1>4. CASE Crash
    BY <1>4 DEF Crash, Gone
  <1>5. ASSUME NEW t \in Tasks, Unwind(t) PROVE RunnerHasSeat'
    BY <1>5 DEF Unwind, files
  <1>6. ASSUME NEW t \in Tasks, EndLoop(t) PROVE RunnerHasSeat'
    BY <1>6 DEF EndLoop, Cleared
  <1>7. ASSUME NEW t \in Tasks, FailLoop(t) PROVE RunnerHasSeat'
    BY <1>7 DEF FailLoop, Cleared
  <1>8. ASSUME NEW t \in Tasks, LegacyTakes(t) PROVE RunnerHasSeat'
    BY <1>8 DEF LegacyTakes
  <1>9. ASSUME NEW t \in Tasks, LegacyLeaves(t) PROVE RunnerHasSeat'
    BY <1>9 DEF LegacyLeaves
  <1>10. CASE UNCHANGED <<loop, seat>>
    BY <1>10
  <1> QED
    BY <1>1, <1>2, <1>3, <1>4, <1>5, <1>6, <1>7, <1>8, <1>9, <1>10 DEF Next,
       Runs, vars, Open, Recover, HandleEvent, CloseWorker, Close, SaveFails,
       SettleUnsaved, StartFails, Ensure, AbortTask, TaskCloses, files, mind,
       ghosts

\* Each step keeps a process that is not up quiet.
LEMMA QuietInductive ==
    ASSUME TypeOK, QuietBefore, [Next]_vars
    PROVE  QuietBefore'
  <1> USE NoneAssumption DEF TypeOK, QuietBefore, files, mind
  <1>1. CASE Open
    BY <1>1 DEF Open
  <1>2. CASE Recover
    BY <1>2 DEF Recover
  <1>3. CASE HandleEvent
    BY <1>3 DEF HandleEvent, Settle, Fail
  <1>4. CASE CloseWorker
    BY <1>4 DEF CloseWorker
  <1>5. CASE Leave
    BY <1>5 DEF Leave, Gone
  <1>6. CASE HandleCommand
    BY <1>6 DEF HandleCommand
  <1>7. CASE Close
    BY <1>7 DEF Close
  <1>8. CASE SaveFails
    BY <1>8 DEF SaveFails, Fail
  <1>9. CASE SettleUnsaved
    BY <1>9 DEF SettleUnsaved, Fail
  <1>10. CASE StartFails
    BY <1>10 DEF StartFails
  <1>11. CASE WorkerDies
    BY <1>11 DEF WorkerDies
  <1>12. CASE Crash
    BY <1>12 DEF Crash, Gone
  <1>13. ASSUME NEW t \in Tasks, Ensure(t) PROVE QuietBefore'
    BY <1>13 DEF Ensure
  <1>14. ASSUME NEW t \in Tasks, AbortTask(t) PROVE QuietBefore'
    BY <1>14 DEF AbortTask
  <1>15. ASSUME NEW t \in Tasks, Unwind(t) PROVE QuietBefore'
    BY <1>15 DEF Unwind
  <1>16. ASSUME NEW t \in Tasks, EndLoop(t) PROVE QuietBefore'
    BY <1>16 DEF EndLoop
  <1>17. ASSUME NEW t \in Tasks, FailLoop(t) PROVE QuietBefore'
    BY <1>17 DEF FailLoop
  <1>18. ASSUME NEW t \in Tasks, LegacyTakes(t) PROVE QuietBefore'
    BY <1>18 DEF LegacyTakes
  <1>19. ASSUME NEW t \in Tasks, LegacyLeaves(t) PROVE QuietBefore'
    BY <1>19 DEF LegacyLeaves
  <1>20. ASSUME NEW t \in Tasks, TaskCloses(t) PROVE QuietBefore'
    BY <1>20 DEF TaskCloses
  <1>21. CASE UNCHANGED vars
    BY <1>21 DEF vars
  <1> QED
    BY <1>1, <1>2, <1>3, <1>4, <1>5, <1>6, <1>7, <1>8, <1>9, <1>10, <1>11,
       <1>12, <1>13, <1>14, <1>15, <1>16, <1>17, <1>18, <1>19, <1>20, <1>21 DEF
       Next, Runs, vars, files, mind, ghosts

\* Each step keeps the reports of ends true.
LEMMA StoppedInductive ==
    ASSUME TypeOK, StoppedIsSettled, [Next]_vars
    PROVE  StoppedIsSettled'
  <1> USE NoneAssumption DEF TypeOK, StoppedIsSettled
  <1>1. CASE HandleEvent
    <2>1. \A i \in 1..Len(toService') : toService'[i] = toService[i + 1] /\ i + 1 \in 1..Len(toService)
      BY <1>1, HeadTailProperties DEF HandleEvent
    <2> QED
      BY <1>1, <2>1 DEF HandleEvent, ghosts
  <1>2. CASE Leave
    BY <1>2 DEF Leave, Gone, ghosts
  <1>3. CASE HandleCommand
    <2> DEFINE c == Head(toWorker)
    <2>1. \/ UNCHANGED toService
          \/ \E kind \in {"failed", "busy"} : Reply(kind, c.task, c.generation)
      BY <1>3 DEF HandleCommand, StartLoop, AbortLoop, CloseLoops
    <2>2. UNCHANGED settled
      BY <1>3 DEF HandleCommand, ghosts
    <2>3. CASE UNCHANGED toService
      BY <2>2, <2>3
    <2>4. CASE \E kind \in {"failed", "busy"} : Reply(kind, c.task, c.generation)
      <3>1. PICK kind \in {"failed", "busy"} : Reply(kind, c.task, c.generation)
        BY <2>4
      <3> QED
        BY <2>2, <3>1 DEF Reply
    <2> QED
      BY <2>1, <2>3, <2>4
  <1>4. CASE SettleUnsaved
    BY <1>4, SMTT(60) DEF SettleUnsaved, ghosts
  <1>5. CASE StartFails
    BY <1>5, SMTT(30) DEF StartFails, Reply, ghosts
  <1>6. CASE Crash
    BY <1>6 DEF Crash, Gone, ghosts
  <1>7. ASSUME NEW t \in Tasks, EndLoop(t) PROVE StoppedIsSettled'
    BY <1>7 DEF EndLoop, Reply
  <1>8. ASSUME NEW t \in Tasks, FailLoop(t) PROVE StoppedIsSettled'
    BY <1>8 DEF FailLoop, Reply, ghosts
  <1>9. CASE UNCHANGED <<toService, settled>>
    BY <1>9
  <1> QED
    BY <1>1, <1>2, <1>3, <1>4, <1>5, <1>6, <1>7, <1>8, <1>9 DEF Next, Runs,
       vars, Open, Recover, CloseWorker, Close, SaveFails, WorkerDies, Ensure,
       AbortTask, Unwind, LegacyTakes, LegacyLeaves, TaskCloses, files, mind,
       ghosts

----------------------------------------------------------------------------
(* Numbers of demands.                                                       *)

\* No demand is made: entries are of demands there were, and only what does
\* not stand any more is called off.
NumbersKept ==
    /\ serial' = serial
    /\ \A t \in Tasks, d \in Demands : IsOf(d, entry'[t], demand'[t]) => IsOf(d, entry[t], demand[t])
    /\ Wanted' \subseteq Wanted
    /\ \A t \in Tasks : demand'[t].number = demand[t].number
    /\ \A d \in cancelled' : d \in cancelled \/ \E t \in Tasks \ Wanted' : IsOf(d, entry[t], demand[t])

\* Then the numbers go on telling tasks and calls apart.
LEMMA NumbersStay ==
    ASSUME TypeOK, TypeOK', NumbersDiffer, NumbersKept
    PROVE  NumbersDiffer'
  <1>1. \A t \in Tasks, d \in Demands : IsOf(d, entry'[t], demand'[t]) => d <= serial'
    BY DEF NumbersDiffer, NumbersKept
  <1>2. \A t, u \in Tasks, d \in Demands :
           IsOf(d, entry'[t], demand'[t]) /\ IsOf(d, entry'[u], demand'[u]) => t = u
    BY DEF NumbersDiffer, NumbersKept
  <1>3. ASSUME NEW d \in cancelled' PROVE d <= serial'
    BY <1>3 DEF NumbersDiffer, NumbersKept, TypeOK
  <1>4. ASSUME NEW t \in Wanted'
        PROVE  demand'[t].number \in Demands \ cancelled'
    <2> DEFINE d == demand[t].number
    <2>1. t \in Wanted /\ t \in Tasks
      BY <1>4 DEF NumbersKept, Wanted
    <2>2. d \in Demands \ cancelled /\ demand'[t].number = d /\ IsOf(d, entry[t], demand[t])
      BY <2>1 DEF NumbersDiffer, NumbersKept, IsOf
    <2>3. ASSUME NEW u \in Tasks, IsOf(d, entry[u], demand[u]) PROVE u = t
      BY <2>1, <2>2, <2>3 DEF NumbersDiffer
    <2> HIDE DEF d
    <2>4. d \notin cancelled'
      BY <1>4, <2>2, <2>3 DEF NumbersKept
    <2> QED
      BY <2>2, <2>4
  <1> QED
    BY <1>1, <1>2, <1>3, <1>4 DEF NumbersDiffer

\* Each step keeps the numbers apart.
LEMMA NumbersInductive ==
    ASSUME TypeOK, TypeOK', NumbersDiffer, [Next]_vars
    PROVE  NumbersDiffer'
  <1>1. CASE Recover
    <2>1. serial' = serial
      BY <1>1 DEF Recover
    <2>2. /\ \A t \in Tasks : demand'[t].number = demand[t].number
          /\ Wanted' \subseteq Wanted \cap active
      BY <1>1 DEF Recover, TypeOK, Demand, Wanted
    <2>3. \A t \in Tasks : entry'[t] # None => entry'[t].generation = demand[t].number
      BY <1>1 DEF Recover, Opened
    <2>4. cancelled' = cancelled \cup UNION {Current(t) : t \in Tasks \ active}
      BY <1>1 DEF Recover
    <2>5. \A d \in cancelled' : d \in cancelled \/ \E t \in Tasks \ active : d = demand[t].number
      BY <2>4 DEF Current
    <2>6. NumbersKept
      <3>1. \A t \in Tasks, d \in Demands : IsOf(d, entry'[t], demand'[t]) => IsOf(d, entry[t], demand[t])
        BY <2>2, <2>3 DEF IsOf, EntryIs
      <3>2. \A d \in cancelled' :
               d \in cancelled \/ \E t \in Tasks \ Wanted' : IsOf(d, entry[t], demand[t])
        BY <2>2, <2>5 DEF IsOf
      <3> QED
        BY <2>1, <2>2, <3>1, <3>2 DEF NumbersKept
    <2> QED
      BY <2>6, NumbersStay
  <1>2. CASE HandleEvent
    <2> DEFINE e == Head(toService)
    <2>1. serial' = serial /\ cancelled' = cancelled
      BY <1>2 DEF HandleEvent, ghosts
    <2>2. e.task \in Tasks
      <3>1. e \in Event
        BY <1>2, HeadTailProperties DEF HandleEvent, TypeOK
      <3> QED
        BY <3>1 DEF Event
    <2>3. CASE UNCHANGED <<demand, mind, toWorker, service>>
      BY <2>1, <2>3, NumbersStay DEF NumbersKept, IsOf, EntryIs, Wanted, mind
    <2>4. CASE Settle(e)
      <3>1. /\ \A t \in Tasks : demand'[t].number = demand[t].number
            /\ Wanted' \subseteq Wanted
        <4>1. CASE CallOff(e.task)
          BY <2>2, <4>1, CallsOff DEF Wanted
        <4>2. CASE UNCHANGED demand
          BY <4>2 DEF Wanted
        <4> QED
          BY <2>4, <4>1, <4>2 DEF Settle
      <3>2. \A t \in Tasks : t # e.task => entry'[t] = entry[t]
        BY <2>2, <2>4 DEF Settle, TypeOK
      <3>3. entry'[e.task] # None => entry'[e.task].generation = demand[e.task].number
        BY <2>2, <2>4 DEF Settle, TypeOK, Opened
      <3>4. NumbersKept
        <4>1. \A t \in Tasks, d \in Demands : IsOf(d, entry'[t], demand'[t]) => IsOf(d, entry[t], demand[t])
          BY <3>1, <3>2, <3>3 DEF IsOf, EntryIs
        <4> QED
          BY <2>1, <3>1, <4>1 DEF NumbersKept
      <3> QED
        BY <3>4, NumbersStay
    <2>5. CASE UNCHANGED demand /\ Fail
      <3>1. SameEntries
        BY <2>5, FailsQuietly
      <3> QED
        BY <2>1, <2>5, <3>1, NumbersStay DEF NumbersKept, SameEntries, IsOf, EntryIs, Wanted
    <2> QED
      BY <1>2, <2>3, <2>4, <2>5 DEF HandleEvent
  <1>3. CASE Leave
    <2>1. NumbersKept
      BY <1>3 DEF Leave, Gone, NumbersKept, IsOf, EntryIs, Wanted, ghosts
    <2> QED
      BY <2>1, NumbersStay
  <1>4. CASE Close
    <2>1. SameEntries
      BY <1>4, AbortsAll DEF Close
    <2>2. serial' = serial /\ demand' = demand /\ cancelled' = cancelled
      BY <1>4 DEF Close, files, ghosts
    <2> QED
      BY <2>1, <2>2, NumbersStay DEF NumbersKept, SameEntries, IsOf, EntryIs, Wanted
  <1>5. CASE SaveFails
    <2>1. SameEntries
      BY <1>5, FailsQuietly DEF SaveFails
    <2>2. serial' = serial /\ demand' = demand /\ cancelled' = cancelled
      BY <1>5 DEF SaveFails, files, ghosts
    <2> QED
      BY <2>1, <2>2, NumbersStay DEF NumbersKept, SameEntries, IsOf, EntryIs, Wanted
  <1>6. CASE SettleUnsaved
    <2>1. SameEntries
      BY <1>6, FailsQuietly DEF SettleUnsaved
    <2>2. serial' = serial /\ demand' = demand /\ cancelled' = cancelled
      BY <1>6 DEF SettleUnsaved, files, ghosts
    <2> QED
      BY <2>1, <2>2, NumbersStay DEF NumbersKept, SameEntries, IsOf, EntryIs, Wanted
  <1>7. CASE Crash
    <2>1. NumbersKept
      BY <1>7 DEF Crash, Gone, NumbersKept, IsOf, EntryIs, Wanted, ghosts
    <2> QED
      BY <2>1, NumbersStay
  <1>8. ASSUME NEW t \in Tasks, Ensure(t) PROVE NumbersDiffer'
    <2>1. /\ serial \in Nat /\ serial + 1 \in Demands /\ cancelled \subseteq Demands
          /\ Demands \subseteq Nat
      BY <1>8, BoundsAssumption DEF Ensure, TypeOK, Demands
    <2>2. /\ serial' = serial + 1 /\ cancelled' = cancelled
          /\ demand'[t].number = serial + 1
          /\ \A u \in Tasks : u # t => demand'[u] = demand[u]
      BY <1>8 DEF Ensure, TypeOK, ghosts
    <2>3. \A u \in Tasks : u # t => entry'[u] = entry[u]
      BY <1>8 DEF Ensure, TypeOK, mind
    <2>4. entry'[t] = entry[t] \/ entry'[t].generation = serial + 1
      BY <1>8 DEF Ensure, TypeOK, Opened, mind
    <2>5. ASSUME NEW u \in Tasks, NEW d \in Demands, IsOf(d, entry'[u], demand'[u])
          PROVE  IsOf(d, entry[u], demand[u]) \/ (u = t /\ d = serial + 1)
      <3>1. CASE u = t
        <4>1. demand'[t].number = serial + 1
          BY <2>2
        <4>2. (entry'[t] # None /\ entry'[t].generation = d) \/ demand'[t].number = d
          BY <2>5, <3>1 DEF IsOf
        <4> QED
          BY <2>4, <3>1, <4>1, <4>2 DEF IsOf
      <3>2. CASE u # t
        <4>1. demand'[u] = demand[u] /\ entry'[u] = entry[u]
          BY <2>2, <2>3, <3>2
        <4> QED
          BY <2>5, <4>1
      <3> QED
        BY <3>1, <3>2
    <2>6. \A u \in Tasks : ~IsOf(serial + 1, entry[u], demand[u])
      BY <2>1 DEF NumbersDiffer
    <2>7. /\ \A u \in Tasks, d \in Demands : IsOf(d, entry'[u], demand'[u]) => d <= serial'
          /\ \A d \in cancelled' : d <= serial'
      BY <2>1, <2>2, <2>5 DEF NumbersDiffer
    <2>8. \A x, u \in Tasks, d \in Demands :
             IsOf(d, entry'[x], demand'[x]) /\ IsOf(d, entry'[u], demand'[u]) => x = u
      BY <2>5, <2>6 DEF NumbersDiffer
    <2>9. serial + 1 \notin cancelled
      BY <2>1 DEF NumbersDiffer
    <2>10. \A u \in Wanted' : u = t \/ u \in Wanted
      BY <2>2 DEF Wanted
    <2>11. \A u \in Wanted' : demand'[u].number \in Demands \ cancelled'
      <3>1. Wanted \subseteq Tasks
        BY DEF Wanted
      <3> QED
        BY <2>1, <2>2, <2>9, <2>10, <3>1 DEF NumbersDiffer
    <2> QED
      BY <2>7, <2>8, <2>11 DEF NumbersDiffer
  <1>9. ASSUME NEW t \in Tasks, AbortTask(t) PROVE NumbersDiffer'
    <2>1. serial' = serial
      BY <1>9 DEF AbortTask
    <2>2. /\ \A u \in Tasks : demand'[u].number = demand[u].number
          /\ Wanted' \subseteq Wanted \ {t}
      BY <1>9, CallsOff DEF AbortTask, Wanted
    <2>3. \A u \in Tasks : entry'[u] # None => EntryIs(u, entry'[u].generation)
      BY <1>9 DEF AbortTask, EntryIs, TypeOK, Entry
    <2>4. \A d \in cancelled' : d \in cancelled \/ d = demand[t].number \/ EntryIs(t, d)
      BY <1>9 DEF AbortTask, Current, EntryIs
    <2>5. NumbersKept
      <3>1. \A u \in Tasks, d \in Demands : IsOf(d, entry'[u], demand'[u]) => IsOf(d, entry[u], demand[u])
        BY <2>2, <2>3 DEF IsOf, EntryIs
      <3>2. \A d \in cancelled' :
               d \in cancelled \/ \E u \in Tasks \ Wanted' : IsOf(d, entry[u], demand[u])
        BY <2>2, <2>4 DEF IsOf, EntryIs
      <3> QED
        BY <2>1, <2>2, <3>1, <3>2 DEF NumbersKept
    <2> QED
      BY <2>5, NumbersStay
  <1>10. CASE UNCHANGED <<demand, entry, serial, cancelled>>
    BY <1>10 DEF NumbersDiffer, IsOf, EntryIs, Wanted
  <1> QED
    BY <1>1, <1>2, <1>3, <1>4, <1>5, <1>6, <1>7, <1>8, <1>9, <1>10 DEF Next,
       Runs, vars, Open, CloseWorker, HandleCommand, StartFails, WorkerDies,
       Unwind, EndLoop, FailLoop, LegacyTakes, LegacyLeaves, TaskCloses, files,
       mind, ghosts, Gone

\* Each step uses a demand up by its own loop, or when it is called off.
LEMMA ConsumedInductive ==
    ASSUME TypeOK, StoppedIsSettled, ConsumedWasServed, [Next]_vars
    PROVE  ConsumedWasServed'
  <1>1. CASE Recover
    <2>1. ASSUME NEW t \in Tasks, demand'[t].number # None, ~demand'[t].required
          PROVE  demand'[t].number \in settled' \cup cancelled'
      <3>1. settled' = settled /\ cancelled' = cancelled \cup UNION {Current(u) : u \in Tasks \ active}
        BY <1>1 DEF Recover
      <3>2. demand'[t].number = demand[t].number
        BY <1>1 DEF Recover, TypeOK, Demand
      <3>3. CASE demand[t].required
        <4>1. t \in Tasks \ active /\ demand[t].number \in Current(t)
          BY <1>1, <2>1, <3>3 DEF Recover, TypeOK, Current
        <4> QED
          BY <3>1, <3>2, <4>1
      <3>4. CASE ~demand[t].required
        BY <2>1, <3>1, <3>2, <3>4 DEF ConsumedWasServed
      <3> QED
        BY <3>3, <3>4 DEF TypeOK
    <2> QED
      BY <2>1 DEF ConsumedWasServed
  <1>2. CASE HandleEvent
    <2> DEFINE e == Head(toService)
    <2>1. e \in Event /\ (e.kind = "stopped" => e.generation \in settled)
      <3>1. e \in Event /\ e = toService[1] /\ 1 \in 1..Len(toService)
        BY <1>2, HeadTailProperties DEF HandleEvent, TypeOK
      <3> QED
        BY <3>1 DEF StoppedIsSettled
    <2>2. settled' = settled /\ cancelled' = cancelled
      BY <1>2 DEF HandleEvent, ghosts
    <2>3. CASE UNCHANGED demand
      BY <2>2, <2>3 DEF ConsumedWasServed
    <2>4. CASE e.kind # "failed" /\ Settle(e) /\ Consumes(e)
      <3>1. e.task \in Tasks /\ demand[e.task].number \in settled
        BY <2>1, <2>4 DEF Consumes, Event
      <3>2. CallOff(e.task)
        BY <2>4 DEF Settle
      <3> QED
        BY <2>2, <3>1, <3>2, CallsOff DEF ConsumedWasServed
    <2> QED
      BY <1>2, <2>3, <2>4 DEF HandleEvent, Settle
  <1>3. ASSUME NEW t \in Tasks, Ensure(t) PROVE ConsumedWasServed'
    BY <1>3 DEF Ensure, ConsumedWasServed, TypeOK, ghosts
  <1>4. ASSUME NEW t \in Tasks, AbortTask(t) PROVE ConsumedWasServed'
    <2>1. /\ demand'[t].number = demand[t].number
          /\ \A u \in Tasks : u # t => demand'[u] = demand[u]
      BY <1>4, CallsOff DEF AbortTask
    <2>2. settled' = settled /\ cancelled \cup Current(t) \subseteq cancelled'
      BY <1>4 DEF AbortTask
    <2> QED
      BY <2>1, <2>2 DEF ConsumedWasServed, Current, TypeOK, Demand
  <1>5. ASSUME NEW t \in Tasks, EndLoop(t) PROVE ConsumedWasServed'
    BY <1>5 DEF EndLoop, ConsumedWasServed
  <1>6. CASE UNCHANGED <<demand, settled, cancelled>>
    BY <1>6 DEF ConsumedWasServed
  <1> QED
    BY <1>1, <1>2, <1>3, <1>4, <1>5, <1>6 DEF Next, Runs, vars, Open,
       CloseWorker, Leave, HandleCommand, Close, SaveFails, SettleUnsaved,
       StartFails, WorkerDies, Crash, Unwind, FailLoop, LegacyTakes,
       LegacyLeaves, TaskCloses, files, mind, ghosts, Gone

----------------------------------------------------------------------------
(* Accounts of loops.                                                       *)

\* Of t, no start, loop or event is new; the first of each channel may be gone.
StartsFrom(t, k) ==
    \A i \in 1..Len(toWorker') : toWorker'[i].kind = "start" /\ toWorker'[i].task = t =>
        i + k \in 1..Len(toWorker) /\ toWorker'[i] = toWorker[i + k]
EventsFrom(t, k) ==
    \A i \in 1..Len(toService') : toService'[i].task = t =>
        i + k \in 1..Len(toService) /\ toService'[i] = toService[i + k]
LoopFrom(t) ==
    loop'[t] # None => loop[t] # None /\ loop'[t].generation = loop[t].generation
SameEntry(t) ==
    /\ entry'[t] = None <=> entry[t] = None
    /\ entry[t] # None => entry'[t].generation = entry[t].generation

\* Then the account of t stays in order.
LEMMA AccountStays ==
    ASSUME NEW t, AccountOf(t), NEW k \in {0, 1}, NEW m \in {0, 1},
           SameEntry(t), StartsFrom(t, k), EventsFrom(t, m), LoopFrom(t)
    PROVE  AccountOf(t)'
  <1>1. \A d : EntryIs(t, d) => entry'[t] # None /\ entry'[t].generation = d
    BY DEF SameEntry, EntryIs
  <1>2. NoEvent(t) => NoEvent(t)'
    BY DEF EventsFrom, NoEvent
  <1>3. ASSUME NEW i \in 1..Len(toWorker'), toWorker'[i].kind = "start", toWorker'[i].task = t
        PROVE  /\ entry'[t] # None /\ entry'[t].generation = toWorker'[i].generation
               /\ loop'[t] = None
               /\ \A j \in 1..Len(toWorker') :
                     toWorker'[j].kind = "start" /\ toWorker'[j].task = t => j = i
               /\ NoEvent(t)'
    BY <1>1, <1>2, <1>3, SMTT(30) DEF AccountOf, StartsAt, StartsFrom, LoopFrom
  <1>4. ASSUME loop'[t] # None
        PROVE  entry'[t] # None /\ entry'[t].generation = loop'[t].generation /\ NoEvent(t)'
    BY <1>1, <1>2, <1>4 DEF AccountOf, LoopFrom
  <1>5. ASSUME NEW i \in 1..Len(toService'), toService'[i].task = t
        PROVE  /\ entry'[t] # None /\ entry'[t].generation = toService'[i].generation
               /\ \A j \in 1..Len(toService') : toService'[j].task = t => j = i
    BY <1>1, <1>5, SMTT(30) DEF AccountOf, EventsFrom
  <1> QED
    BY <1>3, <1>4, <1>5 DEF AccountOf, StartsAt, EntryIs

\* So it does when nothing of t is left.
LEMMA AccountCloses ==
    ASSUME NEW t, loop'[t] = None,
           \A i \in 1..Len(toWorker') : toWorker'[i].kind = "start" => toWorker'[i].task # t,
           \A i \in 1..Len(toService') : toService'[i].task # t
    PROVE  AccountOf(t)'
  BY DEF AccountOf, StartsAt, NoEvent

\* Who started nothing of t has nothing of it under way.
LEMMA NothingWithoutEntry ==
    ASSUME NEW t, AccountOf(t), entry[t] = None
    PROVE  /\ loop[t] = None /\ NoEvent(t)
           /\ \A i \in 1..Len(toWorker) : ~StartsAt(i, t)
  BY DEF AccountOf, EntryIs, NoEvent

\* A start that is sent opens the account of t, and leaves the others.
LEMMA AccountOpens ==
    ASSUME TypeOK, OneAccount, NEW t \in Tasks, NEW d \in Demands, NEW m \in {0, 1},
           toWorker' = Append(toWorker, Start(t, d)),
           entry' = [entry EXCEPT ![t] = Opened(d)], loop' = loop,
           loop[t] = None, \A i \in 1..Len(toWorker) : ~StartsAt(i, t),
           \A i \in 1..Len(toService') : toService'[i].task # t,
           \A u \in Tasks : EventsFrom(u, m)
    PROVE  OneAccount'
  <1>1. /\ Len(toWorker) \in Nat /\ Len(toWorker') = Len(toWorker) + 1
        /\ \A i \in 1..Len(toWorker) : toWorker'[i] = toWorker[i]
        /\ toWorker'[Len(toWorker) + 1] = Start(t, d)
    BY DEF TypeOK
  <1>2. ASSUME NEW u \in Tasks, u # t PROVE AccountOf(u)'
    <2>1. SameEntry(u) /\ LoopFrom(u)
      BY <1>2 DEF SameEntry, LoopFrom, TypeOK
    <2>2. StartsFrom(u, 0)
      BY <1>1, <1>2 DEF StartsFrom, Start
    <2> QED
      BY <2>1, <2>2, AccountStays DEF OneAccount
  <1>3. AccountOf(t)'
    <2>4. Opened(d) \in Entry
      BY DEF Opened, Entry
    <2>1. entry'[t] # None /\ entry'[t].generation = d
      BY <2>4, NoneAssumption DEF TypeOK, Opened
    <2>2. \A i \in 1..Len(toWorker') : toWorker'[i].kind = "start" /\ toWorker'[i].task = t =>
             i = Len(toWorker) + 1 /\ toWorker'[i].generation = d
      BY <1>1 DEF StartsAt, Start
    <2>3. loop'[t] = None
      OBVIOUS
    <2> QED
      BY <2>1, <2>2, <2>3 DEF AccountOf, StartsAt, EntryIs, NoEvent
  <1> QED
    BY <1>2, <1>3 DEF OneAccount

\* What an event that is taken leaves.
LEMMA EventsLeave ==
    ASSUME TypeOK, toService' = toService \/ (toService # <<>> /\ toService' = Tail(toService))
    PROVE  /\ \E m \in {0, 1} : \A t \in Tasks : EventsFrom(t, m)
           /\ toService' = toService => \A t \in Tasks : EventsFrom(t, 0)
  <1>1. CASE toService' = toService
    BY <1>1 DEF EventsFrom, TypeOK
  <1>2. CASE toService # <<>> /\ toService' = Tail(toService)
    <2>1. \A i \in 1..Len(toService') : /\ i + 1 \in 1..Len(toService)
                                        /\ toService'[i] = toService[i + 1]
      BY <1>2, HeadTailProperties DEF TypeOK
    <2> QED
      BY <1>2, <2>1 DEF EventsFrom
  <1>3. toService' = toService => \A t \in Tasks : EventsFrom(t, 0)
    BY DEF EventsFrom, TypeOK
  <1> QED
    BY <1>1, <1>2, <1>3

\* So do all accounts when nothing but aborts is sent and at most an event is
\* taken.
LEMMA AccountsStay ==
    ASSUME TypeOK, OneAccount, Grows, NoNewStart, SameEntries,
           toService' = toService \/ (toService # <<>> /\ toService' = Tail(toService)),
           loop' = loop \/ \A t \in Tasks : LoopFrom(t)
    PROVE  OneAccount'
  <1>1. PICK m \in {0, 1} : \A t \in Tasks : EventsFrom(t, m)
    BY EventsLeave
  <1>2. ASSUME NEW t \in Tasks PROVE AccountOf(t)'
    <2>1. SameEntry(t) /\ LoopFrom(t)
      BY DEF SameEntries, SameEntry, LoopFrom
    <2>2. StartsFrom(t, 0)
      BY DEF Grows, NoNewStart, StartsFrom
    <2> QED
      BY <1>1, <2>1, <2>2, AccountStays DEF OneAccount
  <1> QED
    BY <1>2 DEF OneAccount

\* An abort of the service adds nothing else.
LEMMA AbortSent ==
    ASSUME TypeOK, NEW t \in Tasks, AbortTask(t)
    PROVE  /\ Grows /\ NoNewStart /\ SameEntries
           /\ entry[t] # None => \E j \in 1..Len(toWorker') : j > Len(toWorker) /\ toWorker'[j] = Abort(t)
  <1>1. CASE entry[t] = None
    BY <1>1 DEF AbortTask, Grows, NoNewStart, SameEntries, TypeOK
  <1>2. CASE entry[t] # None
    <2>1. toWorker' = Append(toWorker, Abort(t)) /\ entry' = [entry EXCEPT ![t].stopping = TRUE]
      BY <1>2 DEF AbortTask
    <2>2. Abort(t) \in Command /\ Abort(t).kind = "abort"
      BY <1>2 DEF Abort, Command, TypeOK, Entry
    <2>3. /\ Len(toWorker) \in Nat /\ Len(toWorker') = Len(toWorker) + 1
          /\ \A i \in 1..Len(toWorker) : toWorker'[i] = toWorker[i]
          /\ toWorker'[Len(toWorker) + 1] = Abort(t)
          /\ toWorker' \in Seq(Command)
      BY <2>1, <2>2, AppendProperties DEF TypeOK
    <2>4. SameEntries
      BY <1>2, <2>1, NoneAssumption DEF SameEntries, TypeOK, Entry
    <2> QED
      BY <2>2, <2>3, <2>4 DEF Grows, NoNewStart
  <1> QED
    BY <1>1, <1>2

\* What a command that is taken leaves.
LEMMA TailFacts ==
    ASSUME TypeOK, toWorker # <<>>, toWorker' = Tail(toWorker)
    PROVE  /\ Len(toWorker) \in Nat /\ Len(toWorker') = Len(toWorker) - 1
           /\ Head(toWorker) \in Command /\ Head(toWorker) = toWorker[1] /\ 1 \in 1..Len(toWorker)
           /\ \A i \in 1..Len(toWorker') : /\ i + 1 \in 1..Len(toWorker)
                                           /\ toWorker'[i] = toWorker[i + 1]
  BY HeadTailProperties DEF TypeOK

\* A start the worker takes is the only one of its task, and its loop is gone.
LEMMA HeadStart ==
    ASSUME TypeOK, OneAccount, toWorker # <<>>, toWorker' = Tail(toWorker), Head(toWorker).kind = "start"
    PROVE  LET c == Head(toWorker) IN
           /\ c.task \in Tasks /\ c.generation \in Demands /\ loop[c.task] = None
           /\ EntryIs(c.task, c.generation) /\ NoEvent(c.task)
           /\ \A i \in 1..Len(toWorker') : toWorker'[i].kind = "start" => toWorker'[i].task # c.task
  <1> DEFINE c == Head(toWorker)
  <1>1. c.task \in Tasks /\ c.generation \in Demands
    BY TailFacts DEF Command
  <1>2. 1 \in 1..Len(toWorker) /\ StartsAt(1, c.task) /\ toWorker[1] = c
    BY TailFacts DEF StartsAt
  <1>3. AccountOf(c.task)
    BY <1>1 DEF OneAccount
  <1>4. \A i \in 1..Len(toWorker) : StartsAt(i, c.task) => i = 1
    BY <1>2, <1>3 DEF AccountOf
  <1>5. \A i \in 1..Len(toWorker') : toWorker'[i].kind = "start" => toWorker'[i].task # c.task
    BY <1>4, TailFacts DEF StartsAt
  <1> QED
    BY <1>1, <1>2, <1>3, <1>5 DEF AccountOf

\* A start that is answered at once closes to an event.
LEMMA StartAnswered ==
    ASSUME TypeOK, OneAccount, toWorker # <<>>, toWorker' = Tail(toWorker), Head(toWorker).kind = "start",
           NEW kind \in {"busy", "failed"}, Reply(kind, Head(toWorker).task, Head(toWorker).generation),
           loop' = loop, entry' = entry
    PROVE  OneAccount'
  <1> DEFINE c == Head(toWorker)
  <1>1. /\ c.task \in Tasks /\ loop[c.task] = None /\ EntryIs(c.task, c.generation) /\ NoEvent(c.task)
        /\ \A i \in 1..Len(toWorker') : toWorker'[i].kind = "start" => toWorker'[i].task # c.task
    BY HeadStart
  <1>2. /\ Len(toService) \in Nat /\ Len(toService') = Len(toService) + 1
        /\ \A i \in 1..Len(toService) : toService'[i] = toService[i]
        /\ toService'[Len(toService) + 1].task = c.task
        /\ toService'[Len(toService) + 1].generation = c.generation
    BY DEF Reply, TypeOK
  <1> HIDE DEF c
  <1>3. ASSUME NEW u \in Tasks, u # c.task PROVE AccountOf(u)'
    <2>1. SameEntry(u) /\ LoopFrom(u)
      BY DEF SameEntry, LoopFrom
    <2>2. StartsFrom(u, 1)
      BY TailFacts DEF StartsFrom
    <2>3. EventsFrom(u, 0)
      BY <1>2, <1>3 DEF EventsFrom
    <2> QED
      BY <2>1, <2>2, <2>3, AccountStays DEF OneAccount
  <1>4. ASSUME NEW u \in Tasks, u = c.task PROVE AccountOf(u)'
    <2>1. \A i \in 1..Len(toWorker') : ~StartsAt(i, u)'
      BY <1>1, <1>4 DEF StartsAt
    <2>2. loop'[u] = None /\ entry'[u] # None /\ entry'[u].generation = c.generation
      BY <1>1, <1>4 DEF EntryIs
    <2>3. \A i \in 1..Len(toService') : toService'[i].task = u =>
             i = Len(toService) + 1 /\ toService'[i].generation = c.generation
      BY <1>1, <1>2, <1>4 DEF NoEvent
    <2> QED
      BY <2>1, <2>2, <2>3 DEF AccountOf, StartsAt, EntryIs
  <1> QED
    BY <1>3, <1>4 DEF OneAccount

\* A start that runs becomes the loop.
LEMMA StartRuns ==
    ASSUME TypeOK, OneAccount, toWorker # <<>>, toWorker' = Tail(toWorker), Head(toWorker).kind = "start",
           loop' = [loop EXCEPT ![Head(toWorker).task] =
                       [generation |-> Head(toWorker).generation, aborted |-> FALSE, phase |-> "running"]],
           toService' = toService, entry' = entry
    PROVE  OneAccount'
  <1> DEFINE c == Head(toWorker)
  <1>1. /\ c.task \in Tasks /\ loop[c.task] = None /\ EntryIs(c.task, c.generation) /\ NoEvent(c.task)
        /\ \A i \in 1..Len(toWorker') : toWorker'[i].kind = "start" => toWorker'[i].task # c.task
    BY HeadStart
  <1>2. /\ \A u \in Tasks : u # c.task => loop'[u] = loop[u]
        /\ loop'[c.task].generation = c.generation
    BY <1>1 DEF TypeOK
  <1> HIDE DEF c
  <1>3. ASSUME NEW u \in Tasks, u # c.task PROVE AccountOf(u)'
    <2>1. SameEntry(u) /\ LoopFrom(u) /\ EventsFrom(u, 0)
      BY <1>2, <1>3, EventsLeave DEF SameEntry, LoopFrom
    <2>2. StartsFrom(u, 1)
      BY TailFacts DEF StartsFrom
    <2> QED
      BY <2>1, <2>2, AccountStays DEF OneAccount
  <1>4. ASSUME NEW u \in Tasks, u = c.task PROVE AccountOf(u)'
    BY <1>1, <1>2, <1>4 DEF AccountOf, StartsAt, EntryIs, NoEvent
  <1> QED
    BY <1>3, <1>4 DEF OneAccount

\* A loop that ends becomes its event.
LEMMA LoopReports ==
    ASSUME TypeOK, OneAccount, NEW t \in Tasks, NEW kind \in {"stopped", "failed"}, loop[t] # None,
           loop' = [loop EXCEPT ![t] = None], Reply(kind, t, loop[t].generation),
           toWorker' = toWorker, entry' = entry
    PROVE  OneAccount'
  <1>1. EntryIs(t, loop[t].generation) /\ NoEvent(t) /\ \A i \in 1..Len(toWorker) : ~StartsAt(i, t)
    BY DEF OneAccount, AccountOf
  <1>2. /\ Len(toService) \in Nat /\ Len(toService') = Len(toService) + 1
        /\ \A i \in 1..Len(toService) : toService'[i] = toService[i]
        /\ toService'[Len(toService) + 1].task = t
        /\ toService'[Len(toService) + 1].generation = loop[t].generation
    BY DEF Reply, TypeOK
  <1>3. \A u \in Tasks : loop'[u] = IF u = t THEN None ELSE loop[u]
    BY DEF TypeOK
  <1>4. ASSUME NEW u \in Tasks, u # t PROVE AccountOf(u)'
    <2>1. SameEntry(u) /\ LoopFrom(u)
      BY <1>3, <1>4 DEF SameEntry, LoopFrom
    <2>2. StartsFrom(u, 0)
      BY DEF StartsFrom, TypeOK
    <2>3. EventsFrom(u, 0)
      BY <1>2, <1>4 DEF EventsFrom
    <2> QED
      BY <2>1, <2>2, <2>3, AccountStays DEF OneAccount
  <1>5. AccountOf(t)'
    BY <1>1, <1>2, <1>3 DEF AccountOf, StartsAt, EntryIs, NoEvent
  <1> QED
    BY <1>4, <1>5 DEF OneAccount

\* Each step keeps the accounts.
LEMMA AccountInductive ==
    ASSUME TypeOK, TypeOK', QuietBefore, NumbersDiffer, OneAccount, [Next]_vars
    PROVE  OneAccount'
  <1>1. CASE Recover
    <2>1. PICK order \in SetToSeqs({t \in Tasks : demand[t].required} \cap active) :
             toWorker' = [i \in DOMAIN order |-> Start(order[i], demand[order[i]].number)]
      BY <1>1 DEF Recover
    <2>2. {t \in Tasks : demand[t].required} \cap active = Wanted \cap active
      BY DEF Wanted
    <2>3. DOMAIN order = 1..Len(toWorker')
      BY ONLY <2>1, <2>2, TypeOK, NumbersDiffer, Recovered
    <2>4. /\ \A i \in DOMAIN order : order[i] \in Wanted \cap active
          /\ \A i, j \in DOMAIN order : i # j => order[i] # order[j]
      BY <2>1, <2>2, Orders DEF Wanted
    <2>5. \A i \in 1..Len(toWorker') : /\ toWorker'[i].task = order[i]
                                     /\ toWorker'[i].generation = demand[order[i]].number
      BY <2>1, <2>3 DEF Start
    <2>6. Len(toService') = 0 /\ \A t \in Tasks : loop'[t] = None
      BY <1>1 DEF Recover, QuietBefore
    <2>7. \A t \in Wanted \cap active : entry'[t] = Opened(demand[t].number)
      BY <1>1 DEF Recover, Wanted
    <2>8. ASSUME NEW t \in Wanted \cap active
          PROVE  entry'[t] # None /\ entry'[t].generation = demand[t].number
      <3>1. demand[t].number \in Demands
        BY DEF NumbersDiffer
      <3>2. Opened(demand[t].number) \in Entry
        BY <3>1 DEF Opened, Entry
      <3> QED
        BY <2>7, <3>2, NoneAssumption DEF Opened
    <2>9. ASSUME NEW t \in Tasks PROVE AccountOf(t)'
      BY <2>3, <2>4, <2>5, <2>6, <2>8 DEF AccountOf, StartsAt, EntryIs, NoEvent
    <2> QED
      BY <2>9 DEF OneAccount
  <1>2. CASE HandleEvent
    <2> DEFINE e == Head(toService)
    <2>1. /\ toService # <<>> /\ toService' = Tail(toService) /\ loop' = loop
          /\ e \in Event /\ e = toService[1] /\ 1 \in 1..Len(toService)
      BY <1>2, HeadTailProperties DEF HandleEvent, TypeOK
    <2>2. /\ e.task \in Tasks
          /\ \A i \in 1..Len(toService') : /\ i + 1 \in 1..Len(toService)
                                         /\ toService'[i] = toService[i + 1]
      BY <2>1, HeadTailProperties DEF TypeOK, Event
    <2>3. \A u \in Tasks : EventsFrom(u, 1)
      BY <2>2 DEF EventsFrom
    <2>4. CASE UNCHANGED <<demand, mind, toWorker, service>>
      <3>1. Grows /\ NoNewStart /\ SameEntries
        BY <2>4 DEF Grows, NoNewStart, SameEntries, TypeOK, mind
      <3> QED
        BY <2>1, <3>1, AccountsStay
    <2>5. CASE Fail
      <3>1. Grows /\ NoNewStart /\ SameEntries
        BY <2>5, FailsQuietly
      <3> QED
        BY <2>1, <3>1, AccountsStay
    <2>6. CASE Settle(e)
      <3> HIDE DEF e
      <3>1. \A i \in 1..Len(toService') : toService'[i].task # e.task
        BY <2>1, <2>2 DEF OneAccount, AccountOf
      <3>2. loop[e.task] = None /\ \A i \in 1..Len(toWorker) : ~StartsAt(i, e.task)
        BY <2>1, <2>2 DEF OneAccount, AccountOf, NoEvent
      <3>3. CASE Renews(e)
        <4>1. /\ toWorker' = Append(toWorker, Start(e.task, demand[e.task].number))
              /\ entry' = [entry EXCEPT ![e.task] = Opened(demand[e.task].number)]
          BY <2>6, <3>3 DEF Settle
        <4>2. demand[e.task].number \in Demands
          BY <2>2, <3>3 DEF Renews, NumbersDiffer, Wanted
        <4> QED
          BY <2>1, <2>2, <2>3, <3>1, <3>2, <4>1, <4>2, AccountOpens
      <3>4. CASE ~Renews(e)
        <4>1. entry' = [entry EXCEPT ![e.task] = None] /\ toWorker' = toWorker
          BY <2>6, <3>4 DEF Settle
        <4>2. ASSUME NEW u \in Tasks, u # e.task PROVE AccountOf(u)'
          <5>1. SameEntry(u) /\ LoopFrom(u) /\ StartsFrom(u, 0)
            BY <2>1, <4>1, <4>2 DEF SameEntry, LoopFrom, StartsFrom, TypeOK
          <5> QED
            BY <2>3, <5>1, AccountStays DEF OneAccount
        <4>3. ASSUME NEW u \in Tasks, u = e.task PROVE AccountOf(u)'
          <5>1. /\ loop'[u] = None /\ \A i \in 1..Len(toService') : toService'[i].task # u
                /\ \A i \in 1..Len(toWorker') : toWorker'[i].kind = "start" => toWorker'[i].task # u
            BY <2>1, <3>1, <3>2, <4>1, <4>3 DEF StartsAt
          <5> QED
            BY <5>1, AccountCloses
        <4> QED
          BY <4>2, <4>3 DEF OneAccount
      <3> QED
        BY <3>3, <3>4
    <2> QED
      BY <1>2, <2>4, <2>5, <2>6 DEF HandleEvent
  <1>3. CASE CloseWorker
    <2>1. Grows /\ NoNewStart
      BY <1>3 DEF CloseWorker, Grows, NoNewStart, TypeOK, Command
    <2>2. UNCHANGED <<toService, loop>> /\ SameEntries
      BY <1>3 DEF CloseWorker, mind, SameEntries
    <2> QED
      BY <2>1, <2>2, AccountsStay
  <1>4. CASE Leave
    <2>1. \A t \in Tasks : loop'[t] = None
      BY <1>4 DEF Leave, Gone
    <2>2. toWorker' = <<>> /\ toService' = <<>>
      BY <1>4 DEF Leave, Gone
    <2>3. Len(toWorker') = 0 /\ Len(toService') = 0
      BY <2>2
    <2> QED
      BY <2>1, <2>3, AccountCloses DEF OneAccount
  <1>5. CASE HandleCommand
    <2> DEFINE c == Head(toWorker)
    <2>1. toWorker # <<>> /\ toWorker' = Tail(toWorker) /\ entry' = entry
      BY <1>5 DEF HandleCommand, mind
    <2>2. CASE c.kind = "start" /\ StartLoop(c)
      <3>1. loop[c.task] = None /\ c.task \in Tasks
        BY <2>1, <2>2, HeadStart
      <3>2. CASE SeatIsOpen(c.task)
        <4>1. loop' = [loop EXCEPT ![c.task] =
                          [generation |-> c.generation, aborted |-> FALSE, phase |-> "running"]]
          BY <2>2, <3>1, <3>2 DEF StartLoop
        <4>2. toService' = toService
          BY <2>2, <3>1, <3>2 DEF StartLoop
        <4> QED
          BY <2>1, <2>2, <4>1, <4>2, StartRuns
      <3>3. CASE ~SeatIsOpen(c.task)
        <4>1. Reply("busy", c.task, c.generation) /\ loop' = loop
          BY <2>2, <3>1, <3>3 DEF StartLoop
        <4> QED
          BY <2>1, <2>2, <4>1, StartAnswered
      <3> QED
        BY <3>2, <3>3
    <2>3. CASE AbortLoop(c) \/ CloseLoops
      <3>1. \A u \in Tasks : LoopFrom(u)
        BY <2>3 DEF AbortLoop, CloseLoops, LoopFrom, TypeOK, Loop
      <3>2. toService' = toService
        BY <2>3 DEF AbortLoop, CloseLoops
      <3>3. \A u \in Tasks : SameEntry(u) /\ EventsFrom(u, 0)
        BY <2>1, <3>2, EventsLeave DEF SameEntry
      <3>4. \A u \in Tasks : StartsFrom(u, 1)
        BY <2>1, TailFacts DEF StartsFrom
      <3> QED
        BY <3>1, <3>3, <3>4, AccountStays DEF OneAccount
    <2> QED
      BY <1>5, <2>2, <2>3 DEF HandleCommand
  <1>6. CASE Close
    <2>1. Grows /\ NoNewStart /\ SameEntries
      BY <1>6, AbortsAll DEF Close
    <2>2. UNCHANGED <<toService, loop>>
      BY <1>6 DEF Close
    <2> QED
      BY <2>1, <2>2, AccountsStay
  <1>7. CASE SaveFails
    <2>1. Grows /\ NoNewStart /\ SameEntries
      BY <1>7, FailsQuietly DEF SaveFails
    <2>2. UNCHANGED <<toService, loop>>
      BY <1>7 DEF SaveFails
    <2> QED
      BY <2>1, <2>2, AccountsStay
  <1>8. CASE SettleUnsaved
    <2>1. Grows /\ NoNewStart /\ SameEntries
      BY <1>8, FailsQuietly DEF SettleUnsaved
    <2>2. toService # <<>> /\ toService' = Tail(toService) /\ UNCHANGED loop
      BY <1>8 DEF SettleUnsaved
    <2> QED
      BY <2>1, <2>2, AccountsStay
  <1>9. CASE StartFails
    <2> DEFINE c == Head(toWorker)
    <2>1. /\ toWorker # <<>> /\ toWorker' = Tail(toWorker) /\ c.kind = "start"
          /\ Reply("failed", c.task, c.generation)
          /\ loop' = loop /\ entry' = entry
      BY <1>9 DEF StartFails, mind
    <2> QED
      BY <2>1, StartAnswered
  <1>10. CASE WorkerDies
    <2>1. \A t \in Tasks : loop'[t] = None
      BY <1>10 DEF WorkerDies
    <2>2. Len(toWorker') = 0
      BY <1>10 DEF WorkerDies
    <2>3. toService' = toService /\ entry' = entry
      BY <1>10 DEF WorkerDies, mind
    <2>4. ASSUME NEW t \in Tasks PROVE AccountOf(t)'
      <3>1. SameEntry(t) /\ StartsFrom(t, 0) /\ LoopFrom(t)
        BY <2>1, <2>2, <2>3 DEF SameEntry, StartsFrom, LoopFrom
      <3>2. EventsFrom(t, 0)
        BY <2>3, EventsLeave
      <3> QED
        BY <3>1, <3>2, AccountStays DEF OneAccount
    <2> QED
      BY <2>4 DEF OneAccount
  <1>11. CASE Crash
    <2>1. \A t \in Tasks : loop'[t] = None
      BY <1>11 DEF Crash, Gone
    <2>2. toWorker' = <<>> /\ toService' = <<>>
      BY <1>11 DEF Crash, Gone
    <2>3. Len(toWorker') = 0 /\ Len(toService') = 0
      BY <2>2
    <2> QED
      BY <2>1, <2>3, AccountCloses DEF OneAccount
  <1>12. ASSUME NEW t \in Tasks, Ensure(t) PROVE OneAccount'
    <2>1. CASE entry[t] # None
      <3>1. UNCHANGED <<entry, toWorker, toService, loop>>
        BY <1>12, <2>1 DEF Ensure, mind
      <3>2. Grows /\ NoNewStart /\ SameEntries
        BY <3>1 DEF Grows, NoNewStart, SameEntries, TypeOK
      <3> QED
        BY <3>1, <3>2, AccountsStay
    <2>2. CASE entry[t] = None
      <3>1. /\ toWorker' = Append(toWorker, Start(t, serial + 1))
            /\ entry' = [entry EXCEPT ![t] = Opened(serial + 1)]
            /\ loop' = loop /\ toService' = toService
        BY <1>12, <2>2 DEF Ensure
      <3>2. serial + 1 \in Demands
        BY <1>12 DEF Ensure, TypeOK, Demands
      <3>3. loop[t] = None /\ NoEvent(t) /\ \A i \in 1..Len(toWorker) : ~StartsAt(i, t)
        BY <2>2, NothingWithoutEntry DEF OneAccount
      <3>4. \A u \in Tasks : EventsFrom(u, 0)
        BY <3>1, EventsLeave
      <3>5. \A i \in 1..Len(toService') : toService'[i].task # t
        BY <3>1, <3>3 DEF NoEvent
      <3> QED
        BY <3>1, <3>2, <3>3, <3>4, <3>5, AccountOpens
    <2> QED
      BY <2>1, <2>2
  <1>13. ASSUME NEW t \in Tasks, AbortTask(t) PROVE OneAccount'
    <2>1. Grows /\ NoNewStart /\ SameEntries
      BY <1>13, AbortSent
    <2>2. UNCHANGED <<toService, loop>>
      BY <1>13 DEF AbortTask
    <2> QED
      BY <2>1, <2>2, AccountsStay
  <1>14. ASSUME NEW t \in Tasks, Unwind(t) PROVE OneAccount'
    <2>1. Grows /\ NoNewStart /\ SameEntries
      BY <1>14 DEF Unwind, mind, Grows, NoNewStart, SameEntries, TypeOK
    <2>2. \A u \in Tasks : LoopFrom(u)
      BY <1>14 DEF Unwind, LoopFrom, TypeOK, Loop
    <2>3. UNCHANGED toService
      BY <1>14 DEF Unwind
    <2> QED
      BY <2>1, <2>2, <2>3, AccountsStay
  <1>15. ASSUME NEW t \in Tasks, EndLoop(t) PROVE OneAccount'
    <2>1. /\ loop[t] # None /\ loop' = [loop EXCEPT ![t] = None]
          /\ Reply("stopped", t, loop[t].generation)
          /\ toWorker' = toWorker /\ entry' = entry
      BY <1>15 DEF EndLoop, mind
    <2> QED
      BY <2>1, LoopReports
  <1>16. ASSUME NEW t \in Tasks, FailLoop(t) PROVE OneAccount'
    <2>1. /\ loop[t] # None /\ loop' = [loop EXCEPT ![t] = None]
          /\ Reply("failed", t, loop[t].generation)
          /\ toWorker' = toWorker /\ entry' = entry
      BY <1>16 DEF FailLoop, mind
    <2> QED
      BY <2>1, LoopReports
  <1>17. CASE UNCHANGED <<entry, toWorker, toService, loop>>
    <2>1. Grows /\ NoNewStart /\ SameEntries
      BY <1>17 DEF Grows, NoNewStart, SameEntries, TypeOK
    <2> QED
      BY <1>17, <2>1, AccountsStay
  <1> QED
    BY <1>1, <1>2, <1>3, <1>4, <1>5, <1>6, <1>7, <1>8, <1>9, <1>10, <1>11,
       <1>12, <1>13, <1>14, <1>15, <1>16, <1>17 DEF Next, Runs, vars, Open,
       LegacyTakes, LegacyLeaves, TaskCloses, files, mind

----------------------------------------------------------------------------
(* What is called off.                                                      *)

\* Chased, and CalledOffStops, of the next state.
ChasedThen(t, d, from) ==
    \E j \in from..Len(toWorker') :
        \/ toWorker'[j].kind = "close"
        \/ toWorker'[j].kind = "abort" /\ toWorker'[j].task = t /\ toWorker'[j].generation = d

\* CalledOffStops of the next state, with the task of a loop or start named.
LEMMA StopsThen ==
    ASSUME TypeOK',
           \A t \in Tasks, d \in cancelled' : loop'[t] # None /\ loop'[t].generation = d =>
               loop'[t].aborted \/ ChasedThen(t, d, 1),
           \A i \in 1..Len(toWorker'), t \in Tasks, d \in cancelled' :
               toWorker'[i].kind = "start" /\ toWorker'[i].task = t /\ toWorker'[i].generation = d =>
                   ChasedThen(t, d, i + 1)
    PROVE  CalledOffStops'
  <1>1. DOMAIN toWorker' = 1..Len(toWorker') /\ \A i \in 1..Len(toWorker') : toWorker'[i] \in Command
    BY DEF TypeOK
  <1>2. \A i \in 1..Len(toWorker') : toWorker'[i].kind = "start" => toWorker'[i].task \in Tasks
    BY <1>1 DEF Command
  <1> QED
    BY <1>1, <1>2 DEF CalledOffStops, Chased, ChasedThen

\* CalledOffStops of this state in the same form.
LEMMA StopsNow ==
    ASSUME TypeOK, CalledOffStops
    PROVE  /\ \A t \in Tasks, d \in cancelled : loop[t] # None /\ loop[t].generation = d =>
                 loop[t].aborted \/ Chased(t, d, 1)
           /\ \A i \in 1..Len(toWorker), t \in Tasks, d \in cancelled :
                 toWorker[i].kind = "start" /\ toWorker[i].task = t /\ toWorker[i].generation = d =>
                     Chased(t, d, i + 1)
  BY DEF CalledOffStops, TypeOK

\* An abort or a close on its way stays there while messages are added.
LEMMA ChaseStays ==
    ASSUME TypeOK, Grows, NEW t, NEW d, NEW from \in Nat \ {0}, Chased(t, d, from)
    PROVE  ChasedThen(t, d, from)
  BY DEF Chased, ChasedThen, Grows, TypeOK

\* It comes nearer as a command is taken.
LEMMA ChaseNears ==
    ASSUME TypeOK, toWorker # <<>>, toWorker' = Tail(toWorker),
           NEW t, NEW d, NEW from \in Nat \ {0}, Chased(t, d, from + 1)
    PROVE  ChasedThen(t, d, from)
  <1>1. PICK j \in from + 1..Len(toWorker) :
           \/ toWorker[j].kind = "close"
           \/ toWorker[j].kind = "abort" /\ toWorker[j].task = t /\ toWorker[j].generation = d
    BY DEF Chased
  <1>2. j - 1 \in from..Len(toWorker') /\ toWorker'[j - 1] = toWorker[j]
    BY TailFacts
  <1> QED
    BY <1>1, <1>2 DEF ChasedThen

\* Nothing more is called off, and no start of what was is sent.
LEMMA StopsStay ==
    ASSUME TypeOK, TypeOK', CalledOffStops, cancelled' = cancelled, Grows,
           \A i \in 1..Len(toWorker') : i > Len(toWorker) /\ toWorker'[i].kind = "start" =>
               toWorker'[i].generation \notin cancelled,
           \A t \in Tasks : LoopFrom(t) /\ (loop'[t] # None => loop'[t].aborted = loop[t].aborted)
    PROVE  CalledOffStops'
  <1>1. ASSUME NEW t \in Tasks, NEW d \in cancelled', loop'[t] # None, loop'[t].generation = d
        PROVE  loop'[t].aborted \/ ChasedThen(t, d, 1)
    <2>1. loop[t] # None /\ loop[t].generation = d /\ loop'[t].aborted = loop[t].aborted
      BY <1>1 DEF LoopFrom
    <2>2. loop[t].aborted \/ Chased(t, d, 1)
      BY <1>1, <2>1, StopsNow
    <2>3. Chased(t, d, 1) => ChasedThen(t, d, 1)
      BY ChaseStays
    <2> QED
      BY <2>1, <2>2, <2>3
  <1>2. ASSUME NEW i \in 1..Len(toWorker'), NEW t \in Tasks, NEW d \in cancelled',
               toWorker'[i].kind = "start", toWorker'[i].task = t, toWorker'[i].generation = d
        PROVE  ChasedThen(t, d, i + 1)
    <2>1. i \in 1..Len(toWorker) /\ toWorker[i] = toWorker'[i]
      BY <1>2 DEF Grows, TypeOK
    <2>2. Chased(t, d, i + 1)
      BY <1>2, <2>1, StopsNow
    <2> QED
      BY <2>2, ChaseStays
  <1> QED
    BY <1>1, <1>2, StopsThen

\* A start of a demand that stands is no matter of what was called off.
LEMMA StopsBeforeStart ==
    ASSUME TypeOK, TypeOK', CalledOffStops, cancelled' = cancelled, loop' = loop,
           NEW t \in Tasks, NEW d \in Demands \ cancelled,
           toWorker' = toWorker \/ toWorker' = Append(toWorker, Start(t, d))
    PROVE  CalledOffStops'
  <1>1. Grows
    BY DEF Grows, TypeOK
  <1>2. \A i \in 1..Len(toWorker') : i > Len(toWorker) => toWorker'[i] = Start(t, d)
    BY DEF TypeOK
  <1> QED
    BY <1>1, <1>2, StopsStay DEF Start, LoopFrom

\* A process that has nothing under way runs nothing.
LEMMA StopsAtOnce ==
    ASSUME TypeOK', Len(toWorker') = 0, \A t \in Tasks : loop'[t] = None
    PROVE  CalledOffStops'
  BY DEF CalledOffStops, TypeOK

\* A command is taken and heeded.
LEMMA StopsHeeded ==
    ASSUME TypeOK, TypeOK', CalledOffStops, cancelled' = cancelled,
           toWorker # <<>>, toWorker' = Tail(toWorker),
           \A t \in Tasks : loop'[t] # None =>
               \/ /\ Head(toWorker).kind = "start"
                  /\ Head(toWorker).task = t /\ Head(toWorker).generation = loop'[t].generation
               \/ /\ loop[t] # None /\ loop'[t].generation = loop[t].generation
                  /\ loop[t].aborted => loop'[t].aborted
                  /\ Head(toWorker).kind = "close" => loop'[t].aborted
                  /\ Head(toWorker).kind = "abort" /\ Head(toWorker).task = t
                        /\ Head(toWorker).generation = loop[t].generation => loop'[t].aborted
    PROVE  CalledOffStops'
  <1>1. ASSUME NEW t \in Tasks, NEW d \in cancelled', loop'[t] # None, loop'[t].generation = d
        PROVE  loop'[t].aborted \/ ChasedThen(t, d, 1)
    <2>1. CASE Head(toWorker).kind = "start" /\ Head(toWorker).task = t /\ Head(toWorker).generation = d
      <3>1. Chased(t, d, 1 + 1)
        BY <1>1, <2>1, StopsNow, TailFacts
      <3> QED
        BY <3>1, ChaseNears
    <2>2. CASE /\ loop[t] # None /\ loop[t].generation = d
               /\ loop[t].aborted => loop'[t].aborted
               /\ Head(toWorker).kind = "close" => loop'[t].aborted
               /\ Head(toWorker).kind = "abort" /\ Head(toWorker).task = t
                     /\ Head(toWorker).generation = d => loop'[t].aborted
      <3>1. loop[t].aborted \/ Chased(t, d, 1)
        BY <1>1, <2>2, StopsNow
      <3>2. Chased(t, d, 1) => \/ Head(toWorker).kind = "close"
                               \/ /\ Head(toWorker).kind = "abort" /\ Head(toWorker).task = t
                                  /\ Head(toWorker).generation = d
                               \/ Chased(t, d, 1 + 1)
        BY TailFacts DEF Chased
      <3>3. Chased(t, d, 1 + 1) => ChasedThen(t, d, 1)
        BY ChaseNears
      <3> QED
        BY <2>2, <3>1, <3>2, <3>3
    <2> QED
      BY <1>1, <2>1, <2>2
  <1>2. ASSUME NEW i \in 1..Len(toWorker'), NEW t \in Tasks, NEW d \in cancelled',
               toWorker'[i].kind = "start", toWorker'[i].task = t, toWorker'[i].generation = d
        PROVE  ChasedThen(t, d, i + 1)
    <2>1. i + 1 \in 1..Len(toWorker) /\ toWorker[i + 1] = toWorker'[i]
      BY <1>2, TailFacts
    <2>2. Chased(t, d, (i + 1) + 1)
      BY <1>2, <2>1, StopsNow
    <2> QED
      BY <2>2, ChaseNears
  <1> QED
    BY <1>1, <1>2, StopsThen

\* Each step keeps what is called off chased.
LEMMA StopsInductive ==
    ASSUME TypeOK, TypeOK', QuietBefore, OneAccount, NumbersDiffer, NumbersDiffer',
           CalledOffStops, [Next]_vars
    PROVE  CalledOffStops'
  <1>1. CASE Recover
    <2>1. PICK order \in SetToSeqs({t \in Tasks : demand[t].required} \cap active) :
             toWorker' = [i \in DOMAIN order |-> Start(order[i], demand[order[i]].number)]
      BY <1>1 DEF Recover
    <2>2. {t \in Tasks : demand[t].required} \cap active = Wanted \cap active
      BY DEF Wanted
    <2>3. DOMAIN order = 1..Len(toWorker')
      BY ONLY <2>1, <2>2, TypeOK, NumbersDiffer, Recovered
    <2>4. \A i \in DOMAIN order : order[i] \in Wanted \cap active
      BY <2>1, <2>2, Orders DEF Wanted
    <2>5. \A i \in 1..Len(toWorker') : toWorker'[i].generation = demand[order[i]].number
      BY <2>1, <2>3 DEF Start
    <2>6. \A t \in Tasks : loop'[t] = None
      BY <1>1 DEF Recover, QuietBefore
    <2>7. \A t \in Wanted \cap active : t \in Wanted' /\ demand'[t].number = demand[t].number
      BY <1>1 DEF Recover, Wanted, TypeOK
    <2>8. \A i \in 1..Len(toWorker') : toWorker'[i].generation \notin cancelled'
      BY <2>3, <2>4, <2>5, <2>7 DEF NumbersDiffer
    <2> QED
      BY <2>6, <2>8, StopsThen
  <1>2. CASE HandleEvent
    <2> DEFINE e == Head(toService)
    <2>1. loop' = loop /\ cancelled' = cancelled
      BY <1>2 DEF HandleEvent, ghosts
    <2>2. e.task \in Tasks
      <3>1. e \in Event
        BY <1>2, HeadTailProperties DEF HandleEvent, TypeOK
      <3> QED
        BY <3>1 DEF Event
    <2>3. CASE UNCHANGED toWorker
      <3>1. Grows /\ NoNewStart
        BY <2>3 DEF Grows, NoNewStart, TypeOK
      <3> QED
        BY <2>1, <3>1, StopsStay DEF NoNewStart, LoopFrom
    <2>4. CASE Settle(e) /\ Renews(e)
      <3>1. demand[e.task].number \in Demands \ cancelled
        BY <2>2, <2>4 DEF Renews, NumbersDiffer, Wanted
      <3>2. toWorker' = Append(toWorker, Start(e.task, demand[e.task].number))
        BY <2>4 DEF Settle
      <3> QED
        BY <2>1, <2>2, <3>1, <3>2, StopsBeforeStart
    <2>5. CASE Fail
      <3>1. Grows /\ NoNewStart
        BY <2>5, FailsQuietly
      <3> QED
        BY <2>1, <3>1, StopsStay DEF NoNewStart, LoopFrom
    <2> QED
      BY <1>2, <2>3, <2>4, <2>5 DEF HandleEvent, Settle
  <1>3. CASE CloseWorker
    <2>1. Grows /\ NoNewStart
      BY <1>3 DEF CloseWorker, Grows, NoNewStart, TypeOK, Command
    <2>2. cancelled' = cancelled /\ loop' = loop
      BY <1>3 DEF CloseWorker, ghosts
    <2> QED
      BY <2>1, <2>2, StopsStay DEF NoNewStart, LoopFrom
  <1>4. CASE Leave
    <2>1. Len(toWorker') = 0 /\ \A t \in Tasks : loop'[t] = None
      BY <1>4 DEF Leave, Gone
    <2> QED
      BY <2>1, StopsAtOnce
  <1>5. CASE HandleCommand
    <2> DEFINE c == Head(toWorker)
    <2>1. toWorker # <<>> /\ toWorker' = Tail(toWorker) /\ cancelled' = cancelled
      BY <1>5 DEF HandleCommand, ghosts
    <2>2. CASE c.kind = "start" /\ StartLoop(c)
      <3>1. c.task \in Tasks
        BY <2>1, <2>2, TailFacts DEF Command
      <3>2. ASSUME NEW t \in Tasks, loop'[t] # None
            PROVE  (t = c.task /\ loop'[t].generation = c.generation) \/ loop'[t] = loop[t]
        BY <2>2, <3>1, <3>2 DEF StartLoop, TypeOK
      <3> QED
        BY <2>1, <2>2, <3>2, StopsHeeded
    <2>3. CASE c.kind = "abort" /\ AbortLoop(c)
      <3>1. ASSUME NEW t \in Tasks, loop'[t] # None
            PROVE  /\ loop[t] # None /\ loop'[t].generation = loop[t].generation
                   /\ loop[t].aborted => loop'[t].aborted
                   /\ c.task = t /\ c.generation = loop[t].generation => loop'[t].aborted
        BY <2>3, <3>1 DEF AbortLoop, TypeOK, Loop
      <3> QED
        BY <2>1, <2>3, <3>1, StopsHeeded
    <2>4. CASE c.kind = "close" /\ CloseLoops
      <3>1. ASSUME NEW t \in Tasks, loop'[t] # None
            PROVE  loop[t] # None /\ loop'[t].generation = loop[t].generation /\ loop'[t].aborted
        BY <2>4, <3>1 DEF CloseLoops, TypeOK, Loop
      <3> QED
        BY <2>1, <2>4, <3>1, StopsHeeded
    <2> QED
      BY <1>5, <2>2, <2>3, <2>4 DEF HandleCommand
  <1>6. CASE Close
    <2>1. Grows /\ NoNewStart
      BY <1>6, AbortsAll DEF Close
    <2>2. cancelled' = cancelled /\ loop' = loop
      BY <1>6 DEF Close, ghosts
    <2> QED
      BY <2>1, <2>2, StopsStay DEF NoNewStart, LoopFrom
  <1>7. CASE SaveFails
    <2>1. Grows /\ NoNewStart
      BY <1>7, FailsQuietly DEF SaveFails
    <2>2. cancelled' = cancelled /\ loop' = loop
      BY <1>7 DEF SaveFails, ghosts
    <2> QED
      BY <2>1, <2>2, StopsStay DEF NoNewStart, LoopFrom
  <1>8. CASE SettleUnsaved
    <2>1. Grows /\ NoNewStart
      BY <1>8, FailsQuietly DEF SettleUnsaved
    <2>2. cancelled' = cancelled /\ loop' = loop
      BY <1>8 DEF SettleUnsaved, ghosts
    <2> QED
      BY <2>1, <2>2, StopsStay DEF NoNewStart, LoopFrom
  <1>9. CASE StartFails
    <2>1. /\ toWorker # <<>> /\ toWorker' = Tail(toWorker) /\ loop' = loop /\ cancelled' = cancelled
          /\ Head(toWorker).kind = "start"
      BY <1>9 DEF StartFails, ghosts
    <2> QED
      BY <2>1, StopsHeeded
  <1>10. CASE WorkerDies
    <2>1. Len(toWorker') = 0 /\ \A t \in Tasks : loop'[t] = None
      BY <1>10 DEF WorkerDies
    <2> QED
      BY <2>1, StopsAtOnce
  <1>11. CASE Crash
    <2>1. Len(toWorker') = 0 /\ \A t \in Tasks : loop'[t] = None
      BY <1>11 DEF Crash, Gone
    <2> QED
      BY <2>1, StopsAtOnce
  <1>12. ASSUME NEW t \in Tasks, Ensure(t) PROVE CalledOffStops'
    <2>1. loop' = loop /\ cancelled' = cancelled
      BY <1>12 DEF Ensure, ghosts
    <2>2. serial + 1 \in Demands \ cancelled
      BY <1>12 DEF Ensure, TypeOK, Demands, NumbersDiffer
    <2>3. toWorker' = toWorker \/ toWorker' = Append(toWorker, Start(t, serial + 1))
      BY <1>12 DEF Ensure
    <2> QED
      BY <2>1, <2>2, <2>3, StopsBeforeStart
  <1>13. ASSUME NEW t \in Tasks, AbortTask(t) PROVE CalledOffStops'
    <2>1. loop' = loop
      BY <1>13 DEF AbortTask
    <2>2. Grows /\ NoNewStart
      BY <1>13, AbortSent
    <2>3. entry[t] # None => \A from \in 1..Len(toWorker) + 1 : ChasedThen(t, entry[t].generation, from)
      <3> SUFFICES ASSUME entry[t] # None, NEW from \in 1..Len(toWorker) + 1
                   PROVE  ChasedThen(t, entry[t].generation, from)
        OBVIOUS
      <3>1. PICK j \in 1..Len(toWorker') : j > Len(toWorker) /\ toWorker'[j] = Abort(t)
        BY <1>13, AbortSent
      <3>2. Len(toWorker) \in Nat /\ Len(toWorker') \in Nat
        BY <1>13 DEF TypeOK
      <3>3. j \in from..Len(toWorker')
        BY <3>1, <3>2
      <3>4. Abort(t).kind = "abort" /\ Abort(t).task = t /\ Abort(t).generation = entry[t].generation
        BY DEF Abort
      <3> QED
        BY <3>1, <3>3, <3>4 DEF ChasedThen
    <2>4. ASSUME NEW d \in cancelled', d \notin cancelled, NEW u \in Tasks, EntryIs(u, d)
          PROVE  u = t /\ entry[t] # None /\ entry[t].generation = d
      <3>1. d \in Demands /\ IsOf(d, entry[t], demand[t])
        BY <1>13, <2>4 DEF AbortTask, Current, IsOf, TypeOK
      <3>2. IsOf(d, entry[u], demand[u])
        BY <2>4 DEF EntryIs, IsOf
      <3>3. u = t
        BY <3>1, <3>2 DEF NumbersDiffer
      <3> QED
        BY <2>4, <3>3 DEF EntryIs
    <2>5. ASSUME NEW u \in Tasks, NEW d \in cancelled', loop'[u] # None, loop'[u].generation = d
          PROVE  loop'[u].aborted \/ ChasedThen(u, d, 1)
      <3>1. EntryIs(u, d)
        BY <2>1, <2>5 DEF OneAccount, AccountOf
      <3>2. CASE d \in cancelled
        <4>1. loop[u].aborted \/ Chased(u, d, 1)
          BY <2>1, <2>5, <3>2, StopsNow
        <4>2. Chased(u, d, 1) => ChasedThen(u, d, 1)
          BY <2>2, ChaseStays
        <4> QED
          BY <2>1, <4>1, <4>2
      <3>3. CASE d \notin cancelled
        <4>1. 1 \in 1..Len(toWorker) + 1
          BY DEF TypeOK
        <4> QED
          BY <2>3, <2>4, <3>1, <3>3, <4>1
      <3> QED
        BY <3>2, <3>3
    <2>6. ASSUME NEW i \in 1..Len(toWorker'), NEW u \in Tasks, NEW d \in cancelled',
                 toWorker'[i].kind = "start", toWorker'[i].task = u, toWorker'[i].generation = d
          PROVE  ChasedThen(u, d, i + 1)
      <3>1. i \in 1..Len(toWorker) /\ toWorker'[i] = toWorker[i]
        BY <2>2, <2>6 DEF Grows, NoNewStart, TypeOK
      <3>2. EntryIs(u, d)
        BY <2>6, <3>1 DEF OneAccount, AccountOf, StartsAt
      <3>3. CASE d \in cancelled
        <4>1. Chased(u, d, i + 1)
          BY <2>6, <3>1, <3>3, StopsNow
        <4> QED
          BY <2>2, <4>1, ChaseStays
      <3>4. CASE d \notin cancelled
        <4>1. i + 1 \in 1..Len(toWorker) + 1
          BY <3>1 DEF TypeOK
        <4> QED
          BY <2>3, <2>4, <3>2, <3>4, <4>1
      <3> QED
        BY <3>3, <3>4
    <2> QED
      BY <2>5, <2>6, StopsThen
  <1>14. ASSUME NEW t \in Tasks, Unwind(t) PROVE CalledOffStops'
    <2>1. Grows /\ NoNewStart /\ cancelled' = cancelled
      BY <1>14 DEF Unwind, Grows, NoNewStart, TypeOK, ghosts
    <2>2. \A u \in Tasks : LoopFrom(u) /\ (loop'[u] # None => loop'[u].aborted = loop[u].aborted)
      BY <1>14 DEF Unwind, LoopFrom, TypeOK, Loop
    <2> QED
      BY <2>1, <2>2, StopsStay DEF NoNewStart
  <1>15. ASSUME NEW t \in Tasks, EndLoop(t) PROVE CalledOffStops'
    <2>1. Grows /\ NoNewStart /\ cancelled' = cancelled
      BY <1>15 DEF EndLoop, Grows, NoNewStart, TypeOK, ghosts
    <2>2. \A u \in Tasks : LoopFrom(u) /\ (loop'[u] # None => loop'[u].aborted = loop[u].aborted)
      BY <1>15 DEF EndLoop, LoopFrom, TypeOK
    <2> QED
      BY <2>1, <2>2, StopsStay DEF NoNewStart
  <1>16. ASSUME NEW t \in Tasks, FailLoop(t) PROVE CalledOffStops'
    <2>1. Grows /\ NoNewStart /\ cancelled' = cancelled
      BY <1>16 DEF FailLoop, Grows, NoNewStart, TypeOK, ghosts
    <2>2. \A u \in Tasks : LoopFrom(u) /\ (loop'[u] # None => loop'[u].aborted = loop[u].aborted)
      BY <1>16 DEF FailLoop, LoopFrom, TypeOK
    <2> QED
      BY <2>1, <2>2, StopsStay DEF NoNewStart
  <1>17. CASE UNCHANGED <<toWorker, loop, cancelled>>
    <2>1. Grows /\ NoNewStart
      BY <1>17 DEF Grows, NoNewStart, TypeOK
    <2> QED
      BY <1>17, <2>1, StopsStay DEF NoNewStart, LoopFrom
  <1> QED
    BY <1>1, <1>2, <1>3, <1>4, <1>5, <1>6, <1>7, <1>8, <1>9, <1>10, <1>11,
       <1>12, <1>13, <1>14, <1>15, <1>16, <1>17 DEF Next, Runs, vars, Open,
       LegacyTakes, LegacyLeaves, TaskCloses, files, mind, ghosts

----------------------------------------------------------------------------
(* The specification.                                                       *)

\* The invariant holds at first, when nothing was demanded.
LEMMA InitInv == Init => IInv
  <1> SUFFICES ASSUME Init PROVE IInv
    OBVIOUS
  <1>1. TypeOK
    BY BoundsAssumption DEF Init, TypeOK, Demand, Demands
  <1>2. RunnerHasSeat /\ QuietBefore /\ StoppedIsSettled /\ ConsumedWasServed /\ CalledOffStops
    BY DEF Init, RunnerHasSeat, QuietBefore, StoppedIsSettled, ConsumedWasServed, CalledOffStops
  <1>3. OneAccount
    BY DEF Init, OneAccount, AccountOf
  <1>4. NumbersDiffer
    BY NoneAssumption DEF Init, NumbersDiffer, Wanted, IsOf
  <1> QED
    BY <1>1, <1>2, <1>3, <1>4 DEF IInv

\* Each step keeps it.
LEMMA Invariance == Spec => []IInv
  <1>1. ASSUME IInv, [Next]_vars PROVE IInv'
    <2>1. TypeOK' /\ RunnerHasSeat' /\ QuietBefore' /\ StoppedIsSettled' /\ ConsumedWasServed'
      BY <1>1, TypeInductive, SeatInductive, QuietInductive, StoppedInductive, ConsumedInductive DEF IInv
    <2>2. NumbersDiffer' /\ OneAccount'
      BY <1>1, <2>1, NumbersInductive, AccountInductive DEF IInv
    <2>3. CalledOffStops'
      BY <1>1, <2>1, <2>2, StopsInductive DEF IInv
    <2> QED
      BY <2>1, <2>2, <2>3 DEF IInv
  <1> QED
    BY InitInv, <1>1, PTL DEF Spec

\* warden-worker.ts, one listener per task: a loop has its task's seat through
\* crashes, failures and wardens outside, and a start never meets a loop that
\* has not settled, which would fail the service.
THEOREM SeatHeld == Spec => []SeatIsHeld
  <1>1. IInv => SeatIsHeld
    <2> SUFFICES ASSUME IInv PROVE SuccessorsWait
      BY DEF IInv, SeatIsHeld
    <2>1. ASSUME toWorker # <<>>, Head(toWorker).kind = "start" PROVE loop[Head(toWorker).task] = None
      <3>1. /\ 1 \in 1..Len(toWorker) /\ Head(toWorker) = toWorker[1]
            /\ Head(toWorker) \in Command
        BY <2>1, HeadTailProperties DEF IInv, TypeOK
      <3>2. Head(toWorker).task \in Tasks
        BY <2>1, <3>1 DEF Command
      <3> QED
        BY <2>1, <3>1, <3>2 DEF IInv, OneAccount, AccountOf, StartsAt
    <2> QED
      BY <2>1 DEF SuccessorsWait
  <1> QED
    BY Invariance, <1>1, PTL

\* service-warden.ts, settle(): a demand that is used up was served by a loop of
\* its own or called off, whichever events and saves were lost in between.
THEOREM DemandsUsedUpServed == Spec => []ConsumedWasServed
  <1>1. IInv => ConsumedWasServed
    BY DEF IInv
  <1> QED
    BY Invariance, <1>1, PTL

\* service-warden.ts, abort(): no loop goes on for a demand that was called off
\* without its abort on the way behind it.
THEOREM CalledOffIsChased == Spec => []CalledOffStops
  <1>1. IInv => CalledOffStops
    BY DEF IInv
  <1> QED
    BY Invariance, <1>1, PTL

-----------------------------------------------------------------------------
(***************************************************************************)
(* Proofs about SharedService, for any launchers, workers, sessions, sends  *)
(* and crashes: one worker opens or serves, a call sent again takes effect  *)
(* at most once, and what takes effect is the owner's for a granted client. *)
(* The argument: a worker with disk steps left serves, so it is the owner   *)
(* and alone; a receipt is removed only after the session that its call     *)
(* could come through is over, and a session that is over never comes back. *)
(***************************************************************************)

\* What is left of the disk steps of a call, and of the end of a session.
Applying(c, s) == << <<"apply", c, s>>, <<"complete", c, s>>, <<"answer", c, s>> >>
Completing(c, s) == << <<"complete", c, s>>, <<"answer", c, s>> >>
Answering(c, s) == << <<"answer", c, s>> >>
Revoking(c, s) == << <<"dropGrant", c, 0>>, <<"dropSession", c, s>>, <<"dropReceipts", c, s>> >>
Closing(c, s) == << <<"dropSession", c, s>>, <<"dropReceipts", c, s>> >>
Dropping(c, s) == << <<"dropReceipts", c, s>> >>

\* Nobody can dispatch the call of session s of c any more.
Over(c, s) ==
    /\ s <= opened[c] /\ session[c] # s
    /\ c \in grants => \A h \in flying : ~(h.at = "read" /\ h.client = c /\ h.session = s)

\* Only a worker that serves has disk steps to perform.
BusyServes == \A w \in Workers : todo[w] # << >> => worker[w] = "serving"

\* A client has sessions after its one registration, the newest of them open
\* or none.
ClientsFit ==
    \A c \in Clients : /\ opened[c] # 0 => client[c] \in {"up", "dead"}
                       /\ session[c] \in {0, opened[c]}

\* A handler is that of a client that waits for its registration, or of a
\* session that was given.
HandlersFit ==
    \A h \in flying :
        /\ h.at = "registering" => client[h.client] \in {"registering", "dead"} /\ opened[h.client] = 0
        /\ h.at # "registering" => h.session # 0 /\ h.session <= opened[h.client]
OneRegistration ==
    \A g, h \in flying :
        g.at = "registering" /\ h.at = "registering" /\ g.client = h.client => g = h

\* A receipt says what became of its call: none of one that can still come.
CallFits(c, s) ==
    /\ applied[c][s] \in {0, 1}
    /\ applied[c][s] = 1 /\ receipts[c][s] = "none" => Over(c, s)
    /\ receipts[c][s] = "completed" => applied[c][s] = 1
    /\ <<c, s>> \in told => applied[c][s] = 1
CallsFit == \A c \in Clients, s \in Session : CallFits(c, s)

\* The disk steps that are left go with what is on disk.
CallIsUnderWay(w, c, s) ==
    \/ todo[w] = Applying(c, s) /\ receipts[c][s] = "started" /\ applied[c][s] = 0 /\ c \in grants
    \/ todo[w] = Completing(c, s) /\ receipts[c][s] = "started" /\ applied[c][s] = 1
    \/ todo[w] = Answering(c, s) /\ applied[c][s] = 1
EndIsUnderWay(w, c, s) ==
    \/ todo[w] = Revoking(c, s) /\ session[c] = s
    \/ todo[w] = Closing(c, s) /\ session[c] = s /\ (c \in grants => \A h \in flying : h.client # c)
    \/ todo[w] = Dropping(c, s) /\ (s # 0 => Over(c, s))
TodoFits(w) ==
    \/ todo[w] = << >>
    \/ \E c \in Clients, s \in Session : CallIsUnderWay(w, c, s)
    \/ \E c \in Clients, s \in 0..MaxSession : EndIsUnderWay(w, c, s)
TodosFit == \A w \in Workers : TodoFits(w)

ServiceInv ==
    /\ ServiceTypeOK
    /\ OneService
    /\ BusyServes
    /\ ClientsFit
    /\ HandlersFit
    /\ OneRegistration
    /\ CallsFit
    /\ TodosFit

----------------------------------------------------------------------------
(* What the handlers do to the disk, step by step.                          *)

\* The types, variable by variable.
LEMMA ServiceTypes ==
    ASSUME ServiceTypeOK
    PROVE  /\ client \in [Clients -> {"idle", "asking", "holding", "waiting", "registering", "up",
                                      "refused", "dead"}]
           /\ worker \in [Workers -> {"unborn", "booting", "opening", "serving", "closing", "exited", "gone"}]
           /\ session \in [Clients -> 0..MaxSession] /\ opened \in [Clients -> 0..MaxSession]
           /\ receipts \in [Clients -> [Session -> {"none", "started", "completed"}]]
           /\ applied \in [Clients -> [Session -> Nat]]
           /\ todo \in [Workers -> Seq(Step \X Clients \X (0..MaxSession))]
           /\ flying \subseteq Handler
           /\ told \subseteq Clients \X Session
           /\ owner \in Workers \cup {Nobody} /\ discovery \in Workers \cup {Nobody}
           /\ grants \subseteq Clients
  BY DEF ServiceTypeOK

\* The first of the steps left, and the others.
LEMMA TodoParts ==
    ASSUME NEW c, NEW s
    PROVE  /\ Head(Applying(c, s)) = <<"apply", c, s>> /\ Tail(Applying(c, s)) = Completing(c, s)
           /\ Head(Completing(c, s)) = <<"complete", c, s>> /\ Tail(Completing(c, s)) = Answering(c, s)
           /\ Head(Answering(c, s)) = <<"answer", c, s>> /\ Tail(Answering(c, s)) = << >>
           /\ Head(Revoking(c, s)) = <<"dropGrant", c, 0>> /\ Tail(Revoking(c, s)) = Closing(c, s)
           /\ Head(Closing(c, s)) = <<"dropSession", c, s>> /\ Tail(Closing(c, s)) = Dropping(c, s)
           /\ Head(Dropping(c, s)) = <<"dropReceipts", c, s>> /\ Tail(Dropping(c, s)) = << >>
  BY DEF Applying, Completing, Answering, Revoking, Closing, Dropping

LEMMA TodoSequences ==
    ASSUME NEW c \in Clients, NEW s \in 0..MaxSession
    PROVE  {Applying(c, s), Completing(c, s), Answering(c, s), Revoking(c, s), Closing(c, s),
            Dropping(c, s)} \subseteq Seq(Step \X Clients \X (0..MaxSession))
  <1>1. 0 \in 0..MaxSession
    BY SharedServiceAssumption
  <1> QED
    BY <1>1 DEF Applying, Completing, Answering, Revoking, Closing, Dropping, Step

\* What one disk step does.
Applies(w, c, s) ==
    /\ todo[w] = Applying(c, s) /\ todo' = [todo EXCEPT ![w] = Completing(c, s)]
    /\ applied' = [applied EXCEPT ![c][s] = @ + 1]
    /\ UNCHANGED <<grants, session, receipts, told>>
Completes(w, c, s) ==
    /\ todo[w] = Completing(c, s) /\ todo' = [todo EXCEPT ![w] = Answering(c, s)]
    /\ receipts' = [receipts EXCEPT ![c][s] = "completed"]
    /\ UNCHANGED <<grants, session, applied, told>>
Answers(w, c, s) ==
    /\ todo[w] = Answering(c, s) /\ todo' = [todo EXCEPT ![w] = << >>]
    /\ told' \in {told, told \cup {<<c, s>>}}
    /\ UNCHANGED <<grants, session, applied, receipts>>
DropsGrant(w, c, s) ==
    /\ todo[w] = Revoking(c, s) /\ todo' = [todo EXCEPT ![w] = Closing(c, s)]
    /\ grants' = grants \ {c}
    /\ UNCHANGED <<session, applied, receipts, told>>
DropsSession(w, c, s) ==
    /\ todo[w] = Closing(c, s) /\ todo' = [todo EXCEPT ![w] = Dropping(c, s)]
    /\ session' = IF s # 0 THEN [session EXCEPT ![c] = 0] ELSE session
    /\ UNCHANGED <<grants, applied, receipts, told>>
DropsReceipts(w, c, s) ==
    /\ todo[w] = Dropping(c, s) /\ todo' = [todo EXCEPT ![w] = << >>]
    /\ receipts' = IF s # 0 THEN [receipts EXCEPT ![c][s] = "none"] ELSE receipts
    /\ UNCHANGED <<grants, session, applied, told>>

Does(w, name, c, s, rest) ==
    /\ todo' = [todo EXCEPT ![w] = rest]
    /\ grants' = IF name = "dropGrant" THEN grants \ {c} ELSE grants
    /\ session' = IF name = "dropSession" /\ s # 0 THEN [session EXCEPT ![c] = 0] ELSE session
    /\ receipts' = IF name = "dropReceipts" /\ s # 0 THEN [receipts EXCEPT ![c][s] = "none"]
                   ELSE IF name = "complete" /\ s # 0 THEN [receipts EXCEPT ![c][s] = "completed"]
                   ELSE receipts
    /\ applied' = IF name = "apply" /\ s # 0 THEN [applied EXCEPT ![c][s] = @ + 1] ELSE applied
    /\ told' \in IF name = "answer" /\ s # 0 THEN {told, told \cup {<<c, s>>}} ELSE {told}

LEMMA PerformOne ==
    ASSUME NEW w \in Workers, Perform(w), NEW name, NEW c, NEW s, NEW rest,
           Head(todo[w]) = <<name, c, s>>, Tail(todo[w]) = rest
    PROVE  Does(w, name, c, s, rest)
  <1>1. Head(todo[w])[1] = name /\ Head(todo[w])[2] = c /\ Head(todo[w])[3] = s
    OBVIOUS
  <1>2. todo' = [todo EXCEPT ![w] = rest]
    BY DEF Perform
  <1>3. grants' = IF name = "dropGrant" THEN grants \ {c} ELSE grants
    BY <1>1 DEF Perform
  <1>4. session' = IF name = "dropSession" /\ s # 0 THEN [session EXCEPT ![c] = 0] ELSE session
    BY <1>1 DEF Perform
  <1>5. receipts' = IF name = "dropReceipts" /\ s # 0 THEN [receipts EXCEPT ![c][s] = "none"]
                    ELSE IF name = "complete" /\ s # 0 THEN [receipts EXCEPT ![c][s] = "completed"]
                    ELSE receipts
    BY <1>1 DEF Perform
  <1>6. applied' = IF name = "apply" /\ s # 0 THEN [applied EXCEPT ![c][s] = @ + 1] ELSE applied
    BY <1>1 DEF Perform
  <1>7. told' \in IF name = "answer" /\ s # 0 THEN {told, told \cup {<<c, s>>}} ELSE {told}
    BY <1>1 DEF Perform
  <1> QED
    BY <1>2, <1>3, <1>4, <1>5, <1>6, <1>7 DEF Does

LEMMA PerformKinds ==
    ASSUME ServiceInv, NEW w \in Workers, Perform(w)
    PROVE  \/ \E c \in Clients, s \in Session :
                 /\ CallIsUnderWay(w, c, s)
                 /\ Applies(w, c, s) \/ Completes(w, c, s) \/ Answers(w, c, s)
           \/ \E c \in Clients, s \in 0..MaxSession :
                 /\ EndIsUnderWay(w, c, s)
                 /\ DropsGrant(w, c, s) \/ DropsSession(w, c, s) \/ DropsReceipts(w, c, s)
  <1>0. TodoFits(w) /\ todo[w] # << >>
    BY DEF ServiceInv, TodosFit, Perform
  <1>1. ASSUME NEW c \in Clients, NEW s \in Session, CallIsUnderWay(w, c, s)
        PROVE  Applies(w, c, s) \/ Completes(w, c, s) \/ Answers(w, c, s)
    <2>0. s # 0
      BY DEF Session
    <2>1. CASE todo[w] = Applying(c, s)
      <3>1. Head(todo[w]) = <<"apply", c, s>> /\ Tail(todo[w]) = Completing(c, s)
        BY <2>1, TodoParts
      <3>2. Does(w, "apply", c, s, Completing(c, s))
        BY <3>1, PerformOne
      <3> QED
        BY <2>0, <2>1, <3>2 DEF Does, Applies
    <2>2. CASE todo[w] = Completing(c, s)
      <3>1. Head(todo[w]) = <<"complete", c, s>> /\ Tail(todo[w]) = Answering(c, s)
        BY <2>2, TodoParts
      <3>2. Does(w, "complete", c, s, Answering(c, s))
        BY <3>1, PerformOne
      <3> QED
        BY <2>0, <2>2, <3>2 DEF Does, Completes
    <2>3. CASE todo[w] = Answering(c, s)
      <3>1. Head(todo[w]) = <<"answer", c, s>> /\ Tail(todo[w]) = << >>
        BY <2>3, TodoParts
      <3>2. Does(w, "answer", c, s, << >>)
        BY <3>1, PerformOne
      <3> QED
        BY <2>0, <2>3, <3>2 DEF Does, Answers
    <2> QED
      BY <1>1, <2>1, <2>2, <2>3 DEF CallIsUnderWay
  <1>2. ASSUME NEW c \in Clients, NEW s \in 0..MaxSession, EndIsUnderWay(w, c, s)
        PROVE  DropsGrant(w, c, s) \/ DropsSession(w, c, s) \/ DropsReceipts(w, c, s)
    <2>1. CASE todo[w] = Revoking(c, s)
      <3>1. Head(todo[w]) = <<"dropGrant", c, 0>> /\ Tail(todo[w]) = Closing(c, s)
        BY <2>1, TodoParts
      <3>2. Does(w, "dropGrant", c, 0, Closing(c, s))
        BY <3>1, PerformOne
      <3> QED
        BY <2>1, <3>2 DEF Does, DropsGrant
    <2>2. CASE todo[w] = Closing(c, s)
      <3>1. Head(todo[w]) = <<"dropSession", c, s>> /\ Tail(todo[w]) = Dropping(c, s)
        BY <2>2, TodoParts
      <3>2. Does(w, "dropSession", c, s, Dropping(c, s))
        BY <3>1, PerformOne
      <3> QED
        BY <2>2, <3>2 DEF Does, DropsSession
    <2>3. CASE todo[w] = Dropping(c, s)
      <3>1. Head(todo[w]) = <<"dropReceipts", c, s>> /\ Tail(todo[w]) = << >>
        BY <2>3, TodoParts
      <3>2. Does(w, "dropReceipts", c, s, << >>)
        BY <3>1, PerformOne
      <3> QED
        BY <2>3, <3>2 DEF Does, DropsReceipts
    <2> QED
      BY <1>2, <2>1, <2>2, <2>3 DEF EndIsUnderWay
  <1> QED
    BY <1>0, <1>1, <1>2 DEF TodoFits

----------------------------------------------------------------------------
(* Types.                                                                   *)

\* A worker has steps left only while it runs.
LEMMA TodoTyped ==
    ASSUME ServiceTypeOK, NEW w \in Workers, todo[w] # << >>
    PROVE  worker[w] \in {"opening", "serving", "closing"}
  BY DEF ServiceTypeOK, Running

\* What a process does before and after it serves.
LEMMA TypeLaunch ==
    ASSUME ServiceTypeOK,
           \/ \E c \in Clients : Ask(c) \/ TakeStartup(c) \/ GiveUp(c) \/ CrashClient(c)
           \/ \E c \in Clients, w \in Workers : SpawnService(c, w)
    PROVE  ServiceTypeOK'
  <1>1. ASSUME NEW c \in Clients, Ask(c) \/ TakeStartup(c) \/ GiveUp(c) PROVE ServiceTypeOK'
    <2>1. /\ startup' \in Clients \cup {Nobody}
          /\ \E next \in {"asking", "holding", "refused"} : client' = [client EXCEPT ![c] = next]
          /\ UNCHANGED <<owner, discovery, child, worker, grants, calls, flying, todo, crashes>>
      BY <1>1 DEF ServiceTypeOK, Ask, TakeStartup, GiveUp, ReleaseStartup
    <2> QED
      BY <2>1 DEF ServiceTypeOK, calls, Running
  <1>2. ASSUME NEW c \in Clients, CrashClient(c) PROVE ServiceTypeOK'
    <2>1. crashes' \in 0..MaxCrashes
      BY <1>2, SharedServiceAssumption DEF ServiceTypeOK, CrashClient
    <2>2. client' \in [Clients -> {"idle", "asking", "holding", "waiting", "registering", "up",
                                   "refused", "dead"}]
      BY <1>2, ServiceTypes DEF CrashClient
    <2>3. UNCHANGED <<startup, owner, discovery, child, worker, grants, session, opened, receipts,
                      sends, applied, told, flying, todo>>
      BY <1>2 DEF CrashClient, calls
    <2> QED
      BY <2>1, <2>2, <2>3 DEF ServiceTypeOK, Running
  <1>3. ASSUME NEW c \in Clients, NEW w \in Workers, SpawnService(c, w) PROVE ServiceTypeOK'
    BY <1>3 DEF ServiceTypeOK, SpawnService, calls, Running
  <1> QED
    BY <1>1, <1>2, <1>3

Life == {"unborn", "booting", "opening", "serving", "closing", "exited", "gone"}

LEMMA WorkerLife ==
    ASSUME ServiceTypeOK, NEW w \in Workers,
           \/ Boot(w) \/ Listen(w) \/ StopIdle(w) \/ StopNow(w) \/ Release(w) \/ Exit(w)
           \/ CrashWorker(w)
    PROVE  \E next \in Life : /\ worker' = [worker EXCEPT ![w] = next]
                              /\ todo'[w] # << >> => next \in {"opening", "serving", "closing"}
  <1>0. worker \in [Workers -> Life] /\ todo \in [Workers -> Seq(Step \X Clients \X (0..MaxSession))]
    BY ServiceTypes DEF Life
  <1>1. CASE Boot(w)
    BY <1>0, <1>1, TodoTyped DEF Boot, Life
  <1>2. CASE Listen(w)
    BY <1>0, <1>2 DEF Listen, Life
  <1>3. CASE StopIdle(w) \/ StopNow(w)
    BY <1>0, <1>3 DEF StopIdle, StopNow, Life
  <1>4. CASE Release(w)
    <2>1. worker' = [worker EXCEPT ![w] = "closing"]
      BY <1>0, <1>4 DEF Release
    <2> QED
      BY <2>1 DEF Life
  <1>5. CASE Exit(w)
    BY <1>0, <1>5 DEF Exit, Free, Life
  <1>6. CASE CrashWorker(w)
    BY <1>0, <1>6 DEF CrashWorker, Life
  <1> QED
    BY <1>1, <1>2, <1>3, <1>4, <1>5, <1>6

LEMMA TypeWorker ==
    ASSUME ServiceTypeOK, NEW w \in Workers,
           \/ Boot(w) \/ Listen(w) \/ StopIdle(w) \/ StopNow(w) \/ Release(w) \/ Exit(w)
           \/ CrashWorker(w)
    PROVE  ServiceTypeOK'
  <1>0. worker \in [Workers -> Life] /\ todo \in [Workers -> Seq(Step \X Clients \X (0..MaxSession))]
    BY ServiceTypes DEF Life
  <1>1. PICK next \in Life : /\ worker' = [worker EXCEPT ![w] = next]
                             /\ todo'[w] # << >> => next \in {"opening", "serving", "closing"}
    BY WorkerLife
  <1>2. todo' \in {todo, [todo EXCEPT ![w] = << >>]}
    BY DEF Boot, Listen, StopIdle, StopNow, Release, Exit, CrashWorker
  <1>3. worker' \in [Workers -> Life] /\ worker'[w] = next /\ (\A v \in Workers : v # w => worker'[v] = worker[v])
    <2>1. worker \in [Workers -> Life] /\ next \in Life /\ worker' = [worker EXCEPT ![w] = next]
      BY <1>0, <1>1
    <2> QED
      BY ONLY <2>1
  <1>4. /\ todo' \in [Workers -> Seq(Step \X Clients \X (0..MaxSession))]
        /\ \A v \in Workers : v # w => todo'[v] = todo[v]
    <2> DEFINE Steps == Seq(Step \X Clients \X (0..MaxSession))
    <2>1. << >> \in Steps /\ todo \in [Workers -> Steps]
      BY <1>0
    <2> HIDE DEF Steps
    <2>2. todo' \in [Workers -> Steps] /\ \A v \in Workers : v # w => todo'[v] = todo[v]
      BY <1>2, <2>1
    <2> QED
      BY <2>2 DEF Steps
  <1>5. \A v \in Workers : todo'[v] # << >> => Running(v)'
    <2>1. ASSUME NEW v \in Workers, v # w, todo'[v] # << >> PROVE Running(v)'
      <3>1. worker'[v] = worker[v] /\ todo[v] # << >>
        BY <1>3, <1>4, <2>1
      <3> QED
        BY <3>1, TodoTyped DEF Running
    <2>2. ASSUME todo'[w] # << >> PROVE Running(w)'
      <3>1. worker'[w] \in {"opening", "serving", "closing"}
        BY <1>1, <1>3, <2>2
      <3> QED
        BY <3>1 DEF Running
    <2> QED
      BY <2>1, <2>2
  <1>6. client' \in [Clients -> {"idle", "asking", "holding", "waiting", "registering", "up",
                                 "refused", "dead"}]
        /\ flying' \subseteq Handler
    <2>1. CASE UNCHANGED <<client, flying>>
      BY <2>1, ServiceTypes
    <2>2. CASE CutOff(w)
      BY <2>2, ServiceTypes DEF CutOff
    <2> QED
      BY <2>1, <2>2 DEF Boot, Listen, StopIdle, StopNow, Release, Exit, CrashWorker
  <1>7. crashes' \in 0..MaxCrashes
    <2>1. (crashes' = crashes) \/ (crashes < MaxCrashes /\ crashes' = crashes + 1)
      BY DEF Boot, Listen, StopIdle, StopNow, Release, Exit, CrashWorker
    <2>2. crashes \in 0..MaxCrashes /\ MaxCrashes \in Nat
      BY SharedServiceAssumption DEF ServiceTypeOK
    <2> QED
      BY ONLY <2>1, <2>2
  <1>8. {owner', discovery'} \subseteq Workers \cup {Nobody}
    BY ServiceTypes DEF Boot, Listen, StopIdle, StopNow, Release, Exit, CrashWorker
  <1>9. UNCHANGED <<startup, child, grants, session, opened, receipts, sends, applied, told>>
    BY DEF Boot, Listen, StopIdle, StopNow, Release, Exit, CrashWorker, calls
  <1> QED
    BY <1>3, <1>4, <1>5, <1>6, <1>7, <1>8, <1>9 DEF ServiceTypeOK, Life

LEMMA TypeHandlers ==
    ASSUME ServiceTypeOK,
           \/ \E c \in Clients : FoundReady(c)
           \/ \E h \in flying : Register(h) \/ ReadSession(h)
           \/ \E w \in Workers, c \in Clients : Initialize(w, c) \/ Send(w, c)
    PROVE  ServiceTypeOK'
  <1>1. ASSUME NEW c \in Clients, FoundReady(c) PROVE ServiceTypeOK'
    <2>1. /\ startup' \in {Nobody, startup}
          /\ client' = [client EXCEPT ![c] = "registering"]
          /\ UNCHANGED <<owner, discovery, child, worker, grants, session, opened, receipts, sends,
                         applied, told, todo, crashes>>
      BY <1>1 DEF FoundReady, ReleaseStartup, calls
    <2>2. client' \in [Clients -> {"idle", "asking", "holding", "waiting", "registering", "up",
                                   "refused", "dead"}]
      BY <2>1, ServiceTypes
    <2>3. flying' \subseteq Handler
      BY <1>1, ServiceTypes, SharedServiceAssumption DEF FoundReady, Ready, Handler
    <2> QED
      BY <2>1, <2>2, <2>3 DEF ServiceTypeOK, Running
  <1>2. ASSUME NEW h \in flying, Register(h) PROVE ServiceTypeOK'
    <2>1. h.client \in Clients /\ flying' \subseteq flying
      BY <1>2, ServiceTypes DEF Register, Handler
    <2>2. /\ grants' \subseteq Clients
          /\ \E next \in {"up", "refused", client[h.client]} : client' = [client EXCEPT ![h.client] = next]
      BY <1>2, <2>1, ServiceTypes DEF Register
    <2>3. UNCHANGED <<startup, owner, discovery, child, worker, calls, todo, crashes>>
      BY <1>2 DEF Register
    <2>4. client' \in [Clients -> {"idle", "asking", "holding", "waiting", "registering", "up",
                                   "refused", "dead"}]
      BY <2>1, <2>2, ServiceTypes
    <2> QED
      BY <2>1, <2>2, <2>3, <2>4 DEF ServiceTypeOK, calls, Running
  <1>3. ASSUME NEW h \in flying, ReadSession(h) PROVE ServiceTypeOK'
    <2>1. [h EXCEPT !.at = "read"] \in Handler
      BY ServiceTypes DEF Handler
    <2>2. flying' \subseteq Handler
      BY <1>3, <2>1, ServiceTypes DEF ReadSession
    <2>3. UNCHANGED <<startup, owner, discovery, client, child, worker, grants, session, opened, receipts,
                      sends, applied, told, todo, crashes>>
      BY <1>3 DEF ReadSession, launch, calls
    <2> QED
      BY <2>2, <2>3 DEF ServiceTypeOK, Running
  <1>4. ASSUME NEW w \in Workers, NEW c \in Clients, Initialize(w, c) PROVE ServiceTypeOK'
    BY <1>4, SharedServiceAssumption DEF ServiceTypeOK, Initialize, launch, Running
  <1>5. ASSUME NEW w \in Workers, NEW c \in Clients, Send(w, c) PROVE ServiceTypeOK'
    <2>1. opened[c] \in Session /\ opened[c] \in 0..MaxSession
      BY <1>5, ServiceTypes DEF Send, Session
    <2>2. sends \in [Clients -> [Session -> 0..MaxSends]] /\ sends[c][opened[c]] < MaxSends
      BY <1>5 DEF ServiceTypeOK, Send
    <2>3. sends[c][opened[c]] \in 0..MaxSends /\ sends[c][opened[c]] + 1 \in 0..MaxSends
      BY <2>1, <2>2, SharedServiceAssumption
    <2>4. sends' \in [Clients -> [Session -> 0..MaxSends]]
      <3>1. PICK n \in 0..MaxSends : n = sends[c][opened[c]] + 1
        BY <2>3
      <3>2. sends' = [sends EXCEPT ![c][opened[c]] = n]
        BY <1>5, <3>1 DEF Send
      <3> QED
        BY <2>1, <2>2, <3>2
    <2>5. flying' \subseteq Handler
      BY <1>5, <2>1, <2>3, ServiceTypes DEF Send, Handler
    <2>6. UNCHANGED <<launch, grants, session, opened, receipts, todo, applied, told, crashes>>
      BY <1>5 DEF Send
    <2> QED
      BY <2>4, <2>5, <2>6 DEF ServiceTypeOK, launch, Running
  <1> QED
    BY <1>1, <1>2, <1>3, <1>4, <1>5

\* The steps left of a worker are replaced by others.
LEMMA TodoTypeStep ==
    ASSUME ServiceTypeOK, NEW w \in Workers, NEW c \in Clients, NEW s \in 0..MaxSession,
           NEW rest \in {<< >>, Applying(c, s), Completing(c, s), Answering(c, s), Revoking(c, s),
                         Closing(c, s), Dropping(c, s)},
           todo' = [todo EXCEPT ![w] = rest]
    PROVE  todo' \in [Workers -> Seq(Step \X Clients \X (0..MaxSession))]
  <1>1. {Applying(c, s), Completing(c, s), Answering(c, s), Revoking(c, s), Closing(c, s),
         Dropping(c, s)} \subseteq Seq(Step \X Clients \X (0..MaxSession))
    BY TodoSequences
  <1>2. << >> \in Seq(Step \X Clients \X (0..MaxSession))
    OBVIOUS
  <1> HIDE DEF Step
  <1> DEFINE Steps == Seq(Step \X Clients \X (0..MaxSession))
  <1>3. rest \in Steps /\ todo \in [Workers -> Steps]
    BY <1>1, <1>2, ServiceTypes
  <1> HIDE DEF Steps
  <1>4. todo' \in [Workers -> Steps]
    BY <1>3
  <1> QED
    BY <1>4 DEF Steps

LEMMA ReceiptTypeStep ==
    ASSUME ServiceTypeOK, NEW c \in Clients, NEW s \in Session,
           NEW r \in {"none", "started", "completed"},
           receipts' = [receipts EXCEPT ![c][s] = r]
    PROVE  receipts' \in [Clients -> [Session -> {"none", "started", "completed"}]]
  <1>1. receipts \in [Clients -> [Session -> {"none", "started", "completed"}]]
    BY ServiceTypes
  <1>2. [receipts[c] EXCEPT ![s] = r] \in [Session -> {"none", "started", "completed"}]
    BY <1>1
  <1> QED
    BY <1>1, <1>2

\* A worker that is free is given a sequence of disk steps.
LEMMA TypeEnd ==
    ASSUME ServiceTypeOK, NEW w \in Workers, NEW c \in Clients,
           ReapClient(w, c) \/ Revoke(w, c) \/ DeleteSession(w, c)
    PROVE  ServiceTypeOK'
  <1>1. session[c] \in 0..MaxSession
    BY ServiceTypes
  <1>2. todo' \in {[todo EXCEPT ![w] = Revoking(c, session[c])], [todo EXCEPT ![w] = Closing(c, session[c])]}
    BY DEF ReapClient, Revoke, DeleteSession, Revoking, Closing
  <1>3. todo' \in [Workers -> Seq(Step \X Clients \X (0..MaxSession))]
    BY <1>1, <1>2, TodoTypeStep
  <1>4. \A v \in Workers : todo'[v] # << >> => Running(v)'
    <2>1. \A v \in Workers : v # w => todo'[v] = todo[v]
      BY <1>2, ServiceTypes
    <2>2. worker' = worker /\ worker[w] = "serving"
      BY DEF ReapClient, Revoke, DeleteSession, launch
    <2> QED
      BY <2>1, <2>2 DEF ServiceTypeOK, Running
  <1>5. UNCHANGED <<startup, owner, discovery, client, child, worker, grants, session, opened, receipts,
                    sends, applied, told, flying, crashes>>
    BY DEF ReapClient, Revoke, DeleteSession, launch, calls
  <1> QED
    BY <1>3, <1>4, <1>5 DEF ServiceTypeOK

LEMMA TypeDispatch ==
    ASSUME ServiceInv, NEW h \in flying, Dispatch(h)
    PROVE  ServiceTypeOK'
  <1>0. ServiceTypeOK /\ h.worker \in Workers /\ h.client \in Clients /\ h.session \in 0..MaxSession
    BY ServiceTypes DEF Handler, ServiceInv
  <1>1. \/ todo' = todo
        \/ /\ todo' \in {[todo EXCEPT ![h.worker] = Applying(h.client, h.session)],
                         [todo EXCEPT ![h.worker] = Answering(h.client, h.session)]}
           /\ worker[h.worker] = "serving"
    BY DEF Dispatch, Applying, Answering, MayDispatch
  <1>2. todo' \in [Workers -> Seq(Step \X Clients \X (0..MaxSession))]
    <2>1. CASE todo' = todo
      BY <1>0, <2>1, ServiceTypes
    <2>2. CASE todo' = [todo EXCEPT ![h.worker] = Applying(h.client, h.session)]
      BY <1>0, <2>2, TodoTypeStep
    <2>3. CASE todo' = [todo EXCEPT ![h.worker] = Answering(h.client, h.session)]
      BY <1>0, <2>3, TodoTypeStep
    <2> QED
      BY <1>1, <2>1, <2>2, <2>3
  <1>3. \A v \in Workers : todo'[v] # << >> => Running(v)'
    <2>1. worker' = worker
      BY DEF Dispatch, launch
    <2> QED
      BY <1>0, <1>1, <2>1, ServiceTypes DEF ServiceTypeOK, Running
  <1>4. receipts' \in [Clients -> [Session -> {"none", "started", "completed"}]]
    <2>1. h.session \in Session
      BY <1>0 DEF Dispatch, ServiceInv, HandlersFit, Session
    <2>2. receipts' \in {receipts, [receipts EXCEPT ![h.client][h.session] = "started"]}
      BY DEF Dispatch
    <2>3. CASE receipts' = receipts
      BY <1>0, <2>3, ServiceTypes
    <2>4. CASE receipts' = [receipts EXCEPT ![h.client][h.session] = "started"]
      BY <1>0, <2>1, <2>4, ReceiptTypeStep
    <2> QED
      BY <2>2, <2>3, <2>4
  <1>5. flying' \subseteq Handler
    BY <1>0, ServiceTypes DEF Dispatch
  <1> QED
    BY <1>0, <1>2, <1>3, <1>4, <1>5 DEF ServiceTypeOK, Dispatch, launch

LEMMA TypePerform ==
    ASSUME ServiceInv, NEW w \in Workers, Perform(w)
    PROVE  ServiceTypeOK'
  <1>0. ServiceTypeOK /\ SharedServiceAssumption /\ todo[w] # << >>
    BY SharedServiceAssumption DEF ServiceInv, Perform
  <1>1. worker' = worker /\ UNCHANGED <<launch, opened, flying, sends, crashes>>
    BY DEF Perform, launch
  <1>2. ASSUME NEW c \in Clients, NEW s \in Session, Applies(w, c, s) \/ Completes(w, c, s) \/ Answers(w, c, s)
        PROVE  ServiceTypeOK'
    <2>1. todo' \in [Workers -> Seq(Step \X Clients \X (0..MaxSession))]
      <3>1. s \in 0..MaxSession
        BY DEF Session
      <3>2. \E rest \in {<< >>, Completing(c, s), Answering(c, s)} : todo' = [todo EXCEPT ![w] = rest]
        BY <1>2 DEF Applies, Completes, Answers
      <3> QED
        BY <1>0, <3>1, <3>2, TodoTypeStep
    <2>2. \A v \in Workers : todo'[v] # << >> => Running(v)'
      BY <1>0, <1>1, <1>2, ServiceTypes DEF Applies, Completes, Answers, ServiceTypeOK, Running
    <2>3. applied' \in [Clients -> [Session -> Nat]]
      <3>1. applied[c][s] \in Nat /\ applied \in [Clients -> [Session -> Nat]]
        BY <1>0, ServiceTypes
      <3>2. PICK n \in Nat : n = applied[c][s] + 1
        BY <3>1
      <3>3. applied' \in {applied, [applied EXCEPT ![c][s] = n]}
        BY <1>2, <3>2 DEF Applies, Completes, Answers
      <3> QED
        BY <3>1, <3>3
    <2>5. receipts' \in [Clients -> [Session -> {"none", "started", "completed"}]]
      <3>1. receipts' \in {receipts, [receipts EXCEPT ![c][s] = "completed"]}
        BY <1>2 DEF Applies, Completes, Answers
      <3>2. CASE receipts' = receipts
        BY <1>0, <3>2, ServiceTypes
      <3>3. CASE receipts' = [receipts EXCEPT ![c][s] = "completed"]
        BY <1>0, <3>3, ReceiptTypeStep
      <3> QED
        BY <3>1, <3>2, <3>3
    <2>6. told' \subseteq Clients \X Session
      <3>1. told' \in {told, told \cup {<<c, s>>}}
        BY <1>2 DEF Applies, Completes, Answers
      <3>2. told \subseteq Clients \X Session /\ <<c, s>> \in Clients \X Session
        BY <1>0, ServiceTypes
      <3> QED
        BY <3>1, <3>2
    <2>4. grants' = grants /\ session' = session
      BY <1>2 DEF Applies, Completes, Answers
    <2> QED
      BY <1>0, <1>1, <2>1, <2>2, <2>3, <2>4, <2>5, <2>6 DEF ServiceTypeOK, launch
  <1>3. ASSUME NEW c \in Clients, NEW s \in 0..MaxSession,
               DropsGrant(w, c, s) \/ DropsSession(w, c, s) \/ DropsReceipts(w, c, s)
        PROVE  ServiceTypeOK'
    <2>1. todo' \in [Workers -> Seq(Step \X Clients \X (0..MaxSession))]
      <3>1. \E rest \in {<< >>, Closing(c, s), Dropping(c, s)} : todo' = [todo EXCEPT ![w] = rest]
        BY <1>3 DEF DropsGrant, DropsSession, DropsReceipts
      <3> QED
        BY <1>0, <3>1, TodoTypeStep
    <2>2. \A v \in Workers : todo'[v] # << >> => Running(v)'
      BY <1>0, <1>1, <1>3, ServiceTypes DEF DropsGrant, DropsSession, DropsReceipts, ServiceTypeOK, Running
    <2>3. /\ session' \in [Clients -> 0..MaxSession]
          /\ grants' \subseteq Clients
      <3>1. session' \in {session, [session EXCEPT ![c] = 0]} /\ grants' \subseteq grants
        BY <1>3 DEF DropsGrant, DropsSession, DropsReceipts
      <3>2. 0 \in 0..MaxSession
        BY SharedServiceAssumption
      <3>3. session \in [Clients -> 0..MaxSession] /\ grants \subseteq Clients
        BY <1>0, ServiceTypes
      <3> HIDE DEF Session
      <3>4. [session EXCEPT ![c] = 0] \in [Clients -> 0..MaxSession]
        BY <3>2, <3>3
      <3> QED
        BY <3>1, <3>3, <3>4
    <2>4. receipts' \in [Clients -> [Session -> {"none", "started", "completed"}]]
      <3>1. \/ receipts' = receipts
            \/ s \in Session /\ receipts' = [receipts EXCEPT ![c][s] = "none"]
        BY <1>3 DEF DropsGrant, DropsSession, DropsReceipts, Session
      <3> QED
        BY <1>0, <3>1, ReceiptTypeStep, ServiceTypes
    <2>5. applied' = applied /\ told' = told
      BY <1>3 DEF DropsGrant, DropsSession, DropsReceipts
    <2> QED
      BY <1>0, <1>1, <2>1, <2>2, <2>3, <2>4, <2>5 DEF ServiceTypeOK, launch
  <1> QED
    BY <1>2, <1>3, PerformKinds

LEMMA TypeStep ==
    ASSUME ServiceInv, ServiceNext
    PROVE  ServiceTypeOK'
  <1>0. ServiceTypeOK
    BY DEF ServiceInv
  <1> QED
    BY <1>0, TypeLaunch, TypeWorker, TypeHandlers, TypeEnd, TypeDispatch, TypePerform
    DEF ServiceNext, ClientStep, WorkerStep, HandlerStep

----------------------------------------------------------------------------
(* One service: the owner, and nobody else, opens, serves and is busy.      *)

LEMMA InvParts ==
    ASSUME ServiceInv
    PROVE  /\ ServiceTypeOK /\ OneService /\ BusyServes /\ ClientsFit
           /\ HandlersFit /\ OneRegistration /\ CallsFit /\ TodosFit
  BY DEF ServiceInv

\* Steps that leave the workers, the lock and the disk steps left alone.
LEMMA Bystanders ==
    ASSUME \/ \E c \in Clients : Ask(c) \/ TakeStartup(c) \/ GiveUp(c) \/ FoundReady(c) \/ CrashClient(c)
           \/ \E h \in flying : Register(h) \/ ReadSession(h)
           \/ \E w \in Workers, c \in Clients : Initialize(w, c) \/ Send(w, c)
    PROVE  UNCHANGED <<owner, worker, todo>>
  BY DEF Ask, TakeStartup, GiveUp, FoundReady, CrashClient, Register, ReadSession, Initialize, Send, launch

\* What a free worker that serves is given to do.
LEMMA EndSteps ==
    ASSUME ServiceTypeOK, NEW w \in Workers, NEW c \in Clients,
           ReapClient(w, c) \/ Revoke(w, c) \/ DeleteSession(w, c)
    PROVE  /\ worker[w] = "serving" /\ todo[w] = << >> /\ session[c] \in 0..MaxSession
           /\ \/ todo' = [todo EXCEPT ![w] = Revoking(c, session[c])]
              \/ /\ todo' = [todo EXCEPT ![w] = Closing(c, session[c])]
                 /\ \A h \in flying : h.client # c
           /\ UNCHANGED <<launch, grants, calls, flying, crashes>>
  BY ServiceTypes DEF ReapClient, Revoke, DeleteSession, Free, Revoking, Closing

LEMMA DispatchSteps ==
    ASSUME ServiceInv, NEW h \in flying, Dispatch(h)
    PROVE  /\ h.worker \in Workers /\ h.client \in Clients /\ h.session \in Session
           /\ h.at = "read" /\ todo[h.worker] = << >>
           /\ flying' = flying \ {h}
           /\ UNCHANGED <<launch, grants, session, opened, sends, applied, told, crashes>>
           /\ \/ UNCHANGED <<receipts, todo>>
              \/ /\ worker[h.worker] = "serving" /\ h.client \in grants
                 /\ receipts[h.client][h.session] = "completed"
                 /\ todo' = [todo EXCEPT ![h.worker] = Answering(h.client, h.session)]
                 /\ UNCHANGED receipts
              \/ /\ worker[h.worker] = "serving" /\ h.client \in grants
                 /\ receipts[h.client][h.session] = "none"
                 /\ receipts' = [receipts EXCEPT ![h.client][h.session] = "started"]
                 /\ todo' = [todo EXCEPT ![h.worker] = Applying(h.client, h.session)]
  <1>1. h.worker \in Workers /\ h.client \in Clients /\ h.session \in 0..MaxSession
    BY ServiceTypes, InvParts DEF Handler
  <1>2. h.at = "read" /\ todo[h.worker] = << >> /\ flying' = flying \ {h}
    BY DEF Dispatch, Free
  <1>3. h.session \in Session
    BY <1>1, <1>2, InvParts DEF HandlersFit, Session
  <1>4. receipts[h.client][h.session] \in {"none", "started", "completed"}
    BY <1>1, <1>3, ServiceTypes, InvParts
  <1>5. UNCHANGED <<launch, grants, session, opened, sends, applied, told, crashes>>
    BY DEF Dispatch
  <1> QED
    BY <1>1, <1>2, <1>3, <1>4, <1>5 DEF Dispatch, MayDispatch, Applying, Answering

\* A worker with steps left is the one that serves, and the only one that
\* opens or serves.
LEMMA BusyAlone ==
    ASSUME ServiceInv, NEW w \in Workers, todo[w] # << >>
    PROVE  /\ worker[w] = "serving" /\ owner = w
           /\ \A v \in Workers : worker[v] \in {"opening", "serving"} => v = w
           /\ \A v \in Workers : todo[v] # << >> => v = w
  BY InvParts DEF OneService, BusyServes

LEMMA OwnerStep ==
    ASSUME ServiceInv, ServiceNext
    PROVE  OneService' /\ BusyServes'
  <1> USE InvParts
  <1> DEFINE Goal == OneService' /\ BusyServes'
  <1>0. /\ worker \in [Workers -> {"unborn", "booting", "opening", "serving", "closing", "exited", "gone"}]
        /\ todo \in [Workers -> Seq(Step \X Clients \X (0..MaxSession))]
    BY ServiceTypes
  <1>1. ASSUME UNCHANGED <<owner, worker, todo>> PROVE Goal
    BY <1>1 DEF OneService, BusyServes
  <1>2. ASSUME NEW c \in Clients, NEW w \in Workers, SpawnService(c, w) PROVE Goal
    BY <1>0, <1>2 DEF SpawnService, OneService, BusyServes
  <1>3. ASSUME NEW w \in Workers, Boot(w) PROVE Goal
    <2>1. \A v \in Workers : ~Alive(owner) => worker[v] \notin {"opening", "serving"}
      BY SharedServiceAssumption DEF OneService, Alive
    <2> QED
      BY <1>0, <1>3, <2>1 DEF Boot, OneService, BusyServes
  <1>4. ASSUME NEW w \in Workers, Listen(w) PROVE Goal
    BY <1>0, <1>4 DEF Listen, OneService, BusyServes
  <1>5. ASSUME NEW w \in Workers, StopIdle(w) \/ StopNow(w) PROVE Goal
    BY <1>0, <1>5 DEF StopIdle, StopNow, Free, OneService, BusyServes
  <1>6. ASSUME NEW w \in Workers, Release(w) PROVE Goal
    BY <1>0, <1>6 DEF Release, OneService, BusyServes
  <1>7. ASSUME NEW w \in Workers, Exit(w) PROVE Goal
    BY <1>0, <1>7 DEF Exit, Free, OneService, BusyServes
  <1>8. ASSUME NEW w \in Workers, CrashWorker(w) PROVE Goal
    BY <1>0, <1>8 DEF CrashWorker, OneService, BusyServes
  <1>9. ASSUME NEW w \in Workers, NEW c \in Clients, ReapClient(w, c) \/ Revoke(w, c) \/ DeleteSession(w, c)
        PROVE  Goal
    <2>1. worker[w] = "serving" /\ (\A v \in Workers : v # w => todo'[v] = todo[v])
      <3>1. \E rest : todo' = [todo EXCEPT ![w] = rest]
        BY <1>9, EndSteps
      <3> QED
        BY <1>0, <1>9, <3>1, EndSteps
    <2> QED
      BY <1>9, <2>1, EndSteps DEF launch, OneService, BusyServes
  <1>10. ASSUME NEW h \in flying, Dispatch(h) PROVE Goal
    <2>1. \/ todo' = todo
          \/ worker[h.worker] = "serving" /\ (\A v \in Workers : v # h.worker => todo'[v] = todo[v])
      BY <1>0, <1>10, DispatchSteps
    <2> QED
      BY <1>10, <2>1, DispatchSteps DEF launch, OneService, BusyServes
  <1>11. ASSUME NEW w \in Workers, Perform(w) PROVE Goal
    <2>1. worker[w] = "serving" /\ (\A v \in Workers : v # w => todo'[v] = todo[v])
      BY <1>0, <1>11 DEF Perform, BusyServes
    <2> QED
      BY <1>11, <2>1 DEF Perform, launch, OneService, BusyServes
  <1> QED
    BY <1>1, <1>2, <1>3, <1>4, <1>5, <1>6, <1>7, <1>8, <1>9, <1>10, <1>11, Bystanders
    DEF ServiceNext, ClientStep, WorkerStep, HandlerStep

----------------------------------------------------------------------------
(* Clients and the handlers that run for them.                              *)

\* A session that was read belongs to a handler that had arrived.
LEMMA ReadSteps ==
    ASSUME ServiceTypeOK, NEW h \in flying, ReadSession(h)
    PROVE  /\ h.at = "arrived" /\ h.client \in Clients
           /\ UNCHANGED <<launch, grants, calls, todo, crashes>>
           /\ \/ flying' = flying \ {h}
              \/ \E g \in Handler :
                    /\ g.at = "read" /\ g.client = h.client /\ g.session = h.session
                    /\ g.worker = h.worker
                    /\ flying' = (flying \ {h}) \cup {g}
                    /\ h.client \in grants /\ session[h.client] = h.session
  <1>1. h \in Handler /\ h.at = "arrived"
    BY ServiceTypes DEF ReadSession
  <1> DEFINE g == [h EXCEPT !.at = "read"]
  <1>2. /\ g \in Handler /\ g.at = "read" /\ g.client = h.client /\ g.session = h.session
        /\ g.worker = h.worker
    BY <1>1 DEF Handler
  <1>3. \/ flying' = flying \ {h}
        \/ /\ flying' = (flying \ {h}) \cup {g}
           /\ h.client \in grants /\ session[h.client] = h.session
    BY DEF ReadSession
  <1>4. h.client \in Clients
    BY <1>1 DEF Handler
  <1> HIDE DEF g
  <1> QED
    BY <1>1, <1>2, <1>3, <1>4 DEF ReadSession

\* A handler after a step is one from before, or a registration just begun,
\* or a call just sent, or one that just read the session still open.
Fresh(h) ==
    \/ /\ h.at = "registering" /\ client[h.client] \in {"asking", "holding", "waiting"}
       /\ client' = [client EXCEPT ![h.client] = "registering"]
       /\ \A g \in flying' : g \in flying \/ g = h
    \/ /\ h.at = "arrived" /\ h.session = opened[h.client] /\ opened[h.client] # 0
       /\ client[h.client] = "up"
    \/ /\ h.at = "read" /\ session[h.client] = h.session /\ h.session # 0
       /\ \E g \in flying : g.client = h.client /\ g.session = h.session /\ g.at = "arrived"

LEMMA FlyingMoves ==
    ASSUME ServiceInv, ServiceNext
    PROVE  \A h \in flying' : h \in flying \/ Fresh(h)
  <1> USE InvParts
  <1> DEFINE Goal == \A h \in flying' : h \in flying \/ Fresh(h)
  <1>1. ASSUME flying' \subseteq flying PROVE Goal
    BY <1>1
  <1>2. ASSUME NEW c \in Clients, FoundReady(c) PROVE Goal
    <2>1. PICK g : /\ g.at = "registering" /\ g.client = c
                   /\ flying' = flying \cup {g}
      BY <1>2 DEF FoundReady
    <2>2. /\ client[c] \in {"asking", "holding", "waiting"}
          /\ client' = [client EXCEPT ![c] = "registering"]
      BY <1>2 DEF FoundReady
    <2> QED
      BY <2>1, <2>2 DEF Fresh
  <1>3. ASSUME NEW w \in Workers, NEW c \in Clients, Send(w, c) PROVE Goal
    <2>1. PICK g : /\ g.at = "arrived" /\ g.client = c /\ g.session = opened[c]
                   /\ flying' = flying \cup {g}
      BY <1>3 DEF Send
    <2>2. client[c] = "up" /\ opened[c] # 0
      BY <1>3 DEF Send
    <2> QED
      BY <2>1, <2>2 DEF Fresh
  <1>4. ASSUME NEW h \in flying, ReadSession(h) PROVE Goal
    BY <1>4, ReadSteps DEF Fresh, HandlersFit
  <1>5. ASSUME NEW c \in Clients, Ask(c) \/ TakeStartup(c) \/ GiveUp(c) \/ CrashClient(c) PROVE flying' = flying
    BY <1>5 DEF Ask, TakeStartup, GiveUp, CrashClient
  <1>6. ASSUME NEW c \in Clients, NEW w \in Workers,
               \/ SpawnService(c, w) \/ ReapClient(w, c) \/ Revoke(w, c) \/ Initialize(w, c)
               \/ DeleteSession(w, c)
        PROVE  flying' = flying
    BY <1>6 DEF SpawnService, ReapClient, Revoke, Initialize, DeleteSession
  <1>7. ASSUME NEW w \in Workers,
               \/ Boot(w) \/ Listen(w) \/ StopIdle(w) \/ StopNow(w) \/ Release(w) \/ Exit(w)
               \/ CrashWorker(w) \/ Perform(w)
        PROVE  flying' \subseteq flying
    BY <1>7 DEF Boot, Listen, StopIdle, StopNow, Release, Exit, CrashWorker, Perform, CutOff
  <1>8. ASSUME NEW h \in flying, Register(h) \/ Dispatch(h) PROVE flying' \subseteq flying
    BY <1>8 DEF Register, Dispatch
  <1> QED
    BY <1>1, <1>2, <1>3, <1>4, <1>5, <1>6, <1>7, <1>8
    DEF ServiceNext, ClientStep, WorkerStep, HandlerStep

\* Sessions: given by Initialize, ended by the disk step that drops them.
LEMMA SessionMoves ==
    ASSUME ServiceInv, ServiceNext
    PROVE  \/ UNCHANGED <<session, opened>>
           \/ \E w \in Workers, c \in Clients :
                 /\ Initialize(w, c)
                 /\ \E n \in Session : /\ n = opened[c] + 1
                                       /\ opened' = [opened EXCEPT ![c] = n]
                                       /\ session' = [session EXCEPT ![c] = n]
           \/ \E c \in Clients : opened' = opened /\ session' = [session EXCEPT ![c] = 0]
  <1> USE InvParts
  <1> DEFINE Goal == UNCHANGED <<session, opened>>
  <1>1. ASSUME NEW c \in Clients,
               Ask(c) \/ TakeStartup(c) \/ GiveUp(c) \/ FoundReady(c) \/ CrashClient(c) PROVE Goal
    BY <1>1 DEF Ask, TakeStartup, GiveUp, FoundReady, CrashClient, calls
  <1>2. ASSUME NEW c \in Clients, NEW w \in Workers,
               \/ SpawnService(c, w) \/ ReapClient(w, c) \/ Revoke(w, c) \/ Send(w, c)
               \/ DeleteSession(w, c)
        PROVE  Goal
    BY <1>2 DEF SpawnService, ReapClient, Revoke, Send, DeleteSession, calls
  <1>3. ASSUME NEW w \in Workers,
               \/ Boot(w) \/ Listen(w) \/ StopIdle(w) \/ StopNow(w) \/ Release(w) \/ Exit(w)
               \/ CrashWorker(w)
        PROVE  Goal
    BY <1>3 DEF Boot, Listen, StopIdle, StopNow, Release, Exit, CrashWorker, calls
  <1>4. ASSUME NEW h \in flying, Register(h) \/ ReadSession(h) \/ Dispatch(h) PROVE Goal
    BY <1>4 DEF Register, ReadSession, Dispatch, calls
  <1>5. ASSUME NEW w \in Workers, NEW c \in Clients, Initialize(w, c)
        PROVE  \E n \in Session : /\ n = opened[c] + 1
                                  /\ opened' = [opened EXCEPT ![c] = n]
                                  /\ session' = [session EXCEPT ![c] = n]
    <2>1. opened[c] \in 0..MaxSession /\ opened[c] < MaxSession /\ MaxSession \in Nat
      BY <1>5, ServiceTypes, SharedServiceAssumption DEF Initialize
    <2>2. PICK n \in Session : n = opened[c] + 1
      BY <2>1 DEF Session
    <2> QED
      BY <1>5, <2>2 DEF Initialize
  <1>6. ASSUME NEW w \in Workers, Perform(w)
        PROVE  /\ opened' = opened
               /\ \/ session' = session
                  \/ \E c \in Clients : session' = [session EXCEPT ![c] = 0]
    <2>1. opened' = opened
      BY <1>6 DEF Perform
    <2> QED
      BY <1>6, <2>1, PerformKinds DEF Applies, Completes, Answers, DropsGrant, DropsSession, DropsReceipts
  <1> QED
    BY <1>1, <1>2, <1>3, <1>4, <1>5, <1>6
    DEF ServiceNext, ClientStep, WorkerStep, HandlerStep

\* A registered client stays so until it dies, and a client stops waiting for
\* its registration only when no handler of it is left.
LEMMA ClientMoves ==
    ASSUME ServiceInv, ServiceNext, NEW c \in Clients
    PROVE  /\ client[c] = "up" => client'[c] \in {"up", "dead"}
           /\ client[c] = "dead" => client'[c] = "dead"
           /\ client[c] = "registering" =>
                 \/ client'[c] \in {"registering", "dead"}
                 \/ \A h \in flying' : ~(h.at = "registering" /\ h.client = c)
  <1> USE InvParts
  <1> DEFINE Goal == /\ client[c] = "up" => client'[c] \in {"up", "dead"}
                     /\ client[c] = "dead" => client'[c] = "dead"
                     /\ client[c] = "registering" =>
                           \/ client'[c] \in {"registering", "dead"}
                           \/ \A h \in flying' : ~(h.at = "registering" /\ h.client = c)
  <1>0. client \in [Clients -> {"idle", "asking", "holding", "waiting", "registering", "up",
                                "refused", "dead"}]
    BY ServiceTypes
  <1>1. ASSUME client' = client PROVE Goal
    BY <1>1
  <1>2. ASSUME NEW d \in Clients, Ask(d) \/ TakeStartup(d) \/ GiveUp(d) \/ FoundReady(d) PROVE Goal
    <2>1. /\ client[d] \in {"idle", "asking", "holding", "waiting"}
          /\ \E next \in {"asking", "holding", "registering", "refused"} : client' = [client EXCEPT ![d] = next]
      BY <1>2 DEF Ask, TakeStartup, GiveUp, FoundReady
    <2> QED
      BY <1>0, <2>1
  <1>3. ASSUME NEW d \in Clients, NEW w \in Workers, SpawnService(d, w) PROVE Goal
    BY <1>0, <1>3 DEF SpawnService
  <1>4. ASSUME NEW d \in Clients, CrashClient(d) PROVE Goal
    BY <1>0, <1>4 DEF CrashClient
  <1>5. ASSUME NEW w \in Workers, Exit(w) \/ CrashWorker(w) PROVE Goal
    <2>1. CutOff(w)
      BY <1>5 DEF Exit, CrashWorker
    <2>2. CASE client'[c] = client[c]
      BY <2>2
    <2>3. CASE client[c] = "registering" /\ \E h \in Of(w) : h.client = c
      <3>1. opened[c] = 0
        BY <2>3 DEF ClientsFit
      <3>2. PICK h \in Of(w) : h.client = c
        BY <2>3
      <3>3. h \in flying /\ h.worker = w /\ h.session \in 0..MaxSession
        BY <3>2, ServiceTypes DEF Of, Handler
      <3>4. h.at = "registering"
        BY <3>1, <3>2, <3>3 DEF HandlersFit
      <3>5. \A g \in flying : g.at = "registering" /\ g.client = c => g = h
        BY <3>2, <3>3, <3>4 DEF OneRegistration
      <3> QED
        BY <2>1, <2>3, <3>2, <3>5 DEF CutOff
    <2> QED
      BY <2>1, <2>2, <2>3 DEF CutOff
  <1>6. ASSUME NEW h \in flying, Register(h) PROVE Goal
    <2>1. h.at = "registering" /\ flying' = flying \ {h} /\ h.client \in Clients
      BY <1>6, ServiceTypes DEF Register, Handler
    <2>2. client[h.client] \in {"registering", "dead"}
      BY <2>1 DEF HandlersFit
    <2>3. \A g \in flying' : ~(g.at = "registering" /\ g.client = h.client)
      BY <2>1 DEF OneRegistration
    <2>4. \E next \in {"up", "refused", "dead"} :
             /\ client' = [client EXCEPT ![h.client] = next]
             /\ client[h.client] = "dead" => next = "dead"
      BY <1>6 DEF Register
    <2> QED
      BY <1>0, <2>1, <2>2, <2>3, <2>4
  <1>7. ASSUME NEW w \in Workers,
               Boot(w) \/ Listen(w) \/ Perform(w) \/ Release(w) \/ StopIdle(w) \/ StopNow(w)
        PROVE  client' = client
    BY <1>7 DEF Boot, Listen, Perform, Release, StopIdle, StopNow, launch
  <1>8. ASSUME NEW w \in Workers, NEW d \in Clients,
               ReapClient(w, d) \/ Revoke(w, d) \/ Initialize(w, d) \/ DeleteSession(w, d) \/ Send(w, d)
        PROVE  client' = client
    BY <1>8 DEF ReapClient, Revoke, Initialize, DeleteSession, Send, launch
  <1>9. ASSUME NEW h \in flying, ReadSession(h) \/ Dispatch(h) PROVE client' = client
    BY <1>9 DEF ReadSession, Dispatch, launch
  <1> QED
    BY <1>1, <1>2, <1>3, <1>4, <1>5, <1>6, <1>7, <1>8, <1>9
    DEF ServiceNext, ClientStep, WorkerStep, HandlerStep

\* Sessions are only ever added, and only to a client that is up.
LEMMA OpenedGrows ==
    ASSUME ServiceInv, ServiceNext, NEW c \in Clients
    PROVE  /\ opened[c] \in 0..MaxSession /\ opened'[c] \in 0..MaxSession
           /\ opened[c] <= opened'[c]
           /\ opened'[c] # opened[c] => client[c] = "up" /\ client' = client
           /\ session'[c] \in {0, session[c], opened'[c]}
           /\ session'[c] # session[c] /\ session'[c] # 0 =>
                 opened[c] + 1 = opened'[c] /\ session'[c] = opened'[c]
           /\ opened'[c] # opened[c] => session'[c] = opened'[c]
  <1> USE InvParts
  <1>0. session \in [Clients -> 0..MaxSession] /\ opened \in [Clients -> 0..MaxSession]
    BY ServiceTypes
  <1>1. CASE UNCHANGED <<session, opened>>
    BY <1>0, <1>1
  <1>2. ASSUME NEW w \in Workers, NEW d \in Clients, Initialize(w, d), NEW n \in Session,
               n = opened[d] + 1, opened' = [opened EXCEPT ![d] = n], session' = [session EXCEPT ![d] = n]
        PROVE  /\ opened[c] \in 0..MaxSession /\ opened'[c] \in 0..MaxSession
               /\ opened[c] <= opened'[c]
               /\ opened'[c] # opened[c] => client[c] = "up" /\ client' = client
               /\ session'[c] \in {0, session[c], opened'[c]}
               /\ session'[c] # session[c] /\ session'[c] # 0 =>
                     opened[c] + 1 = opened'[c] /\ session'[c] = opened'[c]
               /\ opened'[c] # opened[c] => session'[c] = opened'[c]
    <2>1. client[d] = "up" /\ client' = client
      BY <1>2 DEF Initialize, launch
    <2>2. CASE c = d
      <3>1. opened'[c] = n /\ session'[c] = n /\ opened[c] \in 0..MaxSession /\ n = opened[c] + 1
        BY <1>0, <1>2, <2>2
      <3> QED
        BY <2>1, <2>2, <3>1 DEF Session
    <2>3. CASE c # d
      BY <1>0, <1>2, <2>3
    <2> QED
      BY <2>2, <2>3
  <1>3. ASSUME NEW d \in Clients, opened' = opened, session' = [session EXCEPT ![d] = 0]
        PROVE  opened'[c] = opened[c] /\ session'[c] \in {0, session[c]}
    BY <1>0, <1>3
  <1> QED
    BY <1>0, <1>1, <1>2, <1>3, SessionMoves

LEMMA ClientsStep ==
    ASSUME ServiceInv, ServiceNext
    PROVE  ClientsFit'
  <1> USE InvParts
  <1> SUFFICES ASSUME NEW c \in Clients
               PROVE  /\ opened'[c] # 0 => client'[c] \in {"up", "dead"}
                      /\ session'[c] \in {0, opened'[c]}
    BY DEF ClientsFit
  <1>1. opened[c] # 0 => client'[c] \in {"up", "dead"}
    BY ClientMoves DEF ClientsFit
  <1>2. opened'[c] # opened[c] => client'[c] \in {"up", "dead"}
    BY OpenedGrows
  <1>3. session[c] \in {0, opened[c]}
    BY DEF ClientsFit
  <1> QED
    BY <1>1, <1>2, <1>3, OpenedGrows

LEMMA HandlersStep ==
    ASSUME ServiceInv, ServiceNext
    PROVE  HandlersFit'
  <1> USE InvParts
  <1> SUFFICES ASSUME NEW h \in flying'
               PROVE  /\ h.at = "registering" => client'[h.client] \in {"registering", "dead"} /\ opened'[h.client] = 0
                      /\ h.at # "registering" => h.session # 0 /\ h.session <= opened'[h.client]
    BY DEF HandlersFit
  <1>0. /\ client \in [Clients -> {"idle", "asking", "holding", "waiting", "registering", "up",
                                   "refused", "dead"}]
        /\ h.client \in Clients /\ h.session \in 0..MaxSession
    BY TypeStep, ServiceTypes DEF ServiceTypeOK, Handler
  <1>1. /\ opened[h.client] \in 0..MaxSession /\ opened'[h.client] \in 0..MaxSession
        /\ opened[h.client] <= opened'[h.client]
        /\ opened'[h.client] # opened[h.client] => client[h.client] = "up"
    BY <1>0, OpenedGrows
  <1>2. CASE h \in flying
    <2>1. CASE h.at = "registering"
      <3>1. client[h.client] \in {"registering", "dead"} /\ opened[h.client] = 0
        BY <1>2, <2>1 DEF HandlersFit
      <3> QED
        BY <1>0, <1>1, <2>1, <3>1, ClientMoves
    <2>2. CASE h.at # "registering"
      <3>1. h.session # 0 /\ h.session <= opened[h.client]
        BY <1>2, <2>2 DEF HandlersFit
      <3> QED
        BY <1>0, <1>1, <2>2, <3>1
    <2> QED
      BY <2>1, <2>2
  <1>3. CASE Fresh(h)
    <2>1. CASE h.at = "registering"
      <3>1. client[h.client] \in {"asking", "holding", "waiting"} /\ client'[h.client] = "registering"
        BY <1>0, <1>3, <2>1 DEF Fresh
      <3>2. opened[h.client] = 0
        BY <1>0, <3>1 DEF ClientsFit
      <3> QED
        BY <1>1, <2>1, <3>1, <3>2
    <2>2. CASE h.at = "arrived"
      BY <1>0, <1>1, <1>3, <2>2 DEF Fresh
    <2>3. CASE h.at = "read"
      <3>1. h.session # 0
        BY <1>3, <2>3 DEF Fresh
      <3>2. PICK g \in flying : g.client = h.client /\ g.session = h.session /\ g.at = "arrived"
        BY <1>3, <2>3 DEF Fresh
      <3>3. h.session <= opened[h.client]
        BY <3>2 DEF HandlersFit
      <3> QED
        BY <1>0, <1>1, <2>3, <3>1, <3>3
    <2> QED
      BY <1>3, <2>1, <2>2, <2>3 DEF Fresh
  <1> QED
    BY <1>2, <1>3, FlyingMoves

\* A second registration of a client could only begin before the first.
LEMMA RegistrationStep ==
    ASSUME ServiceInv, ServiceNext
    PROVE  OneRegistration'
  <1> USE InvParts
  <1>1. \A h \in flying' : h \in flying \/ Fresh(h)
    BY FlyingMoves
  <1>2. ASSUME NEW g \in flying, NEW h \in flying', h \notin flying,
               g.at = "registering", h.at = "registering", g.client = h.client
        PROVE  FALSE
    <2>1. client[g.client] \in {"registering", "dead"}
      BY <1>2 DEF HandlersFit
    <2>2. client[h.client] \in {"asking", "holding", "waiting"}
      BY <1>1, <1>2 DEF Fresh
    <2> QED
      BY <1>2, <2>1, <2>2
  <1>3. ASSUME NEW g \in flying', NEW h \in flying', g \notin flying, h \notin flying,
               g.at = "registering", h.at = "registering"
        PROVE  g = h
    BY <1>1, <1>3 DEF Fresh
  <1> QED
    BY <1>2, <1>3 DEF OneRegistration

----------------------------------------------------------------------------
(* Receipts and effects.                                                    *)

\* A grant is made to a client that has had no session.
LEMMA GrantMoves ==
    ASSUME ServiceInv, ServiceNext, NEW c \in grants', c \notin grants
    PROVE  opened[c] = 0
  <1> USE InvParts
  <1>1. ASSUME NEW d \in Clients,
               Ask(d) \/ TakeStartup(d) \/ GiveUp(d) \/ FoundReady(d) \/ CrashClient(d) PROVE grants' = grants
    BY <1>1 DEF Ask, TakeStartup, GiveUp, FoundReady, CrashClient
  <1>2. ASSUME NEW d \in Clients, NEW w \in Workers,
               \/ SpawnService(d, w) \/ ReapClient(w, d) \/ Revoke(w, d) \/ Initialize(w, d)
               \/ DeleteSession(w, d) \/ Send(w, d)
        PROVE  grants' = grants
    BY <1>2 DEF SpawnService, ReapClient, Revoke, Initialize, DeleteSession, Send
  <1>3. ASSUME NEW w \in Workers,
               \/ Boot(w) \/ Listen(w) \/ StopIdle(w) \/ StopNow(w) \/ Release(w) \/ Exit(w)
               \/ CrashWorker(w)
        PROVE  grants' = grants
    BY <1>3 DEF Boot, Listen, StopIdle, StopNow, Release, Exit, CrashWorker
  <1>4. ASSUME NEW w \in Workers, Perform(w) PROVE grants' \subseteq grants
    BY <1>4, PerformKinds DEF Applies, Completes, Answers, DropsGrant, DropsSession, DropsReceipts
  <1>5. ASSUME NEW h \in flying, ReadSession(h) \/ Dispatch(h) PROVE grants' = grants
    BY <1>5 DEF ReadSession, Dispatch
  <1>6. ASSUME NEW h \in flying, Register(h) PROVE opened[c] = 0
    BY <1>6 DEF Register, HandlersFit
  <1> QED
    BY <1>1, <1>2, <1>3, <1>4, <1>5, <1>6
    DEF ServiceNext, ClientStep, WorkerStep, HandlerStep

\* A call that can no longer be dispatched never can again.
LEMMA OverStays ==
    ASSUME ServiceInv, ServiceNext, NEW c \in Clients, NEW s \in Session, Over(c, s)
    PROVE  Over(c, s)'
  <1> USE InvParts
  <1>0. s \in Nat /\ s # 0 /\ session[c] \in 0..MaxSession
    BY ServiceTypes DEF Session
  <1>1. s <= opened[c] /\ session[c] # s
    BY DEF Over
  <1>2. s <= opened'[c]
    BY <1>0, <1>1, OpenedGrows
  <1>3. session'[c] # s
    BY <1>0, <1>1, OpenedGrows
  <1>4. ASSUME c \in grants', NEW h \in flying', h.at = "read", h.client = c, h.session = s
        PROVE  FALSE
    <2>1. c \in grants
      BY <1>0, <1>1, <1>4, GrantMoves
    <2>2. h \notin flying
      BY <1>4, <2>1 DEF Over
    <2>3. session[c] = s
      BY <1>4, <2>2, FlyingMoves DEF Fresh
    <2> QED
      BY <1>1, <2>3
  <1> QED
    BY <1>2, <1>3, <1>4 DEF Over

\* Steps that leave receipts, effects, answers and disk steps left alone; a
\* worker that is busy keeps them from opening a session or a grant besides.
LEMMA StillSteps ==
    ASSUME ServiceInv,
           \/ \E c \in Clients : Ask(c) \/ TakeStartup(c) \/ GiveUp(c) \/ FoundReady(c) \/ CrashClient(c)
           \/ \E c \in Clients, w \in Workers : SpawnService(c, w) \/ Initialize(w, c) \/ Send(w, c)
           \/ \E w \in Workers : Boot(w) \/ Listen(w) \/ StopIdle(w) \/ StopNow(w) \/ Release(w) \/ Exit(w)
           \/ \E h \in flying : Register(h) \/ ReadSession(h)
    PROVE  /\ UNCHANGED <<receipts, applied, told, todo>>
           /\ \A w \in Workers : todo[w] # << >> =>
                 /\ UNCHANGED <<session, grants>>
                 /\ \A h \in flying' : \E g \in flying : g.client = h.client
  <1> USE InvParts
  <1> DEFINE Still(w) == /\ UNCHANGED <<session, grants>>
                         /\ \A h \in flying' : \E g \in flying : g.client = h.client
             Goal == /\ UNCHANGED <<receipts, applied, told, todo>>
                     /\ \A w \in Workers : todo[w] # << >> => Still(w)
  <1>1. ASSUME NEW c \in Clients, Ask(c) \/ TakeStartup(c) \/ GiveUp(c) \/ CrashClient(c) PROVE Goal
    BY <1>1 DEF Ask, TakeStartup, GiveUp, CrashClient, calls
  <1>2. ASSUME NEW c \in Clients, FoundReady(c) PROVE Goal
    <2>1. UNCHANGED <<receipts, applied, told, todo>>
      BY <1>2 DEF FoundReady, calls
    <2>2. discovery \in Workers /\ worker[discovery] = "serving" /\ todo[discovery] = << >>
      BY <1>2 DEF FoundReady, Ready
    <2>3. \A w \in Workers : todo[w] = << >>
      BY <2>2, BusyAlone
    <2> QED
      BY <2>1, <2>3
  <1>3. ASSUME NEW c \in Clients, NEW w \in Workers, SpawnService(c, w) PROVE Goal
    BY <1>3 DEF SpawnService, calls
  <1>4. ASSUME NEW c \in Clients, NEW w \in Workers, Initialize(w, c) \/ Send(w, c) PROVE Goal
    <2>1. UNCHANGED <<receipts, applied, told, todo>>
      BY <1>4 DEF Initialize, Send
    <2>2. worker[w] = "serving" /\ todo[w] = << >>
      BY <1>4 DEF Initialize, Send, Free
    <2>3. \A v \in Workers : todo[v] = << >>
      BY <2>2, BusyAlone
    <2> QED
      BY <2>1, <2>3
  <1>5. ASSUME NEW w \in Workers, Boot(w) \/ Listen(w) \/ StopIdle(w) \/ StopNow(w) \/ Release(w) \/ Exit(w)
        PROVE  Goal
    BY <1>5 DEF Boot, Listen, StopIdle, StopNow, Release, Exit, CutOff, calls
  <1>6. ASSUME NEW h \in flying, Register(h) PROVE Goal
    <2>1. /\ UNCHANGED <<receipts, applied, told, todo, session>>
          /\ flying' \subseteq flying
          /\ todo[h.worker] = << >>
          /\ worker[h.worker] # "serving" => grants' = grants
      BY <1>6 DEF Register, Free, calls
    <2>2. h.worker \in Workers
      BY ServiceTypes DEF Handler
    <2>3. \A w \in Workers : todo[w] # << >> => worker[h.worker] # "serving"
      BY <2>1, <2>2, BusyAlone
    <2> QED
      BY <2>1, <2>3
  <1>7. ASSUME NEW h \in flying, ReadSession(h) PROVE Goal
    BY <1>7, ReadSteps DEF calls
  <1> QED
    BY <1>1, <1>2, <1>3, <1>4, <1>5, <1>6, <1>7

LEMMA CallsStep ==
    ASSUME ServiceInv, ServiceNext
    PROVE  CallsFit'
  <1> USE InvParts
  <1> SUFFICES ASSUME NEW c \in Clients, NEW s \in Session
               PROVE  CallFits(c, s)'
    BY DEF CallsFit
  <1>0. /\ receipts \in [Clients -> [Session -> {"none", "started", "completed"}]]
        /\ applied \in [Clients -> [Session -> Nat]]
        /\ CallFits(c, s)
    BY ServiceTypes DEF CallsFit
  <1>1. ASSUME receipts'[c][s] = receipts[c][s], applied'[c][s] = applied[c][s],
               <<c, s>> \in told' => <<c, s>> \in told
        PROVE  CallFits(c, s)'
    BY <1>0, <1>1, OverStays DEF CallFits
  <1>2. ASSUME UNCHANGED <<receipts, applied, told>> PROVE CallFits(c, s)'
    BY <1>1, <1>2
  <1>3. ASSUME NEW h \in flying, Dispatch(h) PROVE CallFits(c, s)'
    <2>1. CASE UNCHANGED receipts
      BY <1>2, <1>3, <2>1, DispatchSteps
    <2>2. CASE /\ receipts[h.client][h.session] = "none" /\ h.client \in grants
               /\ receipts' = [receipts EXCEPT ![h.client][h.session] = "started"]
      <3>1. /\ h.client \in Clients /\ h.session \in Session /\ h.at = "read"
            /\ applied' = applied /\ told' = told
        BY <1>3, DispatchSteps
      <3>2. CASE h.client = c /\ h.session = s
        <4>1. ~Over(c, s)
          BY <2>2, <3>1, <3>2 DEF Over
        <4>2. applied[c][s] = 0 /\ <<c, s>> \notin told
          BY <1>0, <2>2, <3>2, <4>1 DEF CallFits
        <4>3. receipts'[c][s] = "started"
          BY <1>0, <2>2, <3>1, <3>2
        <4> QED
          BY <3>1, <4>2, <4>3 DEF CallFits
      <3>3. CASE ~(h.client = c /\ h.session = s)
        <4>1. receipts'[c][s] = receipts[c][s]
          BY <1>0, <2>2, <3>1, <3>3
        <4> QED
          BY <1>1, <3>1, <4>1
      <3> QED
        BY <3>2, <3>3
    <2> QED
      BY <1>3, <2>1, <2>2, DispatchSteps
  <1>4. ASSUME NEW w \in Workers, NEW d \in Clients, NEW t \in Session, CallIsUnderWay(w, d, t),
               Applies(w, d, t) \/ Completes(w, d, t) \/ Answers(w, d, t)
        PROVE  CallFits(c, s)'
    <2>1. CASE ~(d = c /\ t = s)
      <3>1. receipts'[c][s] = receipts[c][s]
        BY <1>0, <1>4, <2>1 DEF Applies, Completes, Answers
      <3>2. applied'[c][s] = applied[c][s]
        BY <1>0, <1>4, <2>1 DEF Applies, Completes, Answers
      <3>3. <<c, s>> \in told' => <<c, s>> \in told
        BY <1>4, <2>1 DEF Applies, Completes, Answers
      <3> QED
        BY <1>1, <3>1, <3>2, <3>3
    <2>2. CASE d = c /\ t = s
      <3>0. /\ Applying(c, s) # Completing(c, s) /\ Applying(c, s) # Answering(c, s)
            /\ Completing(c, s) # Answering(c, s)
        BY DEF Applying, Completing, Answering
      <3>1. CASE Applies(w, c, s)
        <4>1. receipts[c][s] = "started" /\ applied[c][s] = 0
          BY <1>4, <2>2, <3>0, <3>1 DEF Applies, CallIsUnderWay
        <4>2. applied'[c][s] = 1
          BY <1>0, <3>1, <4>1 DEF Applies
        <4>3. receipts' = receipts /\ told' = told
          BY <3>1 DEF Applies
        <4> QED
          BY <1>0, <4>1, <4>2, <4>3 DEF CallFits
      <3>2. CASE Completes(w, c, s)
        <4>1. applied[c][s] = 1
          BY <1>4, <2>2, <3>0, <3>2 DEF Completes, CallIsUnderWay
        <4>2. receipts'[c][s] = "completed"
          BY <1>0, <3>2 DEF Completes
        <4>3. applied' = applied /\ told' = told
          BY <3>2 DEF Completes
        <4> QED
          BY <4>1, <4>2, <4>3 DEF CallFits
      <3>3. CASE Answers(w, c, s)
        <4>1. applied[c][s] = 1
          BY <1>4, <2>2, <3>0, <3>3 DEF Answers, CallIsUnderWay
        <4>2. applied' = applied /\ receipts' = receipts
          BY <3>3 DEF Answers
        <4> QED
          BY <1>0, <4>1, <4>2, OverStays DEF CallFits
      <3> QED
        BY <1>4, <2>2, <3>1, <3>2, <3>3
    <2> QED
      BY <2>1, <2>2
  <1>5. ASSUME NEW w \in Workers, NEW d \in Clients, NEW t \in 0..MaxSession, EndIsUnderWay(w, d, t),
               DropsGrant(w, d, t) \/ DropsSession(w, d, t) \/ DropsReceipts(w, d, t)
        PROVE  CallFits(c, s)'
    <2>0. applied' = applied /\ told' = told
      BY <1>5 DEF DropsGrant, DropsSession, DropsReceipts
    <2>1. CASE receipts'[c][s] = receipts[c][s]
      BY <1>1, <2>0, <2>1
    <2>2. CASE receipts'[c][s] # receipts[c][s]
      <3>1. t # 0 /\ todo[w] = Dropping(d, t) /\ receipts' = [receipts EXCEPT ![d][t] = "none"]
        BY <1>5, <2>2 DEF DropsGrant, DropsSession, DropsReceipts
      <3>2. t \in Session
        BY <3>1 DEF Session
      <3>3. d = c /\ t = s
        BY <1>0, <2>2, <3>1, <3>2
      <3>4. Over(c, s)
        <4>1. Dropping(d, t) # Revoking(d, t) /\ Dropping(d, t) # Closing(d, t)
          BY DEF Dropping, Revoking, Closing
        <4> QED
          BY <1>5, <3>1, <3>3, <4>1 DEF EndIsUnderWay
      <3>5. receipts'[c][s] = "none"
        BY <1>0, <3>1, <3>3
      <3> QED
        BY <1>0, <2>0, <3>4, <3>5, OverStays DEF CallFits
    <2> QED
      BY <2>1, <2>2
  <1>6. ASSUME NEW w \in Workers, Perform(w) PROVE CallFits(c, s)'
    BY <1>4, <1>5, <1>6, PerformKinds
  <1>7. ASSUME NEW w \in Workers, NEW d \in Clients, ReapClient(w, d) \/ Revoke(w, d) \/ DeleteSession(w, d)
        PROVE  UNCHANGED <<receipts, applied, told>>
    BY <1>7, EndSteps DEF calls
  <1>8. ASSUME NEW w \in Workers, CrashWorker(w) PROVE UNCHANGED <<receipts, applied, told>>
    BY <1>8 DEF CrashWorker, calls
  <1> QED
    BY <1>2, <1>3, <1>6, <1>7, <1>8, StillSteps
    DEF ServiceNext, ClientStep, WorkerStep, HandlerStep

----------------------------------------------------------------------------
(* The disk steps that are left.                                            *)

LEMMA TodoStill ==
    ASSUME ServiceInv, ServiceNext, NEW w \in Workers,
           todo'[w] = todo[w], UNCHANGED <<receipts, applied, session, grants>>,
           \A h \in flying' : \E g \in flying : g.client = h.client
    PROVE  TodoFits(w)'
  <1> USE InvParts
  <1>1. CASE todo[w] = << >>
    BY <1>1 DEF TodoFits
  <1>2. ASSUME NEW c \in Clients, NEW s \in Session, CallIsUnderWay(w, c, s) PROVE TodoFits(w)'
    BY <1>2 DEF CallIsUnderWay, TodoFits
  <1>3. ASSUME NEW c \in Clients, NEW s \in 0..MaxSession, EndIsUnderWay(w, c, s) PROVE TodoFits(w)'
    <2>1. CASE todo[w] = Revoking(c, s) /\ session[c] = s
      BY <2>1 DEF EndIsUnderWay, TodoFits
    <2>2. CASE todo[w] = Closing(c, s) /\ session[c] = s /\ (c \in grants => \A h \in flying : h.client # c)
      <3>1. todo'[w] = Closing(c, s) /\ session'[c] = s /\ (c \in grants' => \A h \in flying' : h.client # c)
        BY <2>2
      <3> QED
        BY <3>1 DEF EndIsUnderWay, TodoFits
    <2>3. CASE todo[w] = Dropping(c, s) /\ (s # 0 => Over(c, s))
      <3>1. s # 0 => Over(c, s)'
        BY <2>3, OverStays DEF Session
      <3> QED
        BY <2>3, <3>1 DEF EndIsUnderWay, TodoFits
    <2> QED
      BY <1>3, <2>1, <2>2, <2>3 DEF EndIsUnderWay
  <1> QED
    BY <1>1, <1>2, <1>3 DEF TodosFit, TodoFits

LEMMA TodosPerform ==
    ASSUME ServiceInv, ServiceNext, NEW w \in Workers, Perform(w)
    PROVE  TodoFits(w)'
  <1> USE InvParts
  <1>0. /\ todo \in [Workers -> Seq(Step \X Clients \X (0..MaxSession))]
        /\ receipts \in [Clients -> [Session -> {"none", "started", "completed"}]]
        /\ applied \in [Clients -> [Session -> Nat]]
        /\ session \in [Clients -> 0..MaxSession] /\ opened \in [Clients -> 0..MaxSession]
    BY ServiceTypes
  <1>1. UNCHANGED <<launch, opened, flying, sends, crashes>>
    BY DEF Perform
  <1>2. ASSUME NEW c \in Clients, NEW s \in Session, CallIsUnderWay(w, c, s),
               Applies(w, c, s) \/ Completes(w, c, s) \/ Answers(w, c, s)
        PROVE  TodoFits(w)'
    <2>0. /\ Applying(c, s) # Completing(c, s) /\ Applying(c, s) # Answering(c, s)
          /\ Completing(c, s) # Answering(c, s)
      BY DEF Applying, Completing, Answering
    <2>1. CASE Applies(w, c, s)
      <3>1. receipts[c][s] = "started" /\ applied[c][s] = 0
        BY <1>2, <2>0, <2>1 DEF Applies, CallIsUnderWay
      <3>2. applied'[c][s] = 1
        BY <1>0, <2>1, <3>1 DEF Applies
      <3>3. todo'[w] = Completing(c, s) /\ receipts'[c][s] = "started"
        BY <1>0, <2>1, <3>1 DEF Applies
      <3> QED
        BY <3>2, <3>3 DEF CallIsUnderWay, TodoFits
    <2>2. CASE Completes(w, c, s)
      <3>1. applied'[c][s] = 1
        BY <1>2, <2>0, <2>2 DEF Completes, CallIsUnderWay
      <3>2. todo'[w] = Answering(c, s)
        BY <1>0, <2>2 DEF Completes
      <3> QED
        BY <3>1, <3>2 DEF CallIsUnderWay, TodoFits
    <2>3. CASE Answers(w, c, s)
      BY <1>0, <2>3 DEF Answers, TodoFits
    <2> QED
      BY <1>2, <2>1, <2>2, <2>3
  <1>3. ASSUME NEW c \in Clients, NEW s \in 0..MaxSession, EndIsUnderWay(w, c, s),
               DropsGrant(w, c, s) \/ DropsSession(w, c, s) \/ DropsReceipts(w, c, s)
        PROVE  TodoFits(w)'
    <2>0. /\ Revoking(c, s) # Closing(c, s) /\ Revoking(c, s) # Dropping(c, s)
          /\ Closing(c, s) # Dropping(c, s)
      BY DEF Revoking, Closing, Dropping
    <2>1. CASE DropsGrant(w, c, s)
      <3>1. session[c] = s
        BY <1>3, <2>0, <2>1 DEF DropsGrant, EndIsUnderWay
      <3>2. todo'[w] = Closing(c, s) /\ session'[c] = s /\ c \notin grants'
        BY <1>0, <2>1, <3>1 DEF DropsGrant
      <3> QED
        BY <3>2 DEF EndIsUnderWay, TodoFits
    <2>2. CASE DropsSession(w, c, s)
      <3>1. session[c] = s /\ (c \in grants => \A h \in flying : h.client # c)
        BY <1>3, <2>0, <2>2 DEF DropsSession, EndIsUnderWay
      <3>2. todo'[w] = Dropping(c, s) /\ grants' = grants
        BY <1>0, <2>2 DEF DropsSession
      <3>3. ASSUME s # 0 PROVE Over(c, s)'
        <4>1. session'[c] = 0
          BY <1>0, <2>2, <3>3 DEF DropsSession
        <4>2. s = opened[c]
          BY <3>1, <3>3 DEF ClientsFit
        <4>3. s <= opened'[c] /\ session'[c] # s
          BY <1>0, <1>1, <3>3, <4>1, <4>2
        <4>4. c \in grants' => \A h \in flying' : h.client # c
          BY <1>1, <3>1, <3>2
        <4> QED
          BY <4>3, <4>4 DEF Over
      <3> QED
        BY <3>2, <3>3 DEF EndIsUnderWay, TodoFits
    <2>3. CASE DropsReceipts(w, c, s)
      BY <1>0, <2>3 DEF DropsReceipts, TodoFits
    <2> QED
      BY <1>3, <2>1, <2>2, <2>3
  <1> QED
    BY <1>2, <1>3, PerformKinds

LEMMA TodosStep ==
    ASSUME ServiceInv, ServiceNext
    PROVE  TodosFit'
  <1> USE InvParts
  <1> SUFFICES ASSUME NEW w \in Workers PROVE TodoFits(w)'
    BY DEF TodosFit
  <1>0. /\ todo \in [Workers -> Seq(Step \X Clients \X (0..MaxSession))]
        /\ receipts \in [Clients -> [Session -> {"none", "started", "completed"}]]
    BY ServiceTypes
  <1>1. ASSUME todo'[w] = << >> PROVE TodoFits(w)'
    BY <1>1 DEF TodoFits
  <1>2. ASSUME todo' = todo, UNCHANGED <<receipts, applied>>,
               todo[w] # << >> => /\ UNCHANGED <<session, grants>>
                                  /\ \A h \in flying' : \E g \in flying : g.client = h.client
        PROVE  TodoFits(w)'
    BY <1>1, <1>2, TodoStill
  <1>3. ASSUME NEW h \in flying, Dispatch(h) PROVE TodoFits(w)'
    <2> DEFINE c == h.client
               s == h.session
    <2>0. /\ h.worker \in Workers /\ c \in Clients /\ s \in Session /\ h.at = "read"
          /\ todo[h.worker] = << >> /\ flying' = flying \ {h}
          /\ UNCHANGED <<session, grants, applied>>
      BY <1>3, DispatchSteps
    <2>1. CASE UNCHANGED <<receipts, todo>>
      BY <1>2, <2>0, <2>1
    <2>2. CASE worker[h.worker] = "serving" /\ w # h.worker /\ (\A v \in Workers : v # h.worker => todo'[v] = todo[v])
      <3>1. todo[w] = << >>
        BY <2>0, <2>2, BusyAlone
      <3> QED
        BY <1>1, <2>2, <3>1
    <2>3. CASE /\ w = h.worker /\ receipts[c][s] = "completed"
               /\ todo' = [todo EXCEPT ![h.worker] = Answering(c, s)]
      <3>1. CallFits(c, s)
        BY <2>0 DEF CallsFit
      <3>2. applied'[c][s] = 1
        BY <2>0, <2>3, <3>1 DEF CallFits
      <3>3. todo'[w] = Answering(c, s)
        BY <1>0, <2>3
      <3> QED
        BY <2>0, <3>2, <3>3 DEF CallIsUnderWay, TodoFits
    <2>4. CASE /\ w = h.worker /\ receipts[c][s] = "none" /\ c \in grants
               /\ receipts' = [receipts EXCEPT ![c][s] = "started"]
               /\ todo' = [todo EXCEPT ![h.worker] = Applying(c, s)]
      <3>1. CallFits(c, s) /\ ~Over(c, s)
        BY <2>0, <2>4 DEF CallsFit, Over
      <3>2. applied'[c][s] = 0 /\ c \in grants'
        BY <2>0, <2>4, <3>1 DEF CallFits
      <3>3. todo'[w] = Applying(c, s) /\ receipts'[c][s] = "started"
        BY <1>0, <2>0, <2>4
      <3> QED
        BY <2>0, <3>2, <3>3 DEF CallIsUnderWay, TodoFits
    <2> QED
      BY <1>0, <1>3, <2>1, <2>2, <2>3, <2>4, DispatchSteps
  <1>4. ASSUME NEW v \in Workers, NEW c \in Clients, ReapClient(v, c) \/ Revoke(v, c) \/ DeleteSession(v, c)
        PROVE  TodoFits(w)'
    <2>0. /\ worker[v] = "serving" /\ todo[v] = << >> /\ session[c] \in 0..MaxSession
          /\ UNCHANGED <<grants, session, receipts, applied, flying>>
      BY <1>4, EndSteps DEF calls
    <2>1. CASE w # v
      <3>1. todo'[w] = todo[w]
        BY <1>0, <1>4, <2>1, EndSteps
      <3> QED
        BY <2>0, <3>1, TodoStill
    <2>2. CASE w = v /\ todo' = [todo EXCEPT ![v] = Revoking(c, session[c])]
      <3>1. todo'[w] = Revoking(c, session[c]) /\ session'[c] = session[c]
        BY <1>0, <2>0, <2>2
      <3> QED
        BY <2>0, <3>1 DEF EndIsUnderWay, TodoFits
    <2>3. CASE /\ w = v /\ todo' = [todo EXCEPT ![v] = Closing(c, session[c])]
               /\ \A h \in flying : h.client # c
      <3>1. todo'[w] = Closing(c, session[c]) /\ session'[c] = session[c] /\ (\A h \in flying' : h.client # c)
        BY <1>0, <2>0, <2>3
      <3> QED
        BY <2>0, <3>1 DEF EndIsUnderWay, TodoFits
    <2> QED
      BY <1>4, <2>1, <2>2, <2>3, EndSteps
  <1>5. ASSUME NEW v \in Workers, Perform(v) PROVE TodoFits(w)'
    <2>1. CASE w = v
      BY <1>5, <2>1, TodosPerform
    <2>2. CASE w # v
      <3>1. todo[v] # << >> /\ todo'[w] = todo[w]
        BY <1>0, <1>5, <2>2 DEF Perform
      <3>2. todo[w] = << >>
        BY <2>2, <3>1, BusyAlone
      <3> QED
        BY <1>1, <3>1, <3>2
    <2> QED
      BY <2>1, <2>2
  <1>6. ASSUME NEW v \in Workers, CrashWorker(v) PROVE TodoFits(w)'
    <2>1. CASE w = v
      BY <1>0, <1>1, <1>6, <2>1 DEF CrashWorker
    <2>2. CASE w # v
      <3>1. todo'[w] = todo[w] /\ UNCHANGED <<receipts, applied, session, grants>> /\ flying' \subseteq flying
        BY <1>0, <1>6, <2>2 DEF CrashWorker, CutOff, calls
      <3> QED
        BY <3>1, TodoStill
    <2> QED
      BY <2>1, <2>2
  <1> QED
    BY <1>2, <1>3, <1>4, <1>5, <1>6, StillSteps
    DEF ServiceNext, ClientStep, WorkerStep, HandlerStep

----------------------------------------------------------------------------
(* The invariant, and what follows from it.                                 *)

LEMMA ServiceInitially ==
    ASSUME ServiceInit
    PROVE  ServiceInv
  <1> USE SharedServiceAssumption
  <1>1. 0 \in 0..MaxSession /\ 0 \in 0..MaxSends /\ 0 \in 0..MaxCrashes
    OBVIOUS
  <1>2. ServiceTypeOK
    <2>1. todo \in [Workers -> Seq(Step \X Clients \X (0..MaxSession))]
      BY DEF ServiceInit
    <2> QED
      BY <1>1, <2>1 DEF ServiceInit, ServiceTypeOK
  <1>3. OneService /\ BusyServes
    BY DEF ServiceInit, OneService, BusyServes
  <1>4. ClientsFit /\ HandlersFit /\ OneRegistration
    BY DEF ServiceInit, ClientsFit, HandlersFit, OneRegistration
  <1>5. CallsFit
    BY DEF ServiceInit, CallsFit, CallFits
  <1>6. TodosFit
    BY DEF ServiceInit, TodosFit, TodoFits
  <1> QED
    BY <1>2, <1>3, <1>4, <1>5, <1>6 DEF ServiceInv

LEMMA ServiceStutters ==
    ASSUME ServiceInv, UNCHANGED serviceVars
    PROVE  ServiceInv'
  <1>1. UNCHANGED <<startup, owner, discovery, client, child, worker, grants, session, opened,
                    receipts, flying, todo, sends, applied, told, crashes>>
    BY DEF serviceVars, launch, calls
  <1>2. ServiceTypeOK'
    BY <1>1, InvParts DEF ServiceTypeOK, Running
  <1>3. OneService' /\ BusyServes' /\ ClientsFit' /\ HandlersFit' /\ OneRegistration'
    BY <1>1, InvParts DEF OneService, BusyServes, ClientsFit, HandlersFit, OneRegistration
  <1>4. CallsFit'
    BY <1>1, InvParts DEF CallsFit, CallFits, Over
  <1>5. TodosFit'
    BY <1>1, InvParts DEF TodosFit, TodoFits, CallIsUnderWay, EndIsUnderWay, Over
  <1> QED
    BY <1>2, <1>3, <1>4, <1>5 DEF ServiceInv

THEOREM ServiceInvariance == ServiceSpec => []ServiceInv
  <1>1. ServiceInit => ServiceInv
    BY ServiceInitially
  <1>2. ServiceInv /\ [ServiceNext]_serviceVars => ServiceInv'
    <2>1. ASSUME ServiceInv, ServiceNext PROVE ServiceInv'
      BY <2>1, TypeStep, OwnerStep, ClientsStep, HandlersStep, RegistrationStep, CallsStep, TodosStep
      DEF ServiceInv
    <2> QED
      BY <2>1, ServiceStutters
  <1> QED
    BY <1>1, <1>2, PTL DEF ServiceSpec

\* One worker at a time opens or serves, a call that is sent again takes
\* effect at most once, and a client is answered only what took effect, for
\* any numbers of launchers, workers, sessions, sends and crashes
\* (authorizeDispatch, receipts and closeSession in lib/service.ts).
THEOREM ServiceSound == ServiceSpec => []ServiceIsSound
  <1>1. ServiceInv => ServiceIsSound
    BY DEF ServiceInv, ServiceIsSound, AppliedOnce, CallsFit, CallFits
  <1> QED
    BY <1>1, ServiceInvariance, PTL

\* An effect is the lock's owner's, for a client that holds its grant at that
\* moment: a handler that slept through a revocation or the release has none.
THEOREM EffectsAuthorized == ServiceSpec => EffectsAreAuthorized
  <1> DEFINE Authorized ==
        \A c \in Clients, s \in Session : applied'[c][s] # applied[c][s] =>
            c \in grants /\ owner \in Workers /\ todo'[owner] # todo[owner]
  <1>1. ASSUME ServiceInv, ServiceNext, NEW c \in Clients, NEW s \in Session,
               applied'[c][s] # applied[c][s]
        PROVE  c \in grants /\ owner \in Workers /\ todo'[owner] # todo[owner]
    <2> USE InvParts
    <2>0. /\ todo \in [Workers -> Seq(Step \X Clients \X (0..MaxSession))]
          /\ applied \in [Clients -> [Session -> Nat]]
      BY <1>1, ServiceTypes
    <2>1. PICK w \in Workers : Perform(w)
      <3>1. \A h \in flying : Dispatch(h) => applied' = applied
        BY DEF Dispatch
      <3>2. \A w \in Workers : CrashWorker(w) => applied' = applied
        BY DEF CrashWorker, calls
      <3>3. \A w \in Workers, d \in Clients :
               ReapClient(w, d) \/ Revoke(w, d) \/ DeleteSession(w, d) => applied' = applied
        BY DEF ReapClient, Revoke, DeleteSession, calls
      <3> QED
        BY <1>1, <3>1, <3>2, <3>3, StillSteps DEF ServiceNext, ClientStep, WorkerStep, HandlerStep
    <2>2. PICK d \in Clients, t \in Session : CallIsUnderWay(w, d, t) /\ Applies(w, d, t)
      BY <1>1, <2>1, PerformKinds
      DEF Applies, Completes, Answers, DropsGrant, DropsSession, DropsReceipts
    <2>3. d = c /\ t = s
      BY <1>1, <2>0, <2>2 DEF Applies
    <2>4. /\ Applying(c, s) # Completing(c, s) /\ Applying(c, s) # Answering(c, s)
          /\ Applying(c, s) # << >>
      BY DEF Applying, Completing, Answering
    <2>5. c \in grants
      BY <2>2, <2>3, <2>4 DEF Applies, CallIsUnderWay
    <2>6. owner = w
      <3>1. todo[w] # << >>
        BY <2>2, <2>3, <2>4 DEF Applies
      <3> QED
        BY <1>1, <3>1, BusyAlone
    <2>7. todo'[w] # todo[w]
      BY <2>0, <2>2, <2>3, <2>4 DEF Applies
    <2> QED
      BY <2>5, <2>6, <2>7
  <1>2. ServiceInv /\ [ServiceNext]_serviceVars => [Authorized]_serviceVars
    BY <1>1
  <1> QED
    BY <1>2, ServiceInvariance, PTL DEF ServiceSpec, EffectsAreAuthorized
=============================================================================
