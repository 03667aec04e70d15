----------------------------- MODULE TaskWarden -----------------------------
(***************************************************************************)
(* The task wardens inside the shared service: lib/service-warden.ts is    *)
(* the service's half, lib/warden-worker.ts the worker thread that runs a  *)
(* loop per task (runTaskWarden of lib/warden.ts).  The two talk over a    *)
(* pair of FIFO channels.  Demands are kept in a file, so that a service   *)
(* started after a crash or a failure resumes them; the seat of a task is  *)
(* the warden mark in its directory, which wardens outside also take.      *)
(***************************************************************************)
EXTENDS Integers, Sequences, FiniteSets, SequencesExt

CONSTANTS
    Tasks,
    None,
    MaxDemands,   \* bound on the demands ever made; a demand is its number
    MaxTroubles,  \* bound on crashes, failures and legacy wardens together
    MaxAborts     \* bound on the commands on their way when one more abort is sent

ASSUME TasksAssumption == IsFiniteSet(Tasks)
ASSUME BoundsAssumption == {MaxDemands, MaxTroubles, MaxAborts} \subseteq Nat

VARIABLES
    demand,     \* the demand of each task as saved in warden-demand.json
    active,     \* the tasks whose journal says active
    seat,       \* whose pid the warden mark of each task names
    service,    \* where the service process is
    entry,      \* the service's record of a task's loop
    busy,       \* the tasks it reports as legacy-busy
    toWorker,   \* commands on their way to the worker
    toService,  \* events on their way back
    loop,       \* the worker's loop of each task
    serial,     \* demands made so far
    troubles,   \* crashes, failures and legacy wardens so far
    settled,    \* auxiliary: demands whose own loop came to its end
    cancelled   \* auxiliary: demands called off by an abort or a closed task

vars == <<demand, active, seat, service, entry, busy, toWorker, toService, loop,
          serial, troubles, settled, cancelled>>
files == <<demand, active, seat>>
mind == <<entry, busy>>
ghosts == <<settled, cancelled>>

Demands == 1..MaxDemands
Demand == [number : Demands \cup {None}, required : BOOLEAN]
Entry == [generation : Demands, stopping : BOOLEAN]
Loop == [generation : Demands, aborted : BOOLEAN, phase : {"running", "ending"}]
ASSUME NoneAssumption == None \notin Demands \cup Entry \cup Loop
Command == [kind : {"start", "abort"}, task : Tasks, generation : Demands]
           \cup [kind : {"close"}]
Event == [kind : {"stopped", "busy", "failed"}, task : Tasks, generation : Demands]

TypeOK ==
    /\ demand \in [Tasks -> Demand]
    /\ active \subseteq Tasks
    /\ seat \in [Tasks -> {"free", "service", "legacy", "dead"}]
    /\ service \in {"down", "opening", "up", "closing", "failed", "leaving"}
    /\ entry \in [Tasks -> Entry \cup {None}]
    /\ busy \subseteq Tasks
    /\ toWorker \in Seq(Command)
    /\ toService \in Seq(Event)
    /\ loop \in [Tasks -> Loop \cup {None}]
    /\ serial \in 0..MaxDemands
    /\ troubles \in 0..MaxTroubles
    /\ settled \subseteq Demands
    /\ cancelled \subseteq Demands

Init ==
    /\ demand = [t \in Tasks |-> [number |-> None, required |-> FALSE]]
    /\ active = Tasks
    /\ seat = [t \in Tasks |-> "free"]
    /\ service = "down"
    /\ entry = [t \in Tasks |-> None]
    /\ busy = {}
    /\ toWorker = <<>>
    /\ toService = <<>>
    /\ loop = [t \in Tasks |-> None]
    /\ serial = 0
    /\ troubles = 0
    /\ settled = {}
    /\ cancelled = {}

Trouble == troubles < MaxTroubles /\ troubles' = troubles + 1
Start(t, d) == [kind |-> "start", task |-> t, generation |-> d]
Abort(t) == [kind |-> "abort", task |-> t, generation |-> entry[t].generation]
Opened(d) == [generation |-> d, stopping |-> FALSE]
CallOff(t) == demand' = [demand EXCEPT ![t].required = FALSE]
Current(t) == IF demand[t].required THEN {demand[t].number} ELSE {}
Entered == {t \in Tasks : entry[t] # None}

\* Every entry is marked as stopping and its abort is sent, in any order.
AbortAll ==
    /\ entry' = [t \in Tasks |->
                    IF entry[t] = None THEN None ELSE [entry[t] EXCEPT !.stopping = TRUE]]
    /\ \E order \in SetToSeqs(Entered) :
          toWorker' = toWorker \o [i \in DOMAIN order |-> Abort(order[i])]

\* The service's failed(): everybody waiting is told, and the warden closes.
Fail ==
    /\ service' = "failed"
    /\ IF service = "up" THEN AbortAll ELSE UNCHANGED <<entry, toWorker>>
    /\ UNCHANGED busy

----------------------------------------------------------------------------
(* The service.  setDemand saves the file before it changes what it has    *)
(* in memory, so `demand` is both; a save that fails fails the service.    *)

Open ==
    /\ service = "down"
    /\ service' = "opening"
    /\ UNCHANGED <<files, mind, toWorker, toService, loop, serial, troubles, ghosts>>

\* recover(): before any client is served, what was required is started
\* again, or dropped when its task is not active any more.
Recover ==
    /\ service = "opening"
    /\ service' = "up"
    /\ LET wanted == {t \in Tasks : demand[t].required}
       IN  /\ entry' = [t \in Tasks |-> IF t \in wanted \cap active
                                        THEN Opened(demand[t].number) ELSE None]
           /\ demand' = [t \in Tasks |-> IF t \in wanted \ active
                                         THEN [demand[t] EXCEPT !.required = FALSE] ELSE demand[t]]
           /\ cancelled' = cancelled \cup UNION {Current(t) : t \in Tasks \ active}
           /\ \E order \in SetToSeqs(wanted \cap active) :
                 toWorker' = [i \in DOMAIN order |-> Start(order[i], demand[order[i]].number)]
    /\ UNCHANGED <<active, seat, busy, toService, loop, serial, troubles, settled>>

\* ensure(): a bus write or a warden command asks for the task's loop.
Ensure(t) ==
    /\ service = "up"
    /\ t \in active
    /\ serial < MaxDemands
    /\ serial' = serial + 1
    /\ demand' = [demand EXCEPT ![t] = [number |-> serial + 1, required |-> TRUE]]
    /\ IF entry[t] # None
       THEN UNCHANGED <<mind, toWorker>>
       ELSE /\ entry' = [entry EXCEPT ![t] = Opened(serial + 1)]
            /\ busy' = busy \ {t}
            /\ toWorker' = Append(toWorker, Start(t, serial + 1))
    /\ UNCHANGED <<active, seat, service, toService, loop, troubles, ghosts>>

\* abort(): calls the demand off and stops the loop, whichever demand it is of.
AbortTask(t) ==
    /\ service = "up"
    /\ Len(toWorker) < MaxAborts
    /\ CallOff(t)
    /\ cancelled' = cancelled \cup Current(t) \cup
                    (IF entry[t] = None THEN {} ELSE {entry[t].generation})
    /\ IF entry[t] = None
       THEN busy' = busy \ {t} /\ UNCHANGED <<entry, toWorker>>
       ELSE /\ entry' = [entry EXCEPT ![t].stopping = TRUE]
            /\ toWorker' = Append(toWorker, Abort(t))
            /\ UNCHANGED busy
    /\ UNCHANGED <<active, seat, service, toService, loop, serial, troubles, settled>>

\* A save that fails: the call changes nothing and the service fails.
SaveFails ==
    /\ service = "up"
    /\ Trouble
    /\ Fail
    /\ UNCHANGED <<files, toService, loop, serial, ghosts>>

----------------------------------------------------------------------------
(* Events of the worker.  One of a generation that is not the entry's is   *)
(* dropped.                                                                *)

\* mutant: the event of a loop uses up whatever demand there is.
ConsumesAny(e) == e.kind # "busy" /\ service = "up"
\* Only a loop of the very demand uses it up, and not by finding the seat taken.
Consumes(e) ==
    /\ service = "up"
    /\ e.kind # "busy"
    /\ demand[e.task].number = e.generation

\* mutant: a successor starts for a demand that was called off as well.
RenewsCalledOff(e) == service = "up" /\ demand[e.task].number # e.generation
\* mutant: the end of a loop is the end of the matter.
RenewsNever(e) == e.kind \notin {"stopped", "busy", "failed"}
\* A demand made while the loop ran gets a successor, if it still stands.
Renews(e) ==
    /\ service = "up"
    /\ demand[e.task].required
    /\ demand[e.task].number # e.generation

Settle(e) ==
    /\ IF Consumes(e) THEN CallOff(e.task) ELSE UNCHANGED demand
    /\ IF Renews(e)
       THEN /\ entry' = [entry EXCEPT ![e.task] = Opened(demand[e.task].number)]
            /\ busy' = busy \ {e.task}
            /\ toWorker' = Append(toWorker, Start(e.task, demand[e.task].number))
       ELSE /\ entry' = [entry EXCEPT ![e.task] = None]
            /\ busy' = IF e.kind = "busy" THEN busy \cup {e.task} ELSE busy \ {e.task}
            /\ UNCHANGED toWorker
    /\ UNCHANGED service

HandleEvent ==
    /\ service \in {"up", "closing", "failed", "leaving"}
    /\ toService # <<>>
    /\ toService' = Tail(toService)
    /\ LET e == Head(toService)
           known == entry[e.task] # None /\ entry[e.task].generation = e.generation
       IN  \/ ~known /\ UNCHANGED <<demand, mind, toWorker, service>>
           \/ known /\ e.kind # "failed" /\ Settle(e)
           \/ /\ known /\ e.kind = "failed" /\ UNCHANGED demand
              /\ IF service \in {"up", "closing"} THEN Fail
                 ELSE UNCHANGED <<mind, toWorker, service>>
    /\ UNCHANGED <<active, seat, loop, serial, troubles, ghosts>>

\* The save of a used up demand fails while an event is handled: the event
\* is lost, its entry stays.
SettleUnsaved ==
    /\ toService # <<>>
    /\ LET e == Head(toService)
       IN  entry[e.task] # None /\ entry[e.task].generation = e.generation
           /\ e.kind = "stopped" /\ Consumes(e)
    /\ toService' = Tail(toService)
    /\ Trouble
    /\ Fail
    /\ UNCHANGED <<files, loop, serial, ghosts>>

----------------------------------------------------------------------------
(* Shutting down: every loop is aborted and awaited, or given up after a   *)
(* failure; then the worker is told to close, and the service leaves when  *)
(* the worker has.                                                         *)

Close ==
    /\ service = "up"
    /\ service' = "closing"
    /\ AbortAll
    /\ UNCHANGED <<files, busy, toService, loop, serial, troubles, ghosts>>

CloseWorker ==
    /\ \/ service = "closing" /\ Entered = {}
       \/ service = "failed"
    /\ service' = "leaving"
    /\ toWorker' = Append(toWorker, [kind |-> "close"])
    /\ UNCHANGED <<files, mind, toService, loop, serial, troubles, ghosts>>

\* What a process that is gone leaves: its files, and marks of a dead pid.
Gone ==
    /\ service' = "down"
    /\ entry' = [t \in Tasks |-> None]
    /\ loop' = [t \in Tasks |-> None]
    /\ seat' = [t \in Tasks |-> IF seat[t] = "service" THEN "dead" ELSE seat[t]]
    /\ busy' = {} /\ toWorker' = <<>> /\ toService' = <<>>

Leave ==
    /\ service = "leaving"
    /\ toWorker = <<>>
    /\ \A t \in Tasks : loop[t] = None
    /\ Gone
    /\ UNCHANGED <<demand, active, serial, troubles, ghosts>>

Crash ==
    /\ service # "down"
    /\ Trouble
    /\ Gone
    /\ UNCHANGED <<demand, active, serial, ghosts>>

----------------------------------------------------------------------------
(* The worker.  A command is handled in one go: runTaskWarden runs up to   *)
(* its first await, past the claim of the seat under the task's lock.      *)

Reply(kind, t, d) ==
    toService' = Append(toService, [kind |-> kind, task |-> t, generation |-> d])

\* The mark is replaced only when its pid does not answer any more.
SeatIsOpen(t) == seat[t] \in {"free", "dead"}

StartLoop(c) ==
    IF loop[c.task] # None
    THEN Reply("failed", c.task, c.generation) /\ UNCHANGED <<loop, seat>>
    ELSE IF SeatIsOpen(c.task)
    THEN /\ seat' = [seat EXCEPT ![c.task] = "service"]
         /\ loop' = [loop EXCEPT ![c.task] =
                        [generation |-> c.generation, aborted |-> FALSE, phase |-> "running"]]
         /\ UNCHANGED toService
    ELSE Reply("busy", c.task, c.generation) /\ UNCHANGED <<loop, seat>>

AbortLoop(c) ==
    /\ loop' = IF loop[c.task] # None /\ loop[c.task].generation = c.generation
               THEN [loop EXCEPT ![c.task].aborted = TRUE] ELSE loop
    /\ UNCHANGED <<seat, toService>>

CloseLoops ==
    /\ loop' = [t \in Tasks |->
                   IF loop[t] = None THEN None ELSE [loop[t] EXCEPT !.aborted = TRUE]]
    /\ UNCHANGED <<seat, toService>>

\* The lock of the task is not had in time, or the mark cannot be written.
StartFails ==
    /\ toWorker # <<>>
    /\ Head(toWorker).kind = "start"
    /\ loop[Head(toWorker).task] = None
    /\ Trouble
    /\ toWorker' = Tail(toWorker)
    /\ Reply("failed", Head(toWorker).task, Head(toWorker).generation)
    /\ UNCHANGED <<files, service, mind, loop, serial, ghosts>>

HandleCommand ==
    /\ toWorker # <<>>
    /\ toWorker' = Tail(toWorker)
    /\ LET c == Head(toWorker)
       IN  \/ c.kind = "start" /\ StartLoop(c)
           \/ c.kind = "abort" /\ AbortLoop(c)
           \/ c.kind = "close" /\ CloseLoops
    /\ UNCHANGED <<demand, active, service, mind, serial, troubles, ghosts>>

\* mutant: the seat is cleared as soon as the loop is told to stop.
UnwindCleared(t) ==
    /\ loop[t] # None /\ loop[t].phase = "running"
    /\ loop' = [loop EXCEPT ![t].phase = "ending"]
    /\ seat' = [seat EXCEPT ![t] = "free"]
    /\ UNCHANGED <<demand, active, service, mind, toWorker, toService, serial, troubles, ghosts>>

\* A loop leaves its rounds: aborted, or because the task closed, its seat
\* was lost, it had nothing to watch, or its rounds kept failing.
Unwind(t) ==
    /\ loop[t] # None /\ loop[t].phase = "running"
    /\ loop' = [loop EXCEPT ![t].phase = "ending"]
    /\ UNCHANGED <<files, service, mind, toWorker, toService, serial, troubles, ghosts>>

\* clearWarden: a mark of another process stays.
Cleared(t) == IF seat[t] = "legacy" THEN seat ELSE [seat EXCEPT ![t] = "free"]

\* The finally block: the seat is cleared, then the loop is forgotten and
\* its end reported.
EndLoop(t) ==
    /\ loop[t] # None /\ loop[t].phase = "ending"
    /\ seat' = Cleared(t)
    /\ loop' = [loop EXCEPT ![t] = None]
    /\ settled' = settled \cup {loop[t].generation}
    /\ Reply("stopped", t, loop[t].generation)
    /\ UNCHANGED <<demand, active, service, mind, toWorker, serial, troubles, cancelled>>

\* The same with an error on the way: the seat may stay behind.
FailLoop(t) ==
    /\ loop[t] # None /\ loop[t].phase = "ending"
    /\ Trouble
    /\ seat' \in {seat, Cleared(t)}
    /\ loop' = [loop EXCEPT ![t] = None]
    /\ Reply("failed", t, loop[t].generation)
    /\ UNCHANGED <<demand, active, service, mind, toWorker, serial, ghosts>>

\* The worker thread exits on its own: nothing is left to close.
WorkerDies ==
    /\ service \in {"up", "closing", "failed"}
    /\ Trouble
    /\ service' = "leaving"
    /\ loop' = [t \in Tasks |-> None]
    /\ toWorker' = <<>>
    /\ UNCHANGED <<files, mind, toService, serial, ghosts>>

----------------------------------------------------------------------------
(* Around it *)

\* A warden process of an older release takes a free seat, and leaves it.
LegacyTakes(t) ==
    /\ seat[t] \in {"free", "dead"}
    /\ Trouble
    /\ seat' = [seat EXCEPT ![t] = "legacy"]
    /\ UNCHANGED <<demand, active, service, mind, toWorker, toService, loop, serial, ghosts>>

LegacyLeaves(t) ==
    /\ seat[t] = "legacy"
    /\ \E left \in {"free", "dead"} : seat' = [seat EXCEPT ![t] = left]
    /\ UNCHANGED <<demand, active, service, mind, toWorker, toService, loop, serial, troubles,
                   ghosts>>

TaskCloses(t) ==
    /\ t \in active
    /\ active' = active \ {t}
    /\ UNCHANGED <<demand, seat, service, mind, toWorker, toService, loop, serial, troubles,
                   ghosts>>

Runs == Open \/ Recover \/ HandleEvent \/ CloseWorker \/ Leave \/ HandleCommand

Next ==
    \/ Runs \/ Close \/ SaveFails \/ SettleUnsaved \/ StartFails \/ WorkerDies \/ Crash
    \/ \E t \in Tasks :
          \/ Ensure(t) \/ AbortTask(t) \/ Unwind(t) \/ EndLoop(t) \/ FailLoop(t)
          \/ LegacyTakes(t) \/ LegacyLeaves(t) \/ TaskCloses(t)

Spec == Init /\ [][Next]_vars

\* Messages are delivered, an aborted loop winds up, a closing service goes
\* on closing, and a client starts a service that is down.  A loop that is
\* not aborted may run for ever, and nobody has to ask, abort or close.
Fairness ==
    /\ WF_vars(Runs)
    /\ WF_vars(HandleEvent) /\ WF_vars(HandleCommand) /\ WF_vars(CloseWorker)
    /\ \A t \in Tasks :
          /\ WF_vars(Unwind(t) /\ loop[t].aborted)
          /\ WF_vars(EndLoop(t))
FairSpec == Spec /\ Fairness

----------------------------------------------------------------------------
(* Properties *)

\* A loop has the seat of its task from its start to the end of its
\* cleanup, whatever wardens outside the service do: one listener per task.
RunnerHasSeat == \A t \in Tasks : loop[t] # None => seat[t] = "service"

\* A start never reaches a worker whose previous loop of the task has not
\* settled, which the worker would answer by failing the whole service.
SuccessorsWait ==
    toWorker # <<>> /\ Head(toWorker).kind = "start" => loop[Head(toWorker).task] = None

\* One loop of a task at a time, with the task's seat.
SeatIsHeld == TypeOK /\ RunnerHasSeat /\ SuccessorsWait

\* A demand that is no longer required was called off, or its own loop came
\* to a proper end: no older loop, failure or crash has used it up.
ConsumedWasServed ==
    \A t \in Tasks : demand[t].number # None /\ ~demand[t].required =>
        demand[t].number \in settled \cup cancelled

\* What an abort or the end of a task called off does not run on: its loop
\* is aborted or the abort is on its way behind the start.
Chased(t, d, from) ==
    \E j \in from..Len(toWorker) :
        \/ toWorker[j].kind = "close"
        \/ toWorker[j].kind = "abort" /\ toWorker[j].task = t /\ toWorker[j].generation = d
CalledOffStops ==
    /\ \A t \in Tasks : loop[t] # None /\ loop[t].generation \in cancelled =>
          loop[t].aborted \/ Chased(t, loop[t].generation, 1)
    /\ \A i \in DOMAIN toWorker :
          toWorker[i].kind = "start" /\ toWorker[i].generation \in cancelled =>
              Chased(toWorker[i].task, toWorker[i].generation, i + 1)

\* A demand is served: the task gets a running loop, through the end of the
\* one before, failures and restarts of the service, unless the demand is
\* called off or a warden outside is found at work.
DemandServed ==
    \A t \in Tasks : demand[t].required ~>
        \/ loop[t] # None /\ loop[t].phase = "running"
        \/ ~demand[t].required
        \/ t \in busy
=============================================================================
