--------------------------- MODULE TeamleadRebind ---------------------------
(***************************************************************************)
(* Lifting a teamlead again (src/lib/spawn.ts).  One session of a teamlead  *)
(* is named by two journals: the root task's seat of the teamlead ("lead")  *)
(* and the child task's orchestrator seat ("owner").  A lift that replaces  *)
(* the session writes an intent file first, and whoever finds the file,     *)
(* the lifter or a later command, finishes both writes.  A native (Codex)   *)
(* lead is also reserved in both seats before its driver is asked, and its  *)
(* confirmed stop is retained in both.                                      *)
(*                                                                         *)
(* A generation stands for the session id and, native, its launch id.  The  *)
(* first lift, which creates the child, is in module TaskTree; the          *)
(* directory locks behave as module ExclusiveLock says, so a crashed        *)
(* holder's lock is free again.                                             *)
(***************************************************************************)
EXTENDS Naturals, FiniteSets

CONSTANTS
    Procs,          \* the processes that run spawn --teamlead or stop
    MaxGeneration,  \* how many sessions the lifts start, at most
    MaxCrashes,     \* how many processes die in the middle, at most
    None

ASSUME TeamleadRebindAssumption ==
    /\ None \notin Procs \cup Nat
    /\ MaxGeneration \in Nat
    /\ MaxCrashes \in Nat

VARIABLES
    native,      \* the lead runs on the native harness
    lead,        \* root journal: the teamlead's seat
    owner,       \* child journal: the orchestrator's seat
    intent,      \* the rebind file, or None
    record,      \* native registry: the generation whose record exists, or None
    session,     \* each generation's session: none, alive, dead, or stopped with its receipts
    started,     \* the last generation given out
    rootLock,    \* who holds the root task's lock
    childLock,   \* who holds the child task's lock
    pc,
    plan,        \* what a lifter read while planning
    mine,        \* the generation a process works on
    observed,    \* the intent a recoverer read before it took the lock
    crashes

locks == <<rootLock, childLock>>
journals == <<lead, owner>>
local == <<plan, mine, observed>>
vars == <<native, lead, owner, intent, record, session, started,
          rootLock, childLock, pc, plan, mine, observed, crashes>>

Generations == 0..MaxGeneration

(* The part of a participant that names a generation.                       *)
Seat == [session : Generations,
         pending : Generations \cup {None},
         stopped : BOOLEAN]

Fresh(g) == [session |-> g, pending |-> None, stopped |-> FALSE]
Unreserved(seat) == [seat EXCEPT !.pending = None]
Running(seat) == [seat EXCEPT !.stopped = FALSE]

Intent == [generation : Generations, oldLead : Seat, oldOwner : Seat]

(* What planTeamlead read, and whether it is the plan after a recovery.     *)
Plan == [lead : Seat, owner : Seat, pending : BOOLEAN, again : BOOLEAN]

ASSUME NoRecordAssumption == None \notin Seat \cup Intent \cup Plan

(* A native seat's last generation is proved over: no reservation, no       *)
(* registry record, and the same stop retained in both halves.              *)
Terminal ==
    /\ lead.pending = None
    /\ record = None
    /\ lead.stopped /\ owner.stopped
    /\ lead.session = owner.session

LocksFree == rootLock = None /\ childLock = None

(* withTaskLock(root): the child's lock is taken after it where the native  *)
(* harness needs both.                                                      *)
TakeLocks(p) ==
    /\ LocksFree
    /\ rootLock' = p
    /\ childLock' = IF native THEN p ELSE None

DropLocks(p) == rootLock = p /\ rootLock' = None /\ childLock' = None

At(p, step) == pc[p] = step
Go(p, step) == pc' = [pc EXCEPT ![p] = step]

(* The command ends: done, refused, or failed.                              *)
Leave(p) ==
    /\ Go(p, "idle")
    /\ plan' = [plan EXCEPT ![p] = None]
    /\ mine' = [mine EXCEPT ![p] = None]
    /\ observed' = [observed EXCEPT ![p] = None]

Init ==
    /\ native \in BOOLEAN
    /\ lead = [Fresh(0) EXCEPT !.stopped = native]
    /\ owner = [Fresh(0) EXCEPT !.stopped = native]
    /\ intent = None
    /\ record = None
    /\ session = [g \in Generations |-> IF g = 0 THEN "stopped" ELSE "none"]
    /\ started = 0
    /\ rootLock = None /\ childLock = None
    /\ pc = [p \in Procs |-> "idle"]
    /\ plan = [p \in Procs |-> None]
    /\ mine = [p \in Procs |-> None]
    /\ observed = [p \in Procs |-> None]
    /\ crashes = 0

-----------------------------------------------------------------------------
(* planTeamlead: the root journal, the rebind file and the child journal    *)
(* are read one after another, under no lock.                               *)

PlanRoot(p) ==
    /\ pc[p] \in {"idle", "replan"}
    /\ plan' = [plan EXCEPT ![p] = [lead |-> lead, owner |-> lead, pending |-> FALSE,
                                    again |-> pc[p] = "replan"]]
    /\ Go(p, "look")
    /\ UNCHANGED <<native, journals, intent, record, session, started, locks, mine, observed, crashes>>

PlanIntent(p) ==
    /\ At(p, "look")
    /\ plan' = [plan EXCEPT ![p].pending = intent # None]
    /\ Go(p, "child")
    /\ UNCHANGED <<native, journals, intent, record, session, started, locks, mine, observed, crashes>>

(* The child is read and the lift decides.  A pending rebind is recovered   *)
(* first and the lift planned once more; without one, halves bound to       *)
(* different sessions and a lead that still runs are refused.               *)
PlanAgain(p) == plan[p].pending /\ ~plan[p].again

MayLift(p) ==
    \/ plan[p].pending
    \/ owner.session = plan[p].lead.session /\ session[plan[p].lead.session] # "alive"

PlanRecovery(p) ==
    /\ At(p, "child")
    /\ PlanAgain(p)
    /\ plan' = [plan EXCEPT ![p] = None]
    /\ Go(p, "observe")
    /\ UNCHANGED <<native, journals, intent, record, session, started, locks, mine, observed, crashes>>

PlanLift(p) ==
    /\ At(p, "child")
    /\ ~PlanAgain(p) /\ MayLift(p)
    /\ started < MaxGeneration
    /\ plan' = [plan EXCEPT ![p].owner = owner]
    /\ Go(p, IF native THEN "reserve" ELSE "prepare")
    /\ UNCHANGED <<native, journals, intent, record, session, started, locks, mine, observed, crashes>>

PlanRefused(p) ==
    /\ At(p, "child")
    /\ ~PlanAgain(p)
    /\ MayLift(p) => started = MaxGeneration
    /\ Leave(p)
    /\ UNCHANGED <<native, journals, intent, record, session, started, locks, crashes>>

-----------------------------------------------------------------------------
(* reserveTeamleadRelift: both seats must still be what the plan read and   *)
(* the last generation must be over.                                        *)

MayReserve(p) == lead = plan[p].lead /\ owner = plan[p].owner /\ Terminal

ReserveRoot(p) ==
    /\ At(p, "reserve")
    /\ MayReserve(p)
    /\ started < MaxGeneration
    /\ TakeLocks(p)
    /\ started' = started + 1
    /\ mine' = [mine EXCEPT ![p] = started + 1]
    /\ lead' = [lead EXCEPT !.pending = started + 1]
    /\ Go(p, "reserve child")
    /\ UNCHANGED <<native, owner, intent, record, session, plan, observed, crashes>>

ReserveRefused(p) ==
    /\ At(p, "reserve")
    /\ LocksFree
    /\ ~MayReserve(p)
    /\ Leave(p)
    /\ UNCHANGED <<native, journals, intent, record, session, started, locks, crashes>>

ReserveChild(p) ==
    /\ At(p, "reserve child")
    /\ owner' = [owner EXCEPT !.pending = mine[p]]
    /\ DropLocks(p)
    /\ Go(p, "prepare")
    /\ UNCHANGED <<native, lead, intent, record, session, started, local, crashes>>

(* finalizeManagedServiceLaunch and writeLaunchFiles.  Their failure is     *)
(* known to come before the driver was asked, so the reservation is undone. *)
Prepare(p) ==
    /\ At(p, "prepare")
    /\ Go(p, "launch")
    /\ UNCHANGED <<native, journals, intent, record, session, started, locks, local, crashes>>

PrepareFails(p) ==
    /\ At(p, "prepare")
    /\ IF native THEN Go(p, "unreserve") /\ UNCHANGED local ELSE Leave(p)
    /\ UNCHANGED <<native, journals, intent, record, session, started, locks, crashes>>

(* clearTeamleadReservation: only this launch's marker, and only where the  *)
(* rest of the seat is what the plan read.                                  *)
Cleared(p, seat, prior) ==
    IF seat.pending = mine[p] /\ Unreserved(seat) = prior THEN Unreserved(seat) ELSE seat

UnreserveRoot(p) ==
    /\ At(p, "unreserve")
    /\ TakeLocks(p)
    /\ lead' = Cleared(p, lead, plan[p].lead)
    /\ Go(p, "unreserve child")
    /\ UNCHANGED <<native, owner, intent, record, session, started, local, crashes>>

UnreserveChild(p) ==
    /\ At(p, "unreserve child")
    /\ owner' = Cleared(p, owner, plan[p].owner)
    /\ DropLocks(p)
    /\ Leave(p)
    /\ UNCHANGED <<native, lead, intent, record, session, started, crashes>>

-----------------------------------------------------------------------------
(* driver.spawn.  A failure the driver sees reaps the session and drops its *)
(* record; the reservation stays, for the driver had been asked.            *)

Launch(p) ==
    /\ At(p, "launch")
    /\ LET g == IF native THEN mine[p] ELSE started + 1
       IN /\ g <= MaxGeneration
          /\ started' = IF native THEN started ELSE g
          /\ mine' = [mine EXCEPT ![p] = g]
          /\ session' = [session EXCEPT ![g] = "alive"]
          /\ record' = IF native THEN g ELSE None
    /\ Go(p, "persist")
    /\ UNCHANGED <<native, journals, intent, locks, plan, observed, crashes>>

LaunchFails(p) ==
    /\ At(p, "launch")
    /\ record' = None
    /\ Leave(p)
    /\ UNCHANGED <<native, journals, intent, session, started, locks, crashes>>

(* persist: the child's owner is read, then under the root's lock the seats *)
(* must be as planned, and reserved, and no other rebind may wait.          *)
ReadOwner(p) ==
    /\ At(p, "persist")
    /\ observed' = [observed EXCEPT ![p] = owner]
    /\ Go(p, "publish")
    /\ UNCHANGED <<native, journals, intent, record, session, started, locks, plan, mine, crashes>>

\* mutant: the lead is not compared with the plan
MayPublishOverAnyLead(p) == intent = None

MayPublish(p) ==
    /\ lead.session = plan[p].lead.session
    /\ native => /\ lead = [plan[p].lead EXCEPT !.pending = mine[p]]
                 /\ owner = [plan[p].owner EXCEPT !.pending = mine[p]]
    /\ intent = None

PublishIntent(p) ==
    /\ At(p, "publish")
    /\ rootLock = None
    /\ MayPublish(p)
    /\ intent' = [generation |-> mine[p], oldLead |-> lead, oldOwner |-> observed[p]]
    /\ plan' = [plan EXCEPT ![p] = None]
    /\ Go(p, "observe")
    /\ UNCHANGED <<native, journals, record, session, started, locks, mine, observed, crashes>>

PublishRefused(p) ==
    /\ At(p, "publish")
    /\ rootLock = None
    /\ ~MayPublish(p)
    /\ Leave(p)
    /\ UNCHANGED <<native, journals, intent, record, session, started, locks, crashes>>

-----------------------------------------------------------------------------
(* recoverTeamleadRebind: the file is read, the lock taken, and the file    *)
(* must still say the same.                                                 *)

Observe(p) ==
    /\ At(p, "observe")
    /\ intent # None
    /\ observed' = [observed EXCEPT ![p] = intent]
    /\ Go(p, "bind")
    /\ UNCHANGED <<native, journals, intent, record, session, started, locks, plan, mine, crashes>>

NothingToRecover(p) ==
    /\ At(p, "observe")
    /\ intent = None
    /\ Leave(p)
    /\ UNCHANGED <<native, journals, intent, record, session, started, locks, crashes>>

(* The two seats are each at the old or the new generation.                 *)
\* mutant: a seat that is already at the new generation is refused
MatchesOldOnly ==
    IF native
    THEN lead = intent.oldLead /\ owner = intent.oldOwner
    ELSE lead.session = intent.oldLead.session /\ owner.session = intent.oldOwner.session

Matches ==
    IF native
    THEN /\ lead \in {intent.oldLead, Fresh(intent.generation)}
         /\ owner \in {intent.oldOwner, Fresh(intent.generation)}
    ELSE /\ lead.session \in {intent.oldLead.session, intent.generation}
         /\ owner.session \in {intent.oldOwner.session, intent.generation}

(* Both seats are the new generation, stopped meanwhile.                    *)
BoundAndStopped ==
    native /\ Running(lead) = Fresh(intent.generation) /\ Running(owner) = Fresh(intent.generation)

(* The recovery refuses: "repair the journals", "generation changed", or a  *)
(* stop whose proof is not complete.                                        *)
Refuses == ~Matches /\ ~(BoundAndStopped /\ Terminal)

BindStale(p) ==
    /\ At(p, "bind")
    /\ rootLock = None
    /\ intent # observed[p]
    /\ Leave(p)
    /\ UNCHANGED <<native, journals, intent, record, session, started, locks, crashes>>

BindRefused(p) ==
    /\ At(p, "bind")
    /\ LocksFree
    /\ intent # None /\ intent = observed[p]
    /\ Refuses
    /\ Leave(p)
    /\ UNCHANGED <<native, journals, intent, record, session, started, locks, crashes>>

(* The child's journal is written first, where it is not new already.  A    *)
(* second plan follows when the lift had met a pending rebind.              *)
Bound(p) == IF mine[p] = None THEN Go(p, "replan") /\ UNCHANGED local ELSE Leave(p)

\* mutant: the intent is removed with the first of the two writes
BindChildUnlinks(p) ==
    /\ At(p, "bind")
    /\ TakeLocks(p)
    /\ intent # None /\ intent = observed[p]
    /\ Matches
    /\ owner' = Fresh(intent.generation)
    /\ intent' = None
    /\ Go(p, "bind root")
    /\ UNCHANGED <<native, lead, record, session, started, local, crashes>>

BindChild(p) ==
    /\ At(p, "bind")
    /\ TakeLocks(p)
    /\ intent # None /\ intent = observed[p]
    /\ Matches
    /\ owner' = IF owner.session = intent.generation THEN owner ELSE Fresh(intent.generation)
    /\ Go(p, "bind root")
    /\ UNCHANGED <<native, lead, intent, record, session, started, local, crashes>>

BindRoot(p) ==
    /\ At(p, "bind root")
    /\ lead' = IF lead.session = intent.generation THEN lead ELSE Fresh(intent.generation)
    /\ Go(p, "unlink")
    /\ UNCHANGED <<native, owner, intent, record, session, started, locks, local, crashes>>

Unlink(p) ==
    /\ At(p, "unlink")
    /\ intent' = None
    /\ DropLocks(p)
    /\ Bound(p)
    /\ UNCHANGED <<native, journals, record, session, started, crashes>>

(* A rebind whose new session was stopped before the file went: nothing is  *)
(* written, the file goes.                                                  *)
UnlinkStopped(p) ==
    /\ At(p, "bind")
    /\ LocksFree
    /\ intent # None /\ intent = observed[p]
    /\ ~Matches /\ BoundAndStopped /\ Terminal
    /\ intent' = None
    /\ Bound(p)
    /\ UNCHANGED <<native, journals, record, session, started, locks, crashes>>

-----------------------------------------------------------------------------
(* The native stop.  Its holder confirms and exits; under the parent's, the *)
(* child's and the session's locks the proof is retained in the child, then *)
(* in the root, and only then is the record dropped.                        *)

(* linkedTeamlead: both journals name the record's generation.              *)
Linked == lead.session = record /\ owner.session = record

\* mutant: the stop is taken as confirmed when it was only asked for
StopHolderUnconfirmed(p) ==
    /\ native /\ At(p, "idle")
    /\ record # None
    /\ session[record] \in {"alive", "stopped"}
    /\ mine' = [mine EXCEPT ![p] = record]
    /\ Go(p, "retain")
    /\ UNCHANGED <<native, journals, intent, record, session, started, locks, plan, observed, crashes>>

StopHolder(p) ==
    /\ native /\ At(p, "idle")
    /\ record # None
    /\ mine' = [mine EXCEPT ![p] = record]
    /\ session[record] \in {"alive", "stopped"}
    /\ session' = [session EXCEPT ![record] = "stopped"]
    /\ Go(p, "retain")
    /\ UNCHANGED <<native, journals, intent, record, started, locks, plan, observed, crashes>>

RetainOwner(p) ==
    /\ At(p, "retain")
    /\ TakeLocks(p)
    /\ record = mine[p] /\ Linked
    /\ owner' = [owner EXCEPT !.stopped = TRUE]
    /\ Go(p, "retain root")
    /\ UNCHANGED <<native, lead, intent, record, session, started, local, crashes>>

RetainRefused(p) ==
    /\ At(p, "retain")
    /\ LocksFree
    /\ ~(record = mine[p] /\ Linked)
    /\ Leave(p)
    /\ UNCHANGED <<native, journals, intent, record, session, started, locks, crashes>>

RetainLead(p) ==
    /\ At(p, "retain root")
    /\ lead' = [lead EXCEPT !.stopped = TRUE]
    /\ Go(p, "drop record")
    /\ UNCHANGED <<native, owner, intent, record, session, started, locks, local, crashes>>

DropRecord(p) ==
    /\ At(p, "drop record")
    /\ record' = None
    /\ DropLocks(p)
    /\ Leave(p)
    /\ UNCHANGED <<native, journals, intent, session, started, crashes>>

(* A session ends by itself; a native one leaves its record and no receipt. *)
SessionEnds(g) ==
    /\ session[g] = "alive"
    /\ session' = [session EXCEPT ![g] = "dead"]
    /\ UNCHANGED <<native, journals, intent, record, started, locks, pc, local, crashes>>

(* A process dies; the lock it held is reclaimed.                           *)
Crash(p) ==
    /\ crashes < MaxCrashes /\ ~At(p, "idle")
    /\ crashes' = crashes + 1
    /\ Leave(p)
    /\ rootLock' = IF rootLock = p THEN None ELSE rootLock
    /\ childLock' = IF childLock = p THEN None ELSE childLock
    /\ UNCHANGED <<native, journals, intent, record, session, started>>

-----------------------------------------------------------------------------
PlanStep(p) == PlanRoot(p) \/ PlanIntent(p) \/ PlanRecovery(p) \/ PlanLift(p) \/ PlanRefused(p)

LiftStep(p) ==
    \/ ReserveRoot(p) \/ ReserveRefused(p) \/ ReserveChild(p)
    \/ Prepare(p) \/ PrepareFails(p) \/ UnreserveRoot(p) \/ UnreserveChild(p)
    \/ Launch(p) \/ LaunchFails(p)
    \/ ReadOwner(p) \/ PublishIntent(p) \/ PublishRefused(p)

BindStep(p) ==
    \/ Observe(p) \/ NothingToRecover(p) \/ BindStale(p) \/ BindRefused(p)
    \/ BindChild(p) \/ BindRoot(p) \/ Unlink(p) \/ UnlinkStopped(p)

StopStep(p) ==
    StopHolder(p) \/ RetainOwner(p) \/ RetainRefused(p) \/ RetainLead(p) \/ DropRecord(p)

Step(p) == PlanStep(p) \/ LiftStep(p) \/ BindStep(p) \/ StopStep(p)

Next ==
    \/ \E p \in Procs : Step(p) \/ Crash(p)
    \/ \E g \in Generations : SessionEnds(g)

(* A command that runs goes on, and one that was refused or died is given   *)
(* again, as its message asks.                                              *)
Fairness ==
    \A p \in Procs :
        /\ WF_vars(~At(p, "idle") /\ Step(p))
        /\ SF_vars(At(p, "idle") /\ PlanRoot(p))
        /\ SF_vars(StopHolder(p))

Spec == Init /\ [][Next]_vars /\ Fairness

-----------------------------------------------------------------------------
Steps == {"idle", "look", "child", "reserve", "reserve child", "prepare",
          "unreserve", "unreserve child", "launch", "persist", "publish", "observe", "bind",
          "bind root", "unlink", "replan", "retain", "retain root", "drop record"}

(* Every variable has its type, and the child's lock is never held alone.   *)
TypeOK ==
    /\ native \in BOOLEAN
    /\ lead \in Seat /\ owner \in Seat
    /\ intent \in Intent \cup {None}
    /\ record \in Generations \cup {None}
    /\ session \in [Generations -> {"none", "alive", "dead", "stopped"}]
    /\ started \in Generations
    /\ rootLock \in Procs \cup {None}
    /\ childLock \in {None, rootLock}
    /\ pc \in [Procs -> Steps]
    /\ plan \in [Procs -> Plan \cup {None}]
    /\ mine \in [Procs -> Generations \cup {None}]
    /\ observed \in [Procs -> Intent \cup Seat \cup {None}]
    /\ crashes \in 0..MaxCrashes

(* Where no rebind waits, both journals name the same session: between the  *)
(* two writes, and after a crash there, the file always says how to finish. *)
HalvesAgree == intent = None => lead.session = owner.session

(* A live native session is the one the journals name, or the one they hold *)
(* a reservation for, and there are never two: a lift whose outcome is      *)
(* unknown leaves its reservation, and nobody lifts over it.                *)
OneFencedSession ==
    native => \A g, h \in Generations :
        session[g] = "alive" /\ session[h] = "alive" =>
            g = h /\ g \in {lead.session, lead.pending}

(* No crash, second lift or stop leaves a rebind that every recovery        *)
(* refuses: unless the new session was stopped before the file went, both   *)
(* seats are at the old or the new generation of the file.                  *)
RebindIsRecoverable ==
    intent # None /\ LocksFree /\ session[intent.generation] # "stopped" => Matches

(* What a crash leaves of a rebind can be read off the disk and finished.   *)
RebindIsTraced == TypeOK /\ HalvesAgree /\ RebindIsRecoverable

(* A journal never goes back to an earlier session, whoever finishes which  *)
(* rebind how late.                                                         *)
RebindMovesForward ==
    [][lead'.session >= lead.session /\ owner'.session >= owner.session]_vars

(* The two journals and the file are one register of the teamlead's         *)
(* session, replaced at the moment the file is published: no crash between  *)
(* the writes undoes it, no second lift replaces it half way, no late       *)
(* recovery or stop takes a copy anywhere but to it.                        *)
BoundTo == IF intent = None THEN owner.session ELSE intent.generation

Register == INSTANCE OneLead WITH bound <- BoundTo, ofChild <- owner.session, ofRoot <- lead.session

ImplementsOneLead == Register!Spec

(* A pending rebind is finished by the lifter or by whoever repeats the     *)
(* spawn, crashes and stops in the middle included.  The one exception is a *)
(* lift that met two rebinds while it planned and reserved over the second. *)
ReservedOver == native /\ intent # None /\ lead.pending \in Nat /\ lead.pending > intent.generation

RebindIsFinished == intent # None ~> (intent = None \/ ReservedOver)

=============================================================================
