------------------------------ MODULE TaskTree ------------------------------
(***************************************************************************)
(* A root task and its child tasks in src/v1/store.ts.  Creating a child   *)
(* writes two journals, so a link intent in the root names the unfinished  *)
(* pair; recovery finishes it after a crash, and closing the root refuses  *)
(* while a child is active or a link is pending.  All journal writes of    *)
(* the root are read-modify-write under its lock, which is ExclusiveLock:  *)
(* a crashed holder's lock is free to the next taker.                      *)
(***************************************************************************)
EXTENDS Naturals, FiniteSets

CONSTANTS
    Procs, Children, None,
    MaxRefusals   \* bound on calls refused half way and on waits given up

ASSUME NoneAssumption == None \notin Procs \cup Children
ASSUME BoundsAssumption == MaxRefusals \in Nat

VARIABLES
    rootDone,   \* the root journal's status is "done"
    seats,      \* of each child's teamlead address in the root journal:
                \* "free", "linked" (with this child's id) or "plain"
    journal,    \* of each child id: "absent", "active", "done", or "foreign"
                \* when a root task was created under that id
    links,      \* children with a link intent in the root
    lock,       \* the root's .lock
    running, pc, job, at,
    snapshot,   \* the seats a process read under the lock
    refusals

disk == <<rootDone, seats, journal, links>>
local == <<job, at, snapshot>>
vars == <<disk, lock, running, pc, local, refusals>>

SeatStates == {"free", "linked", "plain"}
Journals == {"absent", "active", "done", "foreign"}
Seats == [Children -> SeatStates]
PCs == {"idle", "lock", "check", "link", "child", "seat", "unlink", "undo", "write"}
Jobs == {"none", "create", "recover", "add", "close"}

TypeOK ==
    /\ rootDone \in BOOLEAN
    /\ seats \in Seats
    /\ journal \in [Children -> Journals]
    /\ links \subseteq Children
    /\ lock \in Procs \cup {None}
    /\ running \subseteq Procs
    /\ pc \in [Procs -> PCs]
    /\ job \in [Procs -> Jobs]
    /\ at \in [Procs -> Children \cup {None}]
    /\ snapshot \in [Procs -> Seats]
    /\ refusals \in 0..MaxRefusals

NoSeats == [c \in Children |-> "free"]

Init ==
    /\ rootDone = FALSE
    /\ seats = NoSeats
    /\ journal = [c \in Children |-> "absent"]
    /\ links = {}
    /\ lock = None
    /\ running = Procs
    /\ pc = [p \in Procs |-> "idle"]
    /\ job = [p \in Procs |-> "none"]
    /\ at = [p \in Procs |-> None]
    /\ snapshot = [p \in Procs |-> NoSeats]
    /\ refusals = 0

At(p, label) == p \in running /\ pc[p] = label
Goto(p, label) == pc' = [pc EXCEPT ![p] = label]
Free == lock = None \/ lock \notin running
IsChild(c) == journal[c] \in {"active", "done"}

\* The section ends, by its last write or by a refusal.
Leave(p) ==
    /\ Goto(p, "idle")
    /\ job' = [job EXCEPT ![p] = "none"]
    /\ at' = [at EXCEPT ![p] = None]
    /\ snapshot' = [snapshot EXCEPT ![p] = NoSeats]
    /\ lock' = None

----------------------------------------------------------------------------
(* Entering a section of the root.  recoverTaskLinks lists the links       *)
(* before it takes the lock for one of them.                               *)

Begin(p) ==
    /\ At(p, "idle")
    /\ \E c \in Children :
          /\ \/ job' = [job EXCEPT ![p] = "create"]
             \/ job' = [job EXCEPT ![p] = "add"]
             \/ c \in links /\ job' = [job EXCEPT ![p] = "recover"]
          /\ at' = [at EXCEPT ![p] = c]
    /\ Goto(p, "lock")
    /\ UNCHANGED <<disk, lock, running, snapshot, refusals>>

BeginClose(p) ==
    /\ At(p, "idle")
    /\ job' = [job EXCEPT ![p] = "close"]
    /\ Goto(p, "lock")
    /\ UNCHANGED <<disk, lock, running, at, snapshot, refusals>>

\* The lock in hand, the journal is read: what is written later starts from
\* this reading.
TakeLock(p) ==
    /\ At(p, "lock")
    /\ Free
    /\ lock' = p
    /\ snapshot' = [snapshot EXCEPT ![p] = seats]
    /\ Goto(p, "check")
    /\ UNCHANGED <<disk, running, job, at, refusals>>

\* createTask for a child: everything that may refuse, before any write.
CheckCreate(p) ==
    /\ At(p, "check")
    /\ job[p] = "create"
    /\ IF ~rootDone /\ links = {} /\ snapshot[p][at[p]] = "free" /\ journal[at[p]] = "absent"
       THEN Goto(p, "link") /\ UNCHANGED <<lock, local>>
       ELSE Leave(p)
    /\ UNCHANGED <<disk, running, refusals>>

WriteLink(p) ==
    /\ At(p, "link")
    /\ links' = links \cup {at[p]}
    /\ Goto(p, "child")
    /\ UNCHANGED <<rootDone, seats, journal, lock, running, local, refusals>>

\* writeNewTask publishes by a hard link, so an existing journal is never
\* replaced: a creator then takes its link back, recovery leaves it.
WriteChild(p) ==
    /\ At(p, "child")
    /\ IF journal[at[p]] = "absent"
       THEN /\ journal' = [journal EXCEPT ![at[p]] = "active"]
            /\ Goto(p, IF snapshot[p][at[p]] = "free" THEN "seat" ELSE "unlink")
            /\ UNCHANGED <<lock, local>>
       ELSE /\ IF job[p] = "create" THEN Goto(p, "undo") /\ UNCHANGED <<lock, local>>
               ELSE Leave(p)
            /\ UNCHANGED journal
    /\ UNCHANGED <<rootDone, seats, links, running, refusals>>

UndoLink(p) ==
    /\ At(p, "undo")
    /\ links' = links \ {at[p]}
    /\ Leave(p)
    /\ UNCHANGED <<rootDone, seats, journal, running, refusals>>

\* mutant: the link is dropped with the child's journal, before the seat.
WriteNoSeat(p) ==
    /\ At(p, "seat")
    /\ links' = links \ {at[p]}
    /\ Goto(p, "unlink")
    /\ UNCHANGED <<rootDone, seats, journal, lock, running, local, refusals>>

WriteSeat(p) ==
    /\ At(p, "seat")
    /\ seats' = [snapshot[p] EXCEPT ![at[p]] = "linked"]
    /\ Goto(p, "unlink")
    /\ UNCHANGED <<rootDone, journal, links, lock, running, local, refusals>>

RemoveLink(p) ==
    /\ At(p, "unlink")
    /\ links' = links \ {at[p]}
    /\ Leave(p)
    /\ UNCHANGED <<rootDone, seats, journal, running, refusals>>

\* mutant: a child whose journal exists is taken for finished.
CheckRecoverAbsent(p) ==
    /\ At(p, "check")
    /\ job[p] = "recover"
    /\ IF at[p] \in links /\ journal[at[p]] = "absent"
       THEN Goto(p, "child") /\ UNCHANGED <<lock, local>>
       ELSE Leave(p)
    /\ UNCHANGED <<disk, running, refusals>>

\* recoverTaskLinks under the lock: nothing if another finished the link, a
\* failure kept for the next pass if the seat or the id belongs to another,
\* else whichever halves are missing.
CheckRecover(p) ==
    /\ At(p, "check")
    /\ job[p] = "recover"
    /\ LET c == at[p] IN
       IF c \notin links \/ snapshot[p][c] = "plain" \/ journal[c] = "foreign"
       THEN Leave(p)
       ELSE /\ Goto(p, IF journal[c] = "absent" THEN "child"
                       ELSE IF snapshot[p][c] = "free" THEN "seat" ELSE "unlink")
            /\ UNCHANGED <<lock, local>>
    /\ UNCHANGED <<disk, running, refusals>>

\* addParticipant stands for every read-modify-write of the participant list.
CheckAdd(p) ==
    /\ At(p, "check")
    /\ job[p] = "add"
    /\ IF snapshot[p][at[p]] = "free"
       THEN Goto(p, "write") /\ UNCHANGED <<lock, local>>
       ELSE Leave(p)
    /\ UNCHANGED <<disk, running, refusals>>

WriteAdd(p) ==
    /\ At(p, "write")
    /\ job[p] = "add"
    /\ seats' = [snapshot[p] EXCEPT ![at[p]] = "plain"]
    /\ Leave(p)
    /\ UNCHANGED <<rootDone, journal, links, running, refusals>>

\* mutant: the pending links are not listed.
CheckCloseJournals(p) ==
    /\ At(p, "check")
    /\ job[p] = "close"
    /\ IF ~rootDone /\ \A c \in Children : journal[c] # "active"
       THEN Goto(p, "write") /\ UNCHANGED <<lock, local>>
       ELSE Leave(p)
    /\ UNCHANGED <<disk, running, refusals>>

\* closeTask of the root refuses over an active child and a pending link.
CheckClose(p) ==
    /\ At(p, "check")
    /\ job[p] = "close"
    /\ IF ~rootDone /\ links = {} /\ \A c \in Children : journal[c] # "active"
       THEN Goto(p, "write") /\ UNCHANGED <<lock, local>>
       ELSE Leave(p)
    /\ UNCHANGED <<disk, running, refusals>>

WriteClose(p) ==
    /\ At(p, "write")
    /\ job[p] = "close"
    /\ rootDone' = TRUE
    /\ seats' = snapshot[p]
    /\ Leave(p)
    /\ UNCHANGED <<journal, links, running, refusals>>

----------------------------------------------------------------------------
(* What needs no lock of the root.                                         *)

\* closeTask of a child, under the child's own lock.
CloseChild(c) ==
    /\ journal[c] = "active"
    /\ journal' = [journal EXCEPT ![c] = "done"]
    /\ UNCHANGED <<rootDone, seats, links, lock, running, pc, local, refusals>>

\* createTask without a parent takes no lock: the id may be any.
CreateForeign(c) ==
    /\ journal[c] = "absent"
    /\ journal' = [journal EXCEPT ![c] = "foreign"]
    /\ UNCHANGED <<rootDone, seats, links, lock, running, pc, local, refusals>>

\* A write refused half way: the error goes to the caller, the link stays.
Refuse(p) ==
    /\ p \in running
    /\ pc[p] \in {"link", "child", "seat", "unlink", "undo", "write"}
    /\ refusals < MaxRefusals
    /\ refusals' = refusals + 1
    /\ Leave(p)
    /\ UNCHANGED <<disk, running>>

\* The lock stayed busy for LOCK_WAIT_MS.
GiveUp(p) ==
    /\ At(p, "lock")
    /\ lock \notin {None, p}
    /\ refusals < MaxRefusals
    /\ refusals' = refusals + 1
    /\ Goto(p, "idle")
    /\ job' = [job EXCEPT ![p] = "none"]
    /\ at' = [at EXCEPT ![p] = None]
    /\ UNCHANGED <<disk, lock, running, snapshot>>

\* Some process always runs: with none, nothing happens.
Crash(p) ==
    /\ p \in running
    /\ running # {p}
    /\ running' = running \ {p}
    /\ UNCHANGED <<disk, lock, pc, local, refusals>>

Step(p) ==
    \/ TakeLock(p) \/ CheckCreate(p) \/ WriteLink(p) \/ WriteChild(p) \/ UndoLink(p)
    \/ WriteSeat(p) \/ RemoveLink(p) \/ CheckRecover(p) \/ CheckAdd(p) \/ WriteAdd(p)
    \/ CheckClose(p) \/ WriteClose(p)

Next ==
    \/ \E p \in Procs :
          Begin(p) \/ BeginClose(p) \/ Step(p) \/ Refuse(p) \/ GiveUp(p) \/ Crash(p)
    \/ \E c \in Children : CloseChild(c) \/ CreateForeign(c)

Spec == Init /\ [][Next]_vars

\* A section runs to its end (its lock is polled every 20 ms); every opening
\* of the store recovers the links it lists.
BeginRecover(p) == Begin(p) /\ job'[p] = "recover"
Fairness == \A p \in Procs : SF_vars(Step(p)) /\ SF_vars(BeginRecover(p))
FairSpec == Spec /\ Fairness

----------------------------------------------------------------------------
(* Properties *)

\* No active child under a closed root, and no link that could still make
\* one: closing and creating exclude each other through crashes.
DoneRootIsQuiet ==
    rootDone => links = {} /\ \A c \in Children : journal[c] # "active"

\* The two journals are never left half linked without a trace: a child
\* without its teamlead's seat has a link for recovery to finish, and a
\* linked seat always has its child.
HalvesAreTraced ==
    \A c \in Children :
        /\ IsChild(c) /\ seats[c] # "linked" => c \in links
        /\ seats[c] = "linked" => IsChild(c)

\* A participant of the root is never lost to a concurrent journal write.
SeatsAreKept ==
    [][ \A c \in Children : seats[c] # "free" => seats'[c] = seats[c] ]_vars

\* A journal is never replaced: a child stays a child, a task that took the
\* id first stays, and nothing reopens a closed child.
JournalsAreKept ==
    [][ \A c \in Children :
          /\ journal[c] = "active" => journal'[c] \in {"active", "done"}
          /\ journal[c] \in {"done", "foreign"} => journal'[c] = journal[c] ]_vars

\* At most one child creation of the root is unfinished at a time, so a
\* pending link reserves its teamlead's address.
OneLinkAtATime == Cardinality(links) <= 1

\* What is half written is traced, for one creation at a time.
TreeIsTraced == TypeOK /\ HalvesAreTraced /\ OneLinkAtATime

\* A link a crash left behind is finished, unless its id or its seat was
\* taken by another in the meantime; such a link stays for a person.
LinksAreFinished ==
    \A c \in Children :
        c \in links ~> c \notin links \/ seats[c] = "plain" \/ journal[c] = "foreign"
=============================================================================
