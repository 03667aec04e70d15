-------------------------- MODULE TaskTree_proofs --------------------------
(***************************************************************************)
(* Proofs about TaskTree, for any number of processes, children and        *)
(* refusals.  What makes them go through is what a process may rely on at  *)
(* each point of its section: its reading of the journal is still the      *)
(* journal, and the half it has not written yet is still missing.          *)
(***************************************************************************)
EXTENDS TaskTree, FiniteSetTheorems, TLAPS

InSection(p) == pc[p] \notin {"idle", "lock"}

\* Only the running holder of the lock is inside its section.
SectionHoldsLock == \A p \in running : InSection(p) => lock = p

\* What each label says of the job.
JobsFit ==
    \A p \in Procs :
        /\ pc[p] \in {"link", "undo"} => job[p] = "create"
        /\ pc[p] \in {"child", "seat", "unlink"} => job[p] \in {"create", "recover"}
        /\ pc[p] = "write" => job[p] \in {"add", "close"}
        /\ pc[p] # "idle" /\ job[p] \in {"create", "recover", "add"} => at[p] \in Children

\* The reading under the lock is the journal until the section writes it.
ReadingIsCurrent ==
    \A p \in running : InSection(p) /\ pc[p] # "unlink" => snapshot[p] = seats

Quiet == ~rootDone /\ links = {} /\ \A c \in Children : journal[c] # "active"

\* What a running process knows at each point of its section.
Knowledge ==
    \A p \in running :
        /\ pc[p] = "link" => ~rootDone /\ links = {} /\ seats[at[p]] = "free" /\ ~IsChild(at[p])
        /\ pc[p] = "child" => at[p] \in links /\ seats[at[p]] = "free" /\ ~IsChild(at[p])
        /\ pc[p] = "seat" => at[p] \in links /\ seats[at[p]] = "free" /\ IsChild(at[p])
        /\ pc[p] = "unlink" => seats[at[p]] = "linked" /\ IsChild(at[p])
        /\ pc[p] = "undo" => ~IsChild(at[p]) /\ seats[at[p]] = "free"
        /\ pc[p] = "write" /\ job[p] = "add" => seats[at[p]] = "free"
        /\ pc[p] = "write" /\ job[p] = "close" => Quiet

AtMostOneLink == \A c, d \in links : c = d

Inv ==
    /\ TypeOK
    /\ SectionHoldsLock
    /\ JobsFit
    /\ ReadingIsCurrent
    /\ Knowledge
    /\ DoneRootIsQuiet
    /\ HalvesAreTraced
    /\ AtMostOneLink

----------------------------------------------------------------------------
LEMMA InitInv == Init => Inv
  <1> SUFFICES ASSUME Init PROVE Inv
    OBVIOUS
  <1>1. NoSeats \in Seats
    BY DEF NoSeats, Seats, SeatStates
  <1>2. TypeOK
    <2>1. snapshot \in [Procs -> Seats] /\ seats \in Seats
      BY <1>1 DEF Init
    <2>2. journal \in [Children -> Journals] /\ refusals \in 0..MaxRefusals
      BY BoundsAssumption DEF Init, Journals
    <2>3. pc \in [Procs -> PCs] /\ job \in [Procs -> Jobs] /\ at \in [Procs -> Children \cup {None}]
      BY DEF Init, PCs, Jobs
    <2> QED
      BY <2>1, <2>2, <2>3 DEF Init, TypeOK
  <1>3. SectionHoldsLock /\ JobsFit /\ ReadingIsCurrent /\ Knowledge
    BY DEF Init, SectionHoldsLock, JobsFit, ReadingIsCurrent, Knowledge, InSection
  <1>4. DoneRootIsQuiet /\ HalvesAreTraced /\ AtMostOneLink
    BY DEF Init, DoneRootIsQuiet, HalvesAreTraced, AtMostOneLink, IsChild, NoSeats
  <1> QED
    BY <1>2, <1>3, <1>4 DEF Inv

\* Leaving a section, from any label, keeps the types of what it writes.
LEMMA LeaveTypes ==
    ASSUME TypeOK, NEW p \in Procs, Leave(p)
    PROVE  /\ pc' \in [Procs -> PCs] /\ job' \in [Procs -> Jobs]
           /\ at' \in [Procs -> Children \cup {None}] /\ snapshot' \in [Procs -> Seats]
           /\ lock' \in Procs \cup {None}
  BY DEF TypeOK, Leave, Goto, PCs, Jobs, Seats, SeatStates, NoSeats

LEMMA TypeStep == TypeOK /\ JobsFit /\ [Next]_vars => TypeOK'
  <1> SUFFICES ASSUME TypeOK, JobsFit, [Next]_vars PROVE TypeOK'
    OBVIOUS
  <1> USE BoundsAssumption DEF TypeOK, Goto, PCs, Jobs, disk, local
  <1>1. CASE UNCHANGED vars
    BY <1>1 DEF vars
  <1>2. ASSUME NEW p \in Procs, Begin(p) \/ BeginClose(p) \/ TakeLock(p) \/ GiveUp(p) \/ Crash(p)
        PROVE TypeOK'
    BY <1>2 DEF Begin, BeginClose, TakeLock, GiveUp, Crash, At
  <1>3. ASSUME NEW p \in Procs,
               CheckCreate(p) \/ CheckRecover(p) \/ CheckAdd(p) \/ CheckClose(p)
        PROVE TypeOK'
    <2>1. CASE Leave(p) /\ UNCHANGED <<disk, running, refusals>>
      BY <2>1, LeaveTypes
    <2>2. CASE (\E l \in PCs : Goto(p, l)) /\ UNCHANGED <<disk, running, refusals, lock, local>>
      BY <2>2
    <2> QED
      BY <1>3, <2>1, <2>2 DEF CheckCreate, CheckRecover, CheckAdd, CheckClose
  <1>4. ASSUME NEW p \in Procs, WriteLink(p) \/ WriteSeat(p) PROVE TypeOK'
    <2>1. CASE WriteLink(p)
      BY <2>1 DEF WriteLink, JobsFit, At
    <2>2. CASE WriteSeat(p)
      <3>1. snapshot[p] \in Seats
        OBVIOUS
      <3>2. seats' \in Seats
        BY <2>2, <3>1 DEF WriteSeat, Seats, SeatStates
      <3> QED
        BY <2>2, <3>2 DEF WriteSeat
    <2> QED
      BY <1>4, <2>1, <2>2
  <1>5. ASSUME NEW p \in Procs, WriteChild(p) PROVE TypeOK'
    <2>1. CASE Leave(p) /\ UNCHANGED <<disk, running, refusals>>
      BY <2>1, LeaveTypes
    <2>2. CASE /\ journal' \in [Children -> Journals]
               /\ \E l \in PCs : Goto(p, l)
               /\ UNCHANGED <<rootDone, seats, links, running, refusals, lock, local>>
      BY <2>2
    <2>3. journal[at[p]] = "absent" => journal' \in [Children -> Journals]
      BY <1>5 DEF WriteChild, Journals
    <2> QED
      BY <1>5, <2>1, <2>2, <2>3 DEF WriteChild
  <1>6. ASSUME NEW p \in Procs, UndoLink(p) \/ RemoveLink(p) \/ WriteAdd(p) \/ WriteClose(p)
        PROVE TypeOK'
    <2>1. snapshot[p] \in Seats
      OBVIOUS
    <2>2. seats' \in Seats
      BY <1>6, <2>1 DEF UndoLink, RemoveLink, WriteAdd, WriteClose, Seats, SeatStates
    <2>3. links' \subseteq Children /\ rootDone' \in BOOLEAN /\ UNCHANGED <<journal, running, refusals>>
      BY <1>6 DEF UndoLink, RemoveLink, WriteAdd, WriteClose
    <2>4. Leave(p)
      BY <1>6 DEF UndoLink, RemoveLink, WriteAdd, WriteClose
    <2> QED
      BY <2>2, <2>3, <2>4, LeaveTypes
  <1>7. ASSUME NEW p \in Procs, Refuse(p) PROVE TypeOK'
    BY <1>7, LeaveTypes DEF Refuse
  <1>8. ASSUME NEW c \in Children, CloseChild(c) \/ CreateForeign(c) PROVE TypeOK'
    BY <1>8 DEF CloseChild, CreateForeign, Journals
  <1> QED
    BY <1>1, <1>2, <1>3, <1>4, <1>5, <1>6, <1>7, <1>8 DEF Next, Step

----------------------------------------------------------------------------
\* Every step keeps the inductive invariant.
LEMMA InductiveStep == Inv /\ [Next]_vars => Inv'
  <1> SUFFICES ASSUME Inv, [Next]_vars PROVE Inv'
    OBVIOUS
  <1>0. TypeOK'
    BY TypeStep DEF Inv
  <1> USE NoneAssumption DEF Inv, TypeOK, SectionHoldsLock, JobsFit, ReadingIsCurrent, Knowledge,
          Quiet, DoneRootIsQuiet, HalvesAreTraced, AtMostOneLink, InSection, IsChild,
          At, Goto, disk, local
  <1>1. CASE UNCHANGED vars
    BY <1>0, <1>1 DEF vars
  <1>2. ASSUME NEW p \in Procs, Begin(p) PROVE Inv'
    BY <1>0, <1>2 DEF Begin
  <1>3. ASSUME NEW p \in Procs, BeginClose(p) PROVE Inv'
    BY <1>0, <1>3 DEF BeginClose
  <1>4. ASSUME NEW p \in Procs, TakeLock(p) PROVE Inv'
    BY <1>0, <1>4 DEF TakeLock, Free
  <1>5. ASSUME NEW p \in Procs, CheckCreate(p) PROVE Inv'
    BY <1>0, <1>5 DEF CheckCreate, Leave
  <1>6. ASSUME NEW p \in Procs, WriteLink(p) PROVE Inv'
    BY <1>0, <1>6 DEF WriteLink
  <1>7. ASSUME NEW p \in Procs, WriteChild(p) PROVE Inv'
    BY <1>0, <1>7 DEF WriteChild, Leave
  <1>8. ASSUME NEW p \in Procs, UndoLink(p) PROVE Inv'
    BY <1>0, <1>8 DEF UndoLink, Leave
  <1>9. ASSUME NEW p \in Procs, WriteSeat(p) PROVE Inv'
    BY <1>0, <1>9 DEF WriteSeat, Seats, SeatStates
  <1>10. ASSUME NEW p \in Procs, RemoveLink(p) PROVE Inv'
    BY <1>0, <1>10 DEF RemoveLink, Leave
  <1>11. ASSUME NEW p \in Procs, CheckRecover(p) PROVE Inv'
    <2>1. SectionHoldsLock' /\ JobsFit' /\ ReadingIsCurrent'
      BY <1>11 DEF CheckRecover, Leave
    <2>2. Knowledge'
      <3> DEFINE c == at[p]
      <3>1. UNCHANGED disk /\ UNCHANGED running /\ snapshot[p] = seats /\ c \in Children
        BY <1>11 DEF CheckRecover
      <3>2. \A q \in running : q # p => pc'[q] = pc[q] /\ pc[q] \in {"idle", "lock"}
        BY <1>11 DEF CheckRecover, Leave
      <3>3. \/ pc'[p] = "idle"
            \/ /\ c \in links /\ seats[c] # "plain" /\ journal[c] # "foreign" /\ at'[p] = c
               /\ pc'[p] = IF journal[c] = "absent" THEN "child"
                          ELSE IF seats[c] = "free" THEN "seat" ELSE "unlink"
        BY <1>11, <3>1 DEF CheckRecover, Leave
      <3>4. seats[c] \in SeatStates /\ journal[c] \in Journals
        BY <3>1 DEF Seats
      <3>5. pc'[p] # "idle" =>
              /\ pc'[p] = "child" => c \in links' /\ seats'[c] = "free" /\ ~IsChild(c)'
              /\ pc'[p] = "seat" => c \in links' /\ seats'[c] = "free" /\ IsChild(c)'
              /\ pc'[p] = "unlink" => seats'[c] = "linked" /\ IsChild(c)'
              /\ pc'[p] \in {"child", "seat", "unlink"}
        BY <3>1, <3>3, <3>4 DEF SeatStates, Journals
      <3> QED
        BY <3>1, <3>2, <3>3, <3>5
    <2>3. DoneRootIsQuiet' /\ HalvesAreTraced' /\ AtMostOneLink'
      BY <1>11 DEF CheckRecover, Leave
    <2> QED
      BY <1>0, <2>1, <2>2, <2>3
  <1>12. ASSUME NEW p \in Procs, CheckAdd(p) PROVE Inv'
    BY <1>0, <1>12 DEF CheckAdd, Leave
  <1>13. ASSUME NEW p \in Procs, WriteAdd(p) PROVE Inv'
    BY <1>0, <1>13 DEF WriteAdd, Leave, Seats, SeatStates
  <1>14. ASSUME NEW p \in Procs, CheckClose(p) PROVE Inv'
    BY <1>0, <1>14 DEF CheckClose, Leave
  <1>15. ASSUME NEW p \in Procs, WriteClose(p) PROVE Inv'
    BY <1>0, <1>15 DEF WriteClose, Leave
  <1>16. ASSUME NEW p \in Procs, Refuse(p) PROVE Inv'
    BY <1>0, <1>16 DEF Refuse, Leave
  <1>17. ASSUME NEW p \in Procs, GiveUp(p) PROVE Inv'
    BY <1>0, <1>17 DEF GiveUp
  <1>18. ASSUME NEW p \in Procs, Crash(p) PROVE Inv'
    BY <1>0, <1>18 DEF Crash
  <1>19. ASSUME NEW c \in Children, CloseChild(c) PROVE Inv'
    BY <1>0, <1>19 DEF CloseChild
  <1>20. ASSUME NEW c \in Children, CreateForeign(c) PROVE Inv'
    BY <1>0, <1>20 DEF CreateForeign
  <1> QED
    BY <1>1, <1>2, <1>3, <1>4, <1>5, <1>6, <1>7, <1>8, <1>9, <1>10, <1>11, <1>12, <1>13, <1>14, <1>15, <1>16, <1>17, <1>18, <1>19, <1>20
    DEF Next, Step

THEOREM Invariance == Spec => []Inv
  BY InitInv, InductiveStep, PTL DEF Spec

----------------------------------------------------------------------------
\* Every variable keeps its type.
THEOREM TypeCorrect == Spec => []TypeOK
  BY Invariance, PTL DEF Inv

\* Under a closed root no child is active and no link could make one, through
\* any crash of a creator, a recoverer or a closer.
THEOREM ClosedRootIsQuiet == Spec => []DoneRootIsQuiet
  BY Invariance, PTL DEF Inv

\* A child whose teamlead has no seat is named by a link; a linked seat has
\* its child.
THEOREM PairsAreTraced == Spec => []HalvesAreTraced
  BY Invariance, PTL DEF Inv

\* One unfinished creation of a root at a time.
THEOREM LinksAreSingle == Spec => []OneLinkAtATime
  <1>1. Inv => OneLinkAtATime
    <2> SUFFICES ASSUME Inv PROVE Cardinality(links) <= 1
      BY DEF OneLinkAtATime
    <2>1. CASE links = {}
      BY <2>1, FS_EmptySet
    <2>2. CASE links # {}
      <3> PICK c \in links : links = {c}
        BY <2>2 DEF Inv, AtMostOneLink
      <3> QED
        BY FS_Singleton
    <2> QED
      BY <2>1, <2>2
  <1> QED
    BY <1>1, Invariance, PTL

\* Whatever number of processes and children: the parts above together.
THEOREM TreeTraced == Spec => []TreeIsTraced
  BY TypeCorrect, PairsAreTraced, LinksAreSingle, PTL DEF TreeIsTraced

\* No concurrent journal write loses or changes a participant.
THEOREM SeatsSafe == Spec => SeatsAreKept
  <1>1. Inv /\ [Next]_vars => [\A c \in Children : seats[c] # "free" => seats'[c] = seats[c]]_vars
    <2> SUFFICES ASSUME Inv, Next, NEW c \in Children, seats[c] # "free" PROVE seats'[c] = seats[c]
      BY DEF vars
    <2> USE DEF Inv, TypeOK, ReadingIsCurrent, Knowledge, InSection, Seats, disk, At
    <2>1. ASSUME NEW p \in Procs, WriteSeat(p) PROVE seats'[c] = seats[c]
      BY <2>1 DEF WriteSeat
    <2>2. ASSUME NEW p \in Procs, WriteAdd(p) PROVE seats'[c] = seats[c]
      BY <2>2 DEF WriteAdd
    <2>3. ASSUME NEW p \in Procs, WriteClose(p) PROVE seats'[c] = seats[c]
      BY <2>3 DEF WriteClose
    <2> QED
      BY <2>1, <2>2, <2>3 DEF Next, Step, Begin, BeginClose, TakeLock, CheckCreate, WriteLink,
         WriteChild, UndoLink, RemoveLink, CheckRecover, CheckAdd, CheckClose, Refuse, GiveUp,
         Crash, CloseChild, CreateForeign
  <1> QED
    BY <1>1, Invariance, PTL DEF Spec, SeatsAreKept

\* A journal is never replaced and a closed child never reopened.
THEOREM JournalsSafe == Spec => JournalsAreKept
  <1> DEFINE Kept == \A c \in Children :
          /\ journal[c] = "active" => journal'[c] \in {"active", "done"}
          /\ journal[c] \in {"done", "foreign"} => journal'[c] = journal[c]
  <1>1. Inv /\ [Next]_vars => [Kept]_vars
    BY DEF Inv, TypeOK, Journals, disk, vars, Next, Step, Begin, BeginClose, TakeLock, CheckCreate,
       WriteLink, WriteChild, UndoLink, WriteSeat, RemoveLink, CheckRecover, CheckAdd, WriteAdd,
       CheckClose, WriteClose, Refuse, GiveUp, Crash, CloseChild, CreateForeign
  <1> QED
    BY <1>1, Invariance, PTL DEF Spec, JournalsAreKept
=============================================================================
