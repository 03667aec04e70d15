------------------------------ MODULE OneLead ------------------------------
(***************************************************************************)
(* What the two journals of a teamlead and the rebind file between them     *)
(* promise: one register that names the teamlead's session, and a copy of   *)
(* it in each journal.  The register is replaced in one step, by a newer    *)
(* session, and only when both copies show the last one; after that the     *)
(* copies only catch up, the child's first.  No processes, locks, crashes   *)
(* or stops.  TeamleadRebind implements this specification.                 *)
(***************************************************************************)
EXTENDS Naturals

VARIABLES
    bound,      \* the session the teamlead is bound to
    ofChild,    \* the copy in the child task's journal
    ofRoot      \* the copy in the root task's journal

vars == <<bound, ofChild, ofRoot>>

Init == bound = 0 /\ ofChild = 0 /\ ofRoot = 0

Replace ==
    /\ ofChild = bound /\ ofRoot = bound
    /\ bound' \in Nat /\ bound' > bound
    /\ UNCHANGED <<ofChild, ofRoot>>

ChildCatchesUp ==
    /\ ofChild' = bound
    /\ UNCHANGED <<bound, ofRoot>>

RootCatchesUp ==
    /\ ofChild = bound
    /\ ofRoot' = bound
    /\ UNCHANGED <<bound, ofChild>>

Next == Replace \/ ChildCatchesUp \/ RootCatchesUp

Spec == Init /\ [][Next]_vars
=============================================================================
