---------------------------- MODULE MessageOrder ----------------------------
(***************************************************************************)
(* The logical order of message ids in one store: src/v1/message-order.ts. *)
(* The ids of committed messages and assignment boundaries rise although   *)
(* the wall clock may stand still or go back, a reservation may be lost to *)
(* a crash, and the head file may be lost or damaged and rebuilt.  Every   *)
(* operation runs under the store's message-commit lock (MessageStore has  *)
(* the interleavings); here one operation is one or two steps.             *)
(***************************************************************************)
EXTENDS Naturals

CONSTANTS
    MaxStamp,    \* the last millisecond the id encoding can hold
    MaxCounter,  \* 9999 in the code
    NoId

Id == [stamp : 0..MaxStamp, counter : 0..MaxCounter]

ASSUME OrderBounds == MaxStamp \in Nat /\ MaxCounter \in Nat
ASSUME NoIdAssumption == NoId \notin Id

VARIABLES
    clock,       \* the wall clock of the next writer
    file,        \* message-order.json: "valid", "missing" or "malformed"
    headId,        \* the id in a valid file, NoId for null
    reserved,    \* an id reserved and not yet published, under the lock
    retained,    \* ids of messages, intents and assignment boundaries on disk
    unreadable   \* broken/messages holds a record nobody repaired

orderVars == <<clock, file, headId, reserved, retained, unreadable>>

\* Ids compare as strings of fixed-width digits: first stamp, then counter.
Less(a, b) ==
    a.stamp < b.stamp \/ (a.stamp = b.stamp /\ a.counter < b.counter)
AtMost(a, b) == a = b \/ Less(a, b)

OrderTypeOK ==
    /\ clock \in 0..MaxStamp
    /\ file \in {"valid", "missing", "malformed"}
    /\ headId \in Id \cup {NoId}
    /\ reserved \in Id \cup {NoId}
    /\ retained \subseteq Id
    /\ unreadable \in BOOLEAN

OrderInit ==
    /\ clock = 0
    /\ file = "missing"
    /\ headId = NoId
    /\ reserved = NoId
    /\ retained = {}
    /\ unreadable = FALSE

\* The id above a head: the clock if it is ahead, else the head's stamp with
\* the next counter, carried into the next millisecond when it is full.
Succ(h) ==
    IF h = NoId \/ clock > h.stamp THEN [stamp |-> clock, counter |-> 0]
    ELSE IF h.counter < MaxCounter THEN [h EXCEPT !.counter = @ + 1]
    ELSE [stamp |-> h.stamp + 1, counter |-> 0]

\* A missing head stands for null only in a store that retains nothing; a
\* malformed head, or evidence that does not read, refuses.
\* mutant: a missing head is taken for an empty store.
BaseIsAssumed == file \in {"valid", "missing"}
BaseIsKnown ==
    \/ file = "valid"
    \/ file = "missing" /\ retained = {} /\ ~unreadable
Base == IF file = "valid" THEN headId ELSE NoId

ReserveMessageId ==
    /\ reserved = NoId
    /\ BaseIsKnown
    /\ Succ(Base).stamp <= MaxStamp
    /\ file' = "valid"
    /\ headId' = Succ(Base)
    /\ reserved' = Succ(Base)
    /\ UNCHANGED <<clock, retained, unreadable>>

\* The intent is created or the boundary written: the id is on disk.
Publish ==
    /\ reserved # NoId
    /\ retained' = retained \cup {reserved}
    /\ reserved' = NoId
    /\ UNCHANGED <<clock, file, headId, unreadable>>

\* The writer crashes or is refused after the head was replaced: a gap.
LoseReservation ==
    /\ reserved # NoId
    /\ reserved' = NoId
    /\ UNCHANGED <<clock, file, headId, retained, unreadable>>

\* mutant: the first record found is the head.
IsAny(h) == h \in retained
IsHighest(h) == h \in retained /\ \A r \in retained : AtMost(r, h)

\* message-order rebuild: the higher of a valid head and the evidence.
RebuildMessageOrder ==
    /\ reserved = NoId
    /\ ~unreadable
    /\ file' = "valid"
    /\ \/ retained = {} /\ headId' = Base
       \/ \E h \in retained :
             /\ IsHighest(h)
             /\ headId' = IF Base # NoId /\ Less(h, Base) THEN Base ELSE h
    /\ UNCHANGED <<clock, reserved, retained, unreadable>>

----------------------------------------------------------------------------
(* What happens around the allocator.                                      *)

\* Clocks advance, stand, and roll back; another writer's clock differs.
ClockReads ==
    /\ clock' \in 0..MaxStamp
    /\ UNCHANGED <<file, headId, reserved, retained, unreadable>>

\* The head file is lost or damaged from outside.
DamageHead ==
    /\ file' \in {"missing", "malformed"}
    /\ headId' = NoId
    /\ UNCHANGED <<clock, reserved, retained, unreadable>>

\* engine.prune removes a closed task with its records and boundaries, and
\* an assignment or a lift replaces a boundary.
DropRecords ==
    /\ \E r \in retained : retained' = retained \ {r}
    /\ UNCHANGED <<clock, file, headId, reserved, unreadable>>

\* Recovery quarantines a torn intent: its id is no evidence any more.
QuarantineRecord ==
    /\ reserved = NoId
    /\ \E r \in retained : retained' = retained \ {r}
    /\ unreadable' = TRUE
    /\ UNCHANGED <<clock, file, headId, reserved>>

\* A person repairs broken/messages.
Repair ==
    /\ unreadable
    /\ unreadable' = FALSE
    /\ UNCHANGED <<clock, file, headId, reserved, retained>>

OrderNext ==
    \/ ReserveMessageId \/ Publish \/ LoseReservation \/ RebuildMessageOrder
    \/ ClockReads \/ DamageHead \/ DropRecords \/ QuarantineRecord \/ Repair

OrderSpec == OrderInit /\ [][OrderNext]_orderVars

----------------------------------------------------------------------------
(* Properties *)

\* A valid head bounds everything on disk and whatever is being published:
\* no rebuild, crash, clock or loss of the head ever sets it too low.
HeadBoundsEvidence ==
    file = "valid" =>
        \A r \in retained \cup ({reserved} \ {NoId}) : headId # NoId /\ AtMost(r, headId)

\* The head is an id of the encoding, so none was reserved past its end, and
\* bounds the evidence.
HeadIsSound == OrderTypeOK /\ HeadBoundsEvidence

\* A new id is above every retained id: commit order is id order.
NewIdsAreAbove ==
    [][ reserved = NoId /\ reserved' # NoId => \A r \in retained : Less(r, reserved') ]_orderVars

\* A valid head is never replaced by a lower one, by reservation or rebuild.
HeadNeverFalls ==
    [][ file = "valid" /\ file' = "valid" /\ headId # NoId => headId' # NoId /\ AtMost(headId, headId') ]_orderVars
=============================================================================
