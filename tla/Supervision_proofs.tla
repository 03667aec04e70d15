-------------------------- MODULE Supervision_proofs --------------------------
(***************************************************************************)
(* Proofs about Supervision, for any mail, sessions and thresholds: that    *)
(* the marks of the health record belong together, that coverage is earned, *)
(* and that knocks are spaced.  The record is written after an answer, from *)
(* a draft made before the question: the invariant says of the draft what   *)
(* it says of the record, and what the two have to do with each other while *)
(* the driver is asked.                                                     *)
(***************************************************************************)
EXTENDS Supervision, FiniteSetTheorems, WellFoundedInduction, TLAPS

\* MarkIsCoherent of one mark.
Coherent(h) ==
    /\ h.unread = 0 <=> h.since = None
    /\ h.unread = 0 => h.tried = None /\ ~h.escalated
    /\ h.knocked # None => h.tried # None /\ h.session # 0
    /\ h.coalesced \/ h.first # None => h.knocked # None

\* What the draft of a round that asks the driver owes to the record.
DraftStands ==
    phase = "knock" =>
        /\ draft.wake \in Sessions /\ draft.tried # None /\ draft.unread > 0 /\ ~draft.tryKnocked
        /\ draft.covered # None =>
              /\ health.covered # None /\ draft.covered \subseteq health.covered
              /\ draft.session = health.session /\ draft.wake = health.session

\* The mark a later round will go on from.
Mark == IF phase = "knock" THEN draft ELSE health

\* While nothing but mail came since the last attempt, its mark tells what
\* there is,
AttemptStands ==
    news # "more" =>
        /\ inbox # {} /\ point = owner
        /\ Mark.unread > 0 /\ Mark.tried # None /\ Mark.wake = point
        /\ Mark.first # None => Mark.first \in inbox
        /\ phase = "knock" => sampled \subseteq inbox
        /\ news = "none" => inbox \subseteq Mark.observed

\* and if the driver accepted it, the session it was about and how long ago.
AcceptedStands ==
    news # "more" /\ Mark.tryKnocked =>
        /\ Mark.covered # None /\ Mark.session = point
        /\ Mark.knocked # None /\ Mark.knocked <= Mark.tried
        /\ news = "none" => ~Mark.coalesced

IInv ==
    /\ TypeOK
    /\ Coherent(health) /\ Coherent(draft)
    /\ DraftStands
    /\ AttemptStands
    /\ AcceptedStands

----------------------------------------------------------------------------
(* Numbers of mail.                                                         *)

\* A set of mail is finite and no larger than all mail.
LEMMA MailCount ==
    ASSUME NEW some, some \subseteq Mail
    PROVE  Cardinality(some) \in 0..MaxMail /\ (Cardinality(some) = 0 <=> some = {})
  <1>1. IsFiniteSet(Mail) /\ Cardinality(Mail) = MaxMail
    BY FS_Interval, SupervisionAssumption DEF Mail
  <1>2. IsFiniteSet(some) /\ Cardinality(some) <= MaxMail
    BY <1>1, FS_Subset
  <1>3. Cardinality(some) \in Nat
    BY <1>2, FS_CardinalityType
  <1>4. Cardinality(some) = 0 <=> some = {}
    BY <1>2, FS_EmptySet
  <1> QED
    BY <1>2, <1>3, <1>4, SupervisionAssumption

\* The larger of two numbers is one of them.
LEMMA MaxOfTwo ==
    ASSUME NEW a \in Nat, NEW b \in Nat
    PROVE  Max({a, b}) \in {a, b} /\ Max({a, b}) >= a /\ Max({a, b}) >= b
  <1>1. \E x \in {a, b} : \A y \in {a, b} : x >= y
    <2>1. CASE a >= b
      BY <2>1
    <2>2. CASE b >= a
      BY <2>2
    <2> QED
      BY <2>1, <2>2
  <1>2. Max({a, b}) \in {a, b} /\ \A y \in {a, b} : Max({a, b}) >= y
    BY <1>1 DEF Max
  <1> QED
    BY <1>2

\* The oldest of some mail is one of them.
LEMMA MinOfMail ==
    ASSUME NEW some, some \subseteq Mail, some # {}
    PROVE  Min(some) \in some
  <1>1. some \subseteq Nat
    BY DEF Mail
  <1>2. PICK x \in some : \A y \in some : <<y, x>> \notin OpToRel(<, Nat)
    BY <1>1, WFMin, NatLessThanWellFounded, Zenon
  <1>3. \A y \in some : ~(y < x)
    BY <1>1, <1>2 DEF OpToRel
  <1>4. \A y \in some : x <= y
    BY <1>1, <1>3
  <1> QED
    BY <1>4 DEF Min

----------------------------------------------------------------------------
(* What a round sees and carries over.                                      *)

\* The observed mail, and its number.
LEMMA Seen ==
    ASSUME TypeOK, NEW complete \in BOOLEAN
    PROVE  /\ Observed(complete) \subseteq Mail
           /\ Unread(complete) \in 0..MaxMail
           /\ ~complete => Unread(complete) >= health.unread
           /\ ~complete => Observed(complete) = health.observed
           /\ complete => Observed(complete) = inbox
           /\ complete => (Unread(complete) = 0 <=> inbox = {})
  <1>1. /\ health.observed \subseteq Mail /\ inbox \subseteq Mail
        /\ health.unread \in 0..MaxMail
    BY DEF TypeOK, Marks
  <1>2. /\ ~complete => Observed(complete) = health.observed
        /\ complete => Observed(complete) = inbox
    BY DEF Observed, Retained
  <1>3. Observed(complete) \subseteq Mail
    BY <1>1, <1>2
  <1>4. /\ Cardinality(Observed(complete)) \in 0..MaxMail
        /\ Cardinality(Observed(complete)) = 0 <=> Observed(complete) = {}
    BY <1>3, MailCount
  <1>5. CASE complete
    <2>1. Unread(complete) = Cardinality(Observed(complete))
      BY <1>5 DEF Unread
    <2> QED
      BY <1>2, <1>3, <1>4, <1>5, <2>1
  <1>6. CASE ~complete
    <2>1. Unread(complete) = Max({Cardinality(Observed(complete)), health.unread})
      BY <1>6 DEF Unread
    <2>2. Cardinality(Observed(complete)) \in Nat /\ health.unread \in Nat
      BY <1>1, <1>4, SupervisionAssumption
    <2>3. /\ Unread(complete) \in {Cardinality(Observed(complete)), health.unread}
          /\ Unread(complete) >= health.unread
      BY <2>1, <2>2, MaxOfTwo
    <2> QED
      BY <1>1, <1>2, <1>3, <1>4, <1>6, <2>3
  <1> QED
    BY <1>5, <1>6

\* A round that starts afresh: a take, or the first mail of an empty box.
Afresh(complete) == Took(complete) \/ (Unread(complete) > 0 /\ health.unread = 0)

KeptCovered(complete) == IF Baseline THEN Covered(complete) ELSE None

\* The fields of what is carried over.
LEMMA CarriedFields ==
    ASSUME TypeOK, NEW complete \in BOOLEAN, NEW h, h = Carried(complete)
    PROVE  /\ h \in Marks
           /\ h.unread = Unread(complete) /\ h.observed = Observed(complete)
           /\ h.covered = KeptCovered(complete)
           /\ h.session = health.session /\ h.wake = health.wake
           /\ Afresh(complete) =>
                 /\ h.since = IF Unread(complete) = 0 THEN None ELSE 0
                 /\ h.knocked = None /\ h.tried = None /\ h.tryKnocked
                 /\ ~h.coalesced /\ h.first = None /\ ~h.escalated
           /\ ~Afresh(complete) =>
                 /\ h.since = health.since /\ h.knocked = health.knocked
                 /\ h.tried = health.tried /\ h.tryKnocked = health.tryKnocked
                 /\ h.coalesced = health.coalesced /\ h.first = health.first
                 /\ h.escalated = health.escalated
  <1> DEFINE kept == [health EXCEPT !.observed = Observed(complete),
                                    !.covered = KeptCovered(complete),
                                    !.unread = Unread(complete)]
             fresh == [Forgotten(kept) EXCEPT !.since = IF Unread(complete) = 0 THEN None ELSE 0]
  <1>1. health \in Marks
    BY DEF TypeOK
  <1>2. KeptCovered(complete) \in {None} \cup SUBSET Mail
    BY <1>1 DEF KeptCovered, Covered, Baseline, Retained, Marks
  <1>3. /\ kept \in Marks
        /\ kept.unread = Unread(complete) /\ kept.observed = Observed(complete)
        /\ kept.covered = KeptCovered(complete)
        /\ kept.session = health.session /\ kept.wake = health.wake
        /\ kept.since = health.since /\ kept.knocked = health.knocked
        /\ kept.tried = health.tried /\ kept.tryKnocked = health.tryKnocked
        /\ kept.coalesced = health.coalesced /\ kept.first = health.first
        /\ kept.escalated = health.escalated
    BY <1>1, <1>2, Seen, ZenonT(60) DEF Marks
  <1>4. /\ fresh \in Marks
        /\ fresh.unread = kept.unread /\ fresh.observed = kept.observed
        /\ fresh.covered = kept.covered
        /\ fresh.session = kept.session /\ fresh.wake = kept.wake
        /\ fresh.since = IF Unread(complete) = 0 THEN None ELSE 0
        /\ fresh.knocked = None /\ fresh.tried = None /\ fresh.tryKnocked
        /\ ~fresh.coalesced /\ fresh.first = None /\ ~fresh.escalated
    <2> DEFINE forgot == Forgotten(kept)
    <2> HIDE DEF kept
    <2>1. /\ forgot \in Marks
          /\ forgot.unread = kept.unread /\ forgot.observed = kept.observed
          /\ forgot.covered = kept.covered
          /\ forgot.session = kept.session /\ forgot.wake = kept.wake
          /\ forgot.knocked = None /\ forgot.tried = None /\ forgot.tryKnocked
          /\ ~forgot.coalesced /\ forgot.first = None /\ ~forgot.escalated
      BY <1>3 DEF Forgotten, Marks
    <2>2. \A s \in {None} \cup 0..Silence :
             LET t == [forgot EXCEPT !.since = s]
             IN  /\ t \in Marks /\ t.since = s
                 /\ t.unread = forgot.unread /\ t.observed = forgot.observed
                 /\ t.covered = forgot.covered
                 /\ t.session = forgot.session /\ t.wake = forgot.wake
                 /\ t.knocked = forgot.knocked /\ t.tried = forgot.tried
                 /\ t.tryKnocked = forgot.tryKnocked
                 /\ t.coalesced = forgot.coalesced /\ t.first = forgot.first
                 /\ t.escalated = forgot.escalated
      <3> HIDE DEF forgot
      <3> QED
        BY <2>1 DEF Marks
    <2>3. (IF Unread(complete) = 0 THEN None ELSE 0) \in {None} \cup 0..Silence
      BY SupervisionAssumption
    <2> HIDE DEF forgot
    <2>4. fresh = [forgot EXCEPT !.since = IF Unread(complete) = 0 THEN None ELSE 0]
      BY DEF forgot
    <2> QED
      BY <2>1, <2>2, <2>3, <2>4, ZenonT(60)
  <1>5. h = IF Afresh(complete) THEN fresh ELSE kept
    BY DEF Carried, Afresh, KeptCovered
  <1> HIDE DEF kept, fresh
  <1> QED
    BY <1>3, <1>4, <1>5

\* It is coherent when the record was.
LEMMA CarriedIsCoherent ==
    ASSUME TypeOK, Coherent(health), NEW complete \in BOOLEAN
    PROVE  Coherent(Carried(complete))
  <1> DEFINE h == Carried(complete)
  <1>1. /\ h.unread = Unread(complete) /\ h.session = health.session
        /\ Afresh(complete) =>
              /\ h.since = IF Unread(complete) = 0 THEN None ELSE 0
              /\ h.knocked = None /\ h.tried = None /\ ~h.coalesced /\ h.first = None /\ ~h.escalated
        /\ ~Afresh(complete) =>
              /\ h.since = health.since /\ h.knocked = health.knocked /\ h.tried = health.tried
              /\ h.coalesced = health.coalesced /\ h.first = health.first
              /\ h.escalated = health.escalated
    BY CarriedFields
  <1>2. Unread(complete) \in Nat /\ health.unread \in Nat
    BY Seen, SupervisionAssumption DEF TypeOK, Marks
  <1>3. ~Afresh(complete) => (Unread(complete) = 0 <=> health.unread = 0)
    <2>1. ~complete => Unread(complete) >= health.unread
      BY Seen
    <2> QED
      BY <1>2, <2>1 DEF Afresh, Took
  <1> HIDE DEF h
  <1>4. Afresh(complete) => Coherent(h)
    BY <1>1, SupervisionAssumption DEF Coherent
  <1>5. ~Afresh(complete) => Coherent(h)
    BY <1>1, <1>3 DEF Coherent
  <1>6. Coherent(h)
    BY <1>4, <1>5
  <1> QED
    BY <1>6 DEF h

----------------------------------------------------------------------------
(* What a round writes.                                                     *)

\* The marks t and h say the same but for the knock on the session.
SameBut(t, h) ==
    /\ t.unread = h.unread /\ t.observed = h.observed /\ t.covered = h.covered
    /\ t.session = h.session /\ t.since = h.since /\ t.knocked = h.knocked
    /\ t.first = h.first

\* The note of silence is of the silence only.
LEMMA EscalatedFields ==
    ASSUME NEW h \in Marks, NEW t, t = Escalated(h)
    PROVE  /\ t \in Marks /\ SameBut(t, h) /\ t.wake = h.wake /\ t.tried = h.tried
           /\ t.tryKnocked = h.tryKnocked /\ t.coalesced = h.coalesced
  <1>1. t = [h EXCEPT !.escalated = h.escalated \/ Silent(h)]
    BY DEF Escalated
  <1>2. (h.escalated \/ Silent(h)) \in BOOLEAN
    BY Zenon
  <1> QED
    BY <1>1, <1>2, ZenonT(60) DEF Marks, SameBut

\* What a round without a knock notes down.
LEMMA NotedFields ==
    ASSUME NEW h \in Marks, NEW complete \in BOOLEAN, NEW view, NEW t, t = Noted(h, complete, view)
    PROVE  /\ t \in Marks /\ SameBut(t, h) /\ t.tried = h.tried /\ t.tryKnocked = h.tryKnocked
           /\ t.escalated = h.escalated
           /\ t.wake = h.wake \/ (t.wake = NoPoint /\ (point = NoPoint \/ point # owner))
           /\ t.coalesced =>
                 \/ h.coalesced
                 \/ /\ Arrivals(complete) # {} /\ ~Held(h, view)
                    /\ point # NoPoint /\ point = owner
  <1>1. CASE t = h
    BY <1>1 DEF SameBut
  <1>2. CASE t = [h EXCEPT !.wake = NoPoint] /\ (point = NoPoint \/ point # owner)
    BY <1>2 DEF SameBut, Marks
  <1>3. CASE /\ t = [h EXCEPT !.coalesced = h.coalesced \/ Arrivals(complete) # {}]
             /\ ~Held(h, view) /\ point # NoPoint /\ point = owner
    <2>1. (h.coalesced \/ Arrivals(complete) # {}) \in BOOLEAN
      BY Zenon
    <2>2. /\ t \in Marks /\ SameBut(t, h) /\ t.tried = h.tried /\ t.tryKnocked = h.tryKnocked
          /\ t.escalated = h.escalated /\ t.wake = h.wake
      BY <1>3, <2>1, ZenonT(60) DEF SameBut, Marks
    <2>3. t.coalesced = (h.coalesced \/ Arrivals(complete) # {})
      BY <1>3, <2>1 DEF Marks
    <2> QED
      BY <1>3, <2>2, <2>3
  <1> QED
    BY <1>1, <1>2, <1>3 DEF Noted

\* The draft of a knock.
LEMMA DraftFields ==
    ASSUME NEW h \in Marks, point \in Sessions, NEW t,
           t = [Escalated(h) EXCEPT !.tried = 0, !.tryKnocked = FALSE, !.wake = point]
    PROVE  /\ t \in Marks /\ SameBut(t, h) /\ t.tried = 0 /\ ~t.tryKnocked /\ t.wake = point
           /\ t.coalesced = h.coalesced
  <1> DEFINE e == Escalated(h)
  <1>1. e \in Marks /\ SameBut(e, h) /\ e.coalesced = h.coalesced
    BY EscalatedFields
  <1>2. t = [e EXCEPT !.tried = 0, !.tryKnocked = FALSE, !.wake = point]
    OBVIOUS
  <1>3. 0 \in 0..Retry
    BY SupervisionAssumption
  <1> HIDE DEF e
  <1> QED
    BY <1>1, <1>2, <1>3, ZenonT(60) DEF Marks, SameBut

\* The mark after an accepted knock.
LEMMA AcceptedFields ==
    ASSUME TypeOK, draft.wake \in Sessions, Answer(TRUE)
    PROVE  /\ health' \in Marks
           /\ health'.tryKnocked /\ health'.knocked = 0 /\ ~health'.coalesced /\ health'.session = draft.wake
           /\ health'.covered = (IF draft.covered = None THEN {} ELSE draft.covered) \cup sampled
           /\ health'.first = None \/ health'.first \in sampled
           /\ health'.unread = draft.unread /\ health'.observed = draft.observed /\ health'.wake = draft.wake
           /\ health'.since = draft.since /\ health'.tried = draft.tried /\ health'.escalated = draft.escalated
  <1> DEFINE c == (IF draft.covered = None THEN {} ELSE draft.covered) \cup sampled
             f == IF sampled = {} THEN None ELSE Min(sampled)
  <1>1. draft \in Marks /\ sampled \subseteq Mail
    BY DEF TypeOK
  <1>2. c \in {None} \cup SUBSET Mail
    BY <1>1 DEF Marks
  <1>3. (f = None \/ f \in sampled) /\ f \in {None} \cup Mail
    BY <1>1, MinOfMail
  <1>4. 0 \in 0..Window /\ draft.wake \in 0..MaxSession
    BY SupervisionAssumption DEF Sessions
  <1>5. health' = [draft EXCEPT !.tryKnocked = TRUE, !.knocked = 0, !.coalesced = FALSE,
                                !.session = draft.wake, !.covered = c, !.first = f]
    BY DEF Answer
  <1>6. health'.covered = c /\ health'.first = f /\ health' \in Marks
    <2> HIDE DEF c, f
    <2> QED
      BY <1>1, <1>2, <1>3, <1>4, <1>5 DEF Marks
  <1>7. /\ health'.tryKnocked /\ health'.knocked = 0 /\ ~health'.coalesced /\ health'.session = draft.wake
        /\ health'.unread = draft.unread /\ health'.observed = draft.observed /\ health'.wake = draft.wake
        /\ health'.since = draft.since /\ health'.tried = draft.tried /\ health'.escalated = draft.escalated
    <2> HIDE DEF c, f
    <2> QED
      BY <1>1, <1>5 DEF Marks
  <1> QED
    BY <1>3, <1>6, <1>7

\* Time passes for the marks that are ages.
LEMMA AgedFields ==
    ASSUME NEW h \in Marks, NEW t, t = Aged(h)
    PROVE  /\ t \in Marks
           /\ t.unread = h.unread /\ t.observed = h.observed /\ t.covered = h.covered
           /\ t.session = h.session /\ t.wake = h.wake /\ t.first = h.first
           /\ t.tryKnocked = h.tryKnocked /\ t.coalesced = h.coalesced
           /\ t.escalated = h.escalated
           /\ t.since = None <=> h.since = None
           /\ t.tried = None <=> h.tried = None
           /\ t.knocked = None <=> h.knocked = None
           /\ h.knocked # None /\ h.tried # None /\ h.knocked <= h.tried => t.knocked <= t.tried
  <1> DEFINE a == Older(h.since, Silence)
             b == Older(h.knocked, Window)
             c == Older(h.tried, Retry)
  <1> USE SupervisionAssumption
  <1>0. /\ h.since \in {None} \cup 0..Silence /\ h.knocked \in {None} \cup 0..Window
        /\ h.tried \in {None} \cup 0..Retry
    BY DEF Marks
  <1>1. a \in {None} \cup 0..Silence /\ (a = None <=> h.since = None)
    BY <1>0 DEF Older
  <1>2. b \in {None} \cup 0..Window /\ (b = None <=> h.knocked = None)
    BY <1>0 DEF Older
  <1>3. c \in {None} \cup 0..Retry /\ (c = None <=> h.tried = None)
    BY <1>0 DEF Older
  <1>4. h.knocked # None /\ h.tried # None /\ h.knocked <= h.tried => b <= c
    BY <1>0 DEF Older
  <1>5. t = [h EXCEPT !.since = a, !.knocked = b, !.tried = c]
    BY DEF Aged
  <1> HIDE DEF a, b, c
  <1>6. t.since = a /\ t.knocked = b /\ t.tried = c /\ t \in Marks
    BY <1>1, <1>2, <1>3, <1>5 DEF Marks
  <1>7. /\ t.unread = h.unread /\ t.observed = h.observed /\ t.covered = h.covered
        /\ t.session = h.session /\ t.wake = h.wake /\ t.first = h.first
        /\ t.tryKnocked = h.tryKnocked /\ t.coalesced = h.coalesced /\ t.escalated = h.escalated
    BY <1>5 DEF Marks
  <1> QED
    BY <1>1, <1>2, <1>3, <1>4, <1>6, <1>7

\* A round that knocks.
LEMMA KnockingLook ==
    ASSUME TypeOK, NEW complete \in BOOLEAN, NEW view, Look(complete, view),
           NEW h, h = Carried(complete), phase' # phase
    PROVE  /\ phase = "idle" /\ phase' = "knock" /\ sampled' = inbox
           /\ Unread(complete) > 0 /\ Knocks(h, complete, view)
           /\ draft' \in Marks /\ SameBut(draft', h)
           /\ draft'.tried = 0 /\ ~draft'.tryKnocked /\ draft'.wake = point
           /\ draft'.coalesced = h.coalesced
           /\ news' = IF complete THEN "none" ELSE news
           /\ UNCHANGED <<world, health>>
  <1>1. /\ phase = "idle" /\ phase' = "knock" /\ sampled' = inbox
        /\ Unread(complete) > 0 /\ Knocks(h, complete, view)
        /\ draft' = [Escalated(h) EXCEPT !.tried = 0, !.tryKnocked = FALSE, !.wake = point]
        /\ news' = IF complete THEN "none" ELSE news
        /\ UNCHANGED <<world, health>>
    BY DEF Look
  <1>2. h \in Marks /\ point \in Sessions
    BY <1>1, CarriedFields DEF TypeOK, Knocks
  <1> QED
    BY <1>1, <1>2, DraftFields

\* A round that does not.
LEMMA QuietLook ==
    ASSUME TypeOK, NEW complete \in BOOLEAN, NEW view, Look(complete, view),
           NEW h, h = Carried(complete), phase' = phase
    PROVE  /\ phase = "idle"
           /\ health' \in Marks /\ SameBut(health', h)
           /\ health'.tried = h.tried /\ health'.tryKnocked = h.tryKnocked
           /\ Unread(complete) = 0 => health' = h
           /\ Unread(complete) > 0 => ~Knocks(h, complete, view)
           /\ health'.wake = h.wake \/ (health'.wake = NoPoint /\ (point = NoPoint \/ point # owner))
           /\ health'.coalesced =>
                 \/ h.coalesced
                 \/ /\ Arrivals(complete) # {} /\ ~Held(h, view)
                    /\ point # NoPoint /\ point = owner /\ ~Knocks(h, complete, view)
           /\ UNCHANGED <<world, draft, sampled, news>>
  <1>1. /\ phase = "idle" /\ ~(Unread(complete) > 0 /\ Knocks(h, complete, view))
        /\ health' = IF Unread(complete) = 0 THEN h ELSE Escalated(Noted(h, complete, view))
        /\ UNCHANGED <<world, draft, sampled, news>>
    BY DEF Look
  <1>2. h \in Marks /\ Unread(complete) \in 0..MaxMail
    BY CarriedFields, Seen
  <1>3. CASE Unread(complete) = 0
    BY <1>1, <1>2, <1>3 DEF SameBut
  <1>4. CASE Unread(complete) # 0
    <2> DEFINE n == Noted(h, complete, view)
    <2>1. Unread(complete) > 0 /\ ~Knocks(h, complete, view)
      BY <1>1, <1>2, <1>4, SupervisionAssumption
    <2>2. /\ n \in Marks /\ SameBut(n, h) /\ n.tried = h.tried /\ n.tryKnocked = h.tryKnocked
          /\ n.wake = h.wake \/ (n.wake = NoPoint /\ (point = NoPoint \/ point # owner))
          /\ n.coalesced =>
                \/ h.coalesced
                \/ Arrivals(complete) # {} /\ ~Held(h, view) /\ point # NoPoint /\ point = owner
      BY <1>2, NotedFields
    <2>3. health' = Escalated(n)
      BY <1>1, <1>4
    <2> HIDE DEF n
    <2>4. /\ health' \in Marks /\ SameBut(health', n) /\ health'.wake = n.wake
          /\ health'.tried = n.tried /\ health'.tryKnocked = n.tryKnocked
          /\ health'.coalesced = n.coalesced
      BY <2>2, <2>3, EscalatedFields
    <2> QED
      BY <1>1, <1>4, <2>1, <2>2, <2>4 DEF SameBut
  <1> QED
    BY <1>3, <1>4

----------------------------------------------------------------------------
(* The invariant.                                                           *)

\* The mark of a mailbox nobody looked at.
LEMMA NoHealthFields ==
    /\ NoHealth \in Marks /\ Coherent(NoHealth)
    /\ NoHealth.covered = None
  <1>1. 0 \in 0..MaxMail /\ 0 \in 0..MaxSession
    BY SupervisionAssumption
  <1> QED
    BY <1>1 DEF NoHealth, Marks, Coherent

\* It holds at first.
LEMMA InitIInv == Init => IInv
  <1> SUFFICES ASSUME Init PROVE IInv
    OBVIOUS
  <1>1. TypeOK
    BY NoHealthFields, SupervisionAssumption DEF Init, TypeOK, Sessions
  <1>2. Coherent(health) /\ Coherent(draft)
    BY NoHealthFields DEF Init
  <1>3. DraftStands /\ AttemptStands /\ AcceptedStands
    BY DEF Init, DraftStands, AttemptStands, AcceptedStands
  <1> QED
    BY <1>1, <1>2, <1>3 DEF IInv

\* Mail, the session and its point leave the marks alone, and all but mail
\* is more than mail.
LEMMA WorldStep == IInv /\ ((\E m \in Mail : Land(m)) \/ Take \/ HandOver \/ Rebind) => IInv'
  <1> SUFFICES ASSUME IInv, (\E m \in Mail : Land(m)) \/ Take \/ HandOver \/ Rebind PROVE IInv'
    OBVIOUS
  <1> USE DEF IInv
  <1>1. ASSUME NEW m \in Mail, Land(m) PROVE IInv'
    <2>1. TypeOK'
      BY <1>1 DEF Land, TypeOK, round
    <2>2. UNCHANGED <<owner, point, round>> /\ inbox \subseteq inbox'
      BY <1>1 DEF Land
    <2>3. news' # "none" /\ (news' # "more" => news # "more")
      BY <1>1 DEF Land, TypeOK
    <2>4. Coherent(health)' /\ Coherent(draft)' /\ DraftStands'
      BY <2>2 DEF Coherent, DraftStands, round
    <2>5. AttemptStands'
      BY <2>2, <2>3 DEF AttemptStands, Mark, round
    <2>6. AcceptedStands'
      BY <2>2, <2>3 DEF AcceptedStands, Mark, round
    <2> QED
      BY <2>1, <2>4, <2>5, <2>6
  <1>2. CASE Take \/ HandOver \/ Rebind
    <2>1. news' = "more" /\ UNCHANGED round
      BY <1>2 DEF Take, HandOver, Rebind
    <2>2. /\ inbox' \subseteq landed' /\ landed' \subseteq Mail
          /\ owner' \in Sessions /\ point' \in {NoPoint} \cup Sessions
      <3>1. CASE Take
        BY <3>1 DEF Take, TypeOK
      <3>2. CASE HandOver
        BY <3>2 DEF HandOver, TypeOK
      <3>3. CASE Rebind
        BY <3>3, SupervisionAssumption DEF Rebind, TypeOK, Sessions
      <3> QED
        BY <1>2, <3>1, <3>2, <3>3
    <2>3. TypeOK'
      BY <2>1, <2>2 DEF TypeOK, round
    <2>4. Coherent(health)' /\ Coherent(draft)' /\ DraftStands'
      BY <2>1 DEF Coherent, DraftStands, round
    <2> QED
      BY <2>1, <2>3, <2>4 DEF AttemptStands, AcceptedStands
  <1> QED
    BY <1>1, <1>2

\* So does time, but for the ages.
LEMMA TickStep == IInv /\ Tick => IInv'
  <1> SUFFICES ASSUME IInv, Tick PROVE IInv'
    OBVIOUS
  <1> USE DEF IInv
  <1>0. phase = "idle" /\ health' = Aged(health) /\ UNCHANGED <<world, phase, draft, sampled, news>>
    BY DEF Tick
  <1>1. /\ health' \in Marks
        /\ health'.unread = health.unread /\ health'.observed = health.observed
        /\ health'.covered = health.covered
        /\ health'.session = health.session /\ health'.wake = health.wake
        /\ health'.first = health.first
        /\ health'.tryKnocked = health.tryKnocked /\ health'.coalesced = health.coalesced
        /\ health'.escalated = health.escalated
        /\ health'.since = None <=> health.since = None
        /\ health'.tried = None <=> health.tried = None
        /\ health'.knocked = None <=> health.knocked = None
        /\ health.knocked # None /\ health.tried # None /\ health.knocked <= health.tried
              => health'.knocked <= health'.tried
    BY <1>0, AgedFields DEF TypeOK
  <1>2. TypeOK'
    BY <1>0, <1>1 DEF TypeOK, world
  <1>3. Coherent(health)' /\ Coherent(draft)' /\ DraftStands'
    BY <1>0, <1>1 DEF Coherent, DraftStands
  <1>4. AttemptStands'
    BY <1>0, <1>1 DEF AttemptStands, Mark, world
  <1>5. AcceptedStands'
    BY <1>0, <1>1 DEF AttemptStands, AcceptedStands, Mark, world
  <1> QED
    BY <1>2, <1>3, <1>4, <1>5

\* A round that dies leaves the record.
LEMMA CrashStep == IInv /\ Crash => IInv'
  <1> SUFFICES ASSUME IInv, Crash PROVE IInv'
    OBVIOUS
  <1> USE DEF IInv, Crash
  <1>1. TypeOK' /\ Coherent(health)' /\ Coherent(draft)'
    BY NoHealthFields DEF TypeOK, world, Coherent
  <1>2. DraftStands' /\ AttemptStands' /\ AcceptedStands'
    BY DEF DraftStands, AttemptStands, AcceptedStands
  <1> QED
    BY <1>1, <1>2

\* An answer makes the draft the record.
LEMMA AnswerStep == ASSUME IInv, NEW ok \in BOOLEAN, Answer(ok) PROVE IInv'
  <1> USE DEF IInv
  <1>0. phase = "knock" /\ phase' = "idle" /\ draft' = NoHealth /\ sampled' = {}
        /\ UNCHANGED <<world, news>>
    BY DEF Answer
  <1>1. Coherent(draft)' /\ draft' \in Marks
    BY <1>0, NoHealthFields DEF Coherent
  <1>2. DraftStands'
    BY <1>0 DEF DraftStands
  <1>3. CASE ~ok
    <2>1. health' = draft
      BY <1>3 DEF Answer
    <2>2. TypeOK' /\ Coherent(health)'
      BY <1>0, <1>1, <2>1 DEF TypeOK, world, Coherent
    <2>3. AttemptStands'
      BY <1>0, <2>1 DEF AttemptStands, Mark, world
    <2>4. AcceptedStands'
      BY <1>0, <2>1 DEF AcceptedStands, Mark, world
    <2> QED
      BY <1>1, <1>2, <2>2, <2>3, <2>4
  <1>4. CASE ok
    <2>0. draft.wake \in Sessions /\ draft.tried # None /\ draft.unread > 0
      BY <1>0 DEF DraftStands
    <2>2. /\ health' \in Marks
          /\ health'.tryKnocked /\ health'.knocked = 0 /\ ~health'.coalesced
          /\ health'.session = draft.wake
          /\ health'.covered = (IF draft.covered = None THEN {} ELSE draft.covered) \cup sampled
          /\ health'.first = None \/ health'.first \in sampled
          /\ health'.unread = draft.unread /\ health'.observed = draft.observed
          /\ health'.wake = draft.wake /\ health'.since = draft.since
          /\ health'.tried = draft.tried /\ health'.escalated = draft.escalated
      BY <1>4, <2>0, AcceptedFields
    <2>3. TypeOK'
      BY <1>0, <1>1, <2>2 DEF TypeOK, world
    <2>4. Coherent(health)'
      BY <2>0, <2>2, SupervisionAssumption DEF Coherent, Sessions
    <2>5. AttemptStands'
      BY <1>0, <2>2 DEF AttemptStands, Mark, world
    <2>6. health'.covered # None
      <3>1. health'.covered \in SUBSET Mail
        BY <2>2 DEF TypeOK, Marks
      <3> QED
        BY <3>1, NoMailAssumption
    <2>7. health'.tried \in 0..Retry /\ health'.knocked # None
      BY <2>0, <2>2, SupervisionAssumption DEF Marks
    <2>8. AcceptedStands'
      BY <1>0, <2>2, <2>6, <2>7 DEF AttemptStands, AcceptedStands, Mark, world
    <2> QED
      BY <1>1, <1>2, <2>3, <2>4, <2>5, <2>8
  <1> QED
    BY <1>3, <1>4

\* A round after which only mail came neither starts afresh nor finds nothing.
LEMMA AttemptIsKept ==
    ASSUME IInv, phase = "idle", news # "more", NEW complete \in BOOLEAN
    PROVE  ~Afresh(complete) /\ Unread(complete) > 0
  <1>1. /\ inbox # {} /\ health.unread > 0
        /\ health.first # None => health.first \in inbox
    BY DEF IInv, AttemptStands, Mark
  <1>2. Unread(complete) \in Nat /\ health.unread \in Nat
    BY Seen, SupervisionAssumption DEF IInv, TypeOK, Marks
  <1>3. /\ complete => (Unread(complete) = 0 <=> inbox = {})
        /\ ~complete => Unread(complete) >= health.unread
    BY Seen DEF IInv
  <1>4. Unread(complete) > 0
    BY <1>1, <1>2, <1>3
  <1> QED
    BY <1>1, <1>4 DEF Afresh, Took

\* What is carried as covered was covered, and for the session there is.
LEMMA KeptIsCovered ==
    ASSUME TypeOK, NEW complete \in BOOLEAN
    PROVE  /\ KeptCovered(complete) # None =>
                 /\ health.covered # None /\ KeptCovered(complete) \subseteq health.covered
                 /\ point = health.session
           /\ health.covered # None /\ point = health.session => KeptCovered(complete) # None
  <1>1. health.covered \in {None} \cup SUBSET Mail
    BY DEF TypeOK, Marks
  <1>2. KeptCovered(complete) # None =>
            /\ health.covered # None /\ point = health.session
            /\ KeptCovered(complete) \subseteq health.covered
    BY DEF KeptCovered, Baseline, Covered, Retained
  <1>3. ASSUME health.covered # None, point = health.session PROVE KeptCovered(complete) # None
    <2>1. KeptCovered(complete) = Retained(health.covered, complete)
      BY <1>3 DEF KeptCovered, Baseline, Covered
    <2>2. KeptCovered(complete) \in SUBSET Mail
      BY <1>1, <1>3, <2>1 DEF Retained
    <2> QED
      BY <2>2, NoMailAssumption
  <1> QED
    BY <1>2, <1>3

\* A round that knocks makes a draft that stands.
LEMMA KnockStep ==
    ASSUME IInv, NEW complete \in BOOLEAN, NEW view, Look(complete, view), phase' # phase
    PROVE  IInv'
  <1> DEFINE h == Carried(complete)
  <1> USE DEF IInv
  <1>1. /\ phase = "idle" /\ phase' = "knock" /\ sampled' = inbox
        /\ Unread(complete) > 0 /\ Knocks(h, complete, view)
        /\ draft' \in Marks /\ SameBut(draft', h)
        /\ draft'.tried = 0 /\ ~draft'.tryKnocked /\ draft'.wake = point
        /\ draft'.coalesced = h.coalesced
        /\ news' = IF complete THEN "none" ELSE news
        /\ UNCHANGED <<world, health>>
    BY KnockingLook
  <1>2. /\ h.unread = Unread(complete) /\ h.observed = Observed(complete)
        /\ h.covered = KeptCovered(complete) /\ h.session = health.session
        /\ Afresh(complete) => h.first = None
        /\ ~Afresh(complete) => h.first = health.first
    BY CarriedFields
  <1>3. Coherent(h)
    BY CarriedIsCoherent
  <1>4. /\ complete => Observed(complete) = inbox
        /\ ~complete => Observed(complete) = health.observed
        /\ complete => (Unread(complete) = 0 <=> inbox = {})
    BY Seen
  <1>5. point = owner /\ point \in Sessions
    BY <1>1 DEF Knocks, TypeOK
  <1> HIDE DEF h
  <1>6. TypeOK'
    BY <1>1 DEF TypeOK, world
  <1>7. Coherent(health)' /\ Coherent(draft)'
    BY <1>1, <1>2, <1>3, SupervisionAssumption DEF Coherent, SameBut
  <1>8. DraftStands'
    BY <1>1, <1>2, <1>5, KeptIsCovered, SupervisionAssumption DEF DraftStands, SameBut
  <1>9. AttemptStands'
    <2> SUFFICES ASSUME news' # "more" PROVE AttemptStands'
      BY DEF AttemptStands
    <2>1. inbox # {}
      BY <1>1, <1>4, AttemptIsKept DEF AttemptStands
    <2>2. draft'.first # None => draft'.first \in inbox
      <3>1. CASE Afresh(complete)
        BY <1>1, <1>2, <3>1 DEF SameBut
      <3>2. CASE ~Afresh(complete) /\ complete
        <4>1. health.unread \in Nat
          BY DEF TypeOK, Marks
        <4>2. ~Took(complete) /\ health.unread # 0
          BY <1>1, <3>2, Zenon DEF Afresh
        <4>3. health.unread > 0
          BY <4>1, <4>2
        <4>4. health.first # None => health.first \in inbox
          BY <3>2, <4>2, <4>3, Zenon DEF Took
        <4> QED
          BY <1>1, <1>2, <3>2, <4>4 DEF SameBut
      <3>3. CASE ~Afresh(complete) /\ ~complete
        BY <1>1, <1>2, <3>3 DEF SameBut, AttemptStands, Mark
      <3> QED
        BY <3>1, <3>2, <3>3
    <2>3. news' = "none" => inbox \subseteq draft'.observed
      BY <1>1, <1>2, <1>4 DEF SameBut, AttemptStands, Mark
    <2>4. draft'.unread > 0 /\ draft'.tried # None
      BY <1>1, <1>2, SupervisionAssumption DEF SameBut
    <2> QED
      BY <1>1, <1>5, <2>1, <2>2, <2>3, <2>4 DEF AttemptStands, Mark, world
  <1>10. AcceptedStands'
    BY <1>1 DEF AcceptedStands, Mark
  <1> QED
    BY <1>6, <1>7, <1>8, <1>9, <1>10

\* One that does not keeps what it carried.
LEMMA QuietStep ==
    ASSUME IInv, NEW complete \in BOOLEAN, NEW view, Look(complete, view), phase' = phase
    PROVE  IInv'
  <1> DEFINE h == Carried(complete)
  <1> USE DEF IInv
  <1>1. /\ phase = "idle"
        /\ health' \in Marks /\ SameBut(health', h)
        /\ health'.tried = h.tried /\ health'.tryKnocked = h.tryKnocked
        /\ Unread(complete) = 0 => health' = h
        /\ health'.wake = h.wake \/ (health'.wake = NoPoint /\ (point = NoPoint \/ point # owner))
        /\ health'.coalesced =>
              \/ h.coalesced
              \/ /\ Arrivals(complete) # {} /\ ~Held(h, view)
                 /\ point # NoPoint /\ point = owner /\ ~Knocks(h, complete, view)
        /\ UNCHANGED <<world, draft, sampled, news>>
    BY QuietLook
  <1>2. /\ h.unread = Unread(complete) /\ h.observed = Observed(complete)
        /\ h.covered = KeptCovered(complete)
        /\ h.session = health.session /\ h.wake = health.wake
        /\ ~Afresh(complete) =>
              /\ h.knocked = health.knocked /\ h.tried = health.tried
              /\ h.tryKnocked = health.tryKnocked /\ h.coalesced = health.coalesced
              /\ h.first = health.first
    BY CarriedFields
  <1>3. Coherent(h)
    BY CarriedIsCoherent
  <1>4. /\ complete => Observed(complete) = inbox
        /\ ~complete => Observed(complete) = health.observed
        /\ Unread(complete) \in Nat
    BY Seen, SupervisionAssumption
  <1>5. health'.coalesced => h.knocked # None
    <2>1. CASE h.coalesced
      BY <1>3, <2>1 DEF Coherent
    <2>2. CASE /\ Arrivals(complete) # {} /\ ~Held(h, view)
               /\ point # NoPoint /\ point = owner /\ ~Knocks(h, complete, view)
      BY <2>2 DEF Knocks, Pending, Outstanding
    <2> QED
      BY <1>1, <2>1, <2>2
  <1> HIDE DEF h
  <1>6. TypeOK'
    BY <1>1 DEF TypeOK, world
  <1>7. Coherent(health)' /\ Coherent(draft)'
    <2>1. CASE Unread(complete) = 0
      BY <1>1, <1>3, <2>1 DEF Coherent
    <2>2. CASE Unread(complete) # 0
      BY <1>1, <1>2, <1>3, <1>5, <2>2 DEF Coherent, SameBut
    <2> QED
      BY <2>1, <2>2
  <1>8. DraftStands'
    BY <1>1 DEF DraftStands
  <1>9. ASSUME news # "more" PROVE AttemptStands' /\ AcceptedStands'
    <2>1. ~Afresh(complete) /\ Unread(complete) > 0
      BY <1>1, <1>9, AttemptIsKept
    <2>2. point # NoPoint /\ point = owner
      BY <1>9 DEF AttemptStands, TypeOK, Sessions, NoPoint
    <2>3. AttemptStands'
      BY <1>1, <1>2, <1>4, <1>9, <2>1, <2>2 DEF AttemptStands, Mark, SameBut, world
    <2>4. ASSUME health'.tryKnocked PROVE AcceptedStands'
      <3>1. /\ health.covered # None /\ health.session = point
            /\ health.knocked # None /\ health.knocked <= health.tried
            /\ news = "none" => ~health.coalesced
        BY <1>1, <1>2, <1>9, <2>1, <2>4 DEF AcceptedStands, Mark
      <3>2. health'.covered # None
        BY <1>1, <1>2, <3>1, KeptIsCovered DEF SameBut
      <3>3. news = "none" => Arrivals(complete) = {}
        BY <1>1, <1>4 DEF Arrivals, AttemptStands, Mark
      <3>4. news = "none" => ~health'.coalesced
        BY <1>1, <1>2, <2>1, <3>1, <3>3
      <3> QED
        BY <1>1, <1>2, <2>1, <3>1, <3>2, <3>4 DEF AcceptedStands, Mark, SameBut, world
    <2>5. AcceptedStands'
      BY <1>1, <2>4 DEF AcceptedStands, Mark
    <2> QED
      BY <2>3, <2>5
  <1>10. AttemptStands' /\ AcceptedStands'
    BY <1>1, <1>9 DEF AttemptStands, AcceptedStands
  <1> QED
    BY <1>6, <1>7, <1>8, <1>10

\* Every step keeps the invariant.
LEMMA InductiveStep == IInv /\ [Next]_vars => IInv'
  <1> SUFFICES ASSUME IInv, [Next]_vars PROVE IInv'
    OBVIOUS
  <1>1. CASE (\E m \in Mail : Land(m)) \/ Take \/ HandOver \/ Rebind
    BY <1>1, WorldStep
  <1>2. CASE Tick
    BY <1>2, TickStep
  <1>3. ASSUME NEW complete \in BOOLEAN, NEW view \in Views, Look(complete, view) PROVE IInv'
    BY <1>3, KnockStep, QuietStep
  <1>4. ASSUME NEW ok \in BOOLEAN, Answer(ok) PROVE IInv'
    BY <1>4, AnswerStep
  <1>5. CASE Crash
    BY <1>5, CrashStep
  <1>6. CASE UNCHANGED vars
    BY <1>6 DEF vars, round, world, IInv, TypeOK, Coherent, DraftStands, AttemptStands,
                AcceptedStands, Mark
  <1> QED
    BY <1>1, <1>2, <1>3, <1>4, <1>5, <1>6 DEF Next

\* So it holds throughout.
LEMMA Invariant == Spec => []IInv
  BY InitIInv, InductiveStep, PTL DEF Spec

----------------------------------------------------------------------------
(* Theorems.                                                                *)

\* supervisor.ts, supervisorRound: whatever the mailbox, the session, the
\* driver and deaths of the warden do between rounds and in one, the marks of
\* the health record belong together.
THEOREM MarksCohere == Spec => []MarkIsCoherent
  <1>1. IInv => MarkIsCoherent
    BY DEF IInv, MarkIsCoherent, Coherent
  <1> QED
    BY <1>1, Invariant, PTL

\* supervisor.ts, coveredUnread: no mail is left out of a postcard but for an
\* accepted one about it, to the same session.
THEOREM CoverageEarned == Spec => CoverageIsEarned
  <1> DEFINE Earned == health'.covered # None =>
                 health'.covered \subseteq sampled \cup
                    (IF health.covered # None /\ health'.session = health.session
                     THEN health.covered ELSE {})
  <1>1. IInv /\ [Next]_vars => [Earned]_vars
    <2> SUFFICES ASSUME IInv, [Next]_vars PROVE Earned
      OBVIOUS
    <2>1. CASE UNCHANGED health
      BY <2>1
    <2>2. CASE Tick
      <3>1. health'.covered = health.covered /\ health'.session = health.session
        BY <2>2, AgedFields DEF Tick, IInv, TypeOK
      <3> QED
        BY <3>1
    <2>3. ASSUME NEW complete \in BOOLEAN, NEW view \in Views, Look(complete, view) PROVE Earned
      <3>1. CASE phase' # phase
        BY <2>1, <2>3, <3>1, KnockingLook DEF IInv
      <3>2. CASE phase' = phase
        <4>1. health'.covered = KeptCovered(complete) /\ health'.session = health.session
          BY <2>3, <3>2, QuietLook, CarriedFields DEF IInv, SameBut
        <4> QED
          BY <4>1, KeptIsCovered DEF IInv
      <3> QED
        BY <3>1, <3>2
    <2>4. ASSUME NEW ok \in BOOLEAN, Answer(ok) PROVE Earned
      <3>0. /\ draft.wake \in Sessions
            /\ draft.covered # None =>
                  /\ health.covered # None /\ draft.covered \subseteq health.covered
                  /\ draft.session = health.session /\ draft.wake = health.session
        BY <2>4 DEF Answer, IInv, DraftStands
      <3>1. CASE ok
        <4>1. /\ health'.session = draft.wake
              /\ health'.covered = (IF draft.covered = None THEN {} ELSE draft.covered) \cup sampled
          BY <2>4, <3>0, <3>1, AcceptedFields DEF IInv
        <4> QED
          BY <3>0, <4>1
      <3>2. CASE ~ok
        <4>1. health' = draft
          BY <2>4, <3>2 DEF Answer
        <4> QED
          BY <3>0, <4>1
      <3> QED
        BY <3>1, <3>2
    <2> QED
      BY <2>1, <2>2, <2>3, <2>4 DEF Next, Land, Take, HandOver, Rebind, Crash, round, vars
  <1> QED
    BY <1>1, Invariant, PTL DEF Spec, CoverageIsEarned

\* supervisor.ts, KNOCK_RETRY_SEC and KNOCK_COALESCE_SEC: whatever listings
\* fail and whatever the views of the session say, a session is not knocked on
\* again early while nothing but mail came, nor ever for a burst.
THEOREM KnocksSpaced == Spec => KnocksAreSpaced
  <1> DEFINE Spaced == phase = "idle" /\ phase' = "knock" /\ news # "more" =>
                 /\ health.tried # None
                 /\ \/ health.tried >= Retry
                    \/ news = "mail" /\ (health.tried >= Window \/ ~health.tryKnocked)
  <1>1. IInv /\ [Next]_vars => [Spaced]_vars
    <2> SUFFICES ASSUME IInv, [Next]_vars, phase = "idle", phase' = "knock", news # "more"
                 PROVE  /\ health.tried # None
                        /\ \/ health.tried >= Retry
                           \/ news = "mail" /\ (health.tried >= Window \/ ~health.tryKnocked)
      OBVIOUS
    <2>1. PICK complete \in BOOLEAN, view \in Views : Look(complete, view)
      BY DEF Next, Land, Take, HandOver, Rebind, Tick, Answer, Crash, round, vars
    <2> DEFINE h == Carried(complete)
    <2>2. Knocks(h, complete, view)
      BY <2>1, KnockingLook DEF IInv
    <2>3. /\ h.knocked = health.knocked /\ h.tried = health.tried
          /\ h.tryKnocked = health.tryKnocked /\ h.coalesced = health.coalesced
      BY AttemptIsKept, CarriedFields DEF IInv
    <2>4. /\ health.tried # None /\ point = health.wake
          /\ news = "none" => inbox \subseteq health.observed
      BY DEF IInv, AttemptStands, Mark
    <2>5. health.tryKnocked =>
             /\ Baseline /\ health.knocked # None /\ health.knocked <= health.tried
             /\ news = "none" => ~health.coalesced
      BY DEF IInv, AcceptedStands, Mark, Baseline
    <2>6. news = "none" => Arrivals(complete) = {}
      BY <2>4, Seen DEF Arrivals, IInv
    <2>7. /\ health.tried \in 0..Retry /\ health.knocked \in {None} \cup 0..Window
          /\ news \in {"none", "mail", "more"}
      BY <2>4 DEF IInv, TypeOK, Marks
    <2> HIDE DEF h
    <2>8. CASE Pending(h, complete) /\ ~Outstanding(h)
      <3>1. news = "mail"
        BY <2>3, <2>5, <2>6, <2>7, <2>8 DEF Pending
      <3>2. health.tryKnocked => health.tried >= Window
        BY <2>3, <2>5, <2>7, <2>8, SupervisionAssumption DEF Outstanding
      <3> QED
        BY <2>4, <3>1, <3>2
    <2>9. CASE Stale(h)
      BY <2>3, <2>4, <2>9 DEF Stale
    <2> QED
      BY <2>2, <2>3, <2>4, <2>8, <2>9 DEF Knocks, Moved
  <1> QED
    BY <1>1, Invariant, PTL DEF Spec, KnocksAreSpaced

=============================================================================
