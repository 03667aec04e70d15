----------------------------- MODULE Supervision -----------------------------
(***************************************************************************)
(* The watch of one mailbox by its task's warden (src/supervisor.ts,        *)
(* supervisorRound): rounds that look at the inbox and the contact point,   *)
(* decide whether to knock, and rewrite the health record after the driver  *)
(* answered.  The record is all a round knows of the rounds before it, and  *)
(* all a warden that takes over knows of a warden that died.                *)
(*                                                                         *)
(* Times are ages, counted up to the threshold they are held to; who holds  *)
(* the warden's seat is TaskWarden's subject, and here there is one at a    *)
(* time.  Mail ids order as sent, and land in any order.                    *)
(***************************************************************************)
EXTENDS Naturals, FiniteSets, FiniteSetsExt

CONSTANTS
    MaxMail,    \* ids of mail: 1..MaxMail
    MaxSession, \* how often the address is bound to a session
    Window,     \* KNOCK_COALESCE_SEC, in units of the clock
    Retry,      \* KNOCK_RETRY_SEC
    Silence,    \* SILENCE_SEC
    None

ASSUME SupervisionAssumption ==
    /\ {MaxMail, MaxSession} \subseteq Nat \ {0}
    /\ {Window, Retry, Silence} \subseteq Nat \ {0}
    /\ Window < Retry /\ Retry < Silence
    /\ None \notin Nat

VARIABLES
    landed,   \* mail that came
    inbox,    \* mail that is unread
    owner,    \* the session the address is bound to
    point,    \* the session whose contact point is on record, or NoPoint
    health,   \* the mark of the address in the health file
    phase,    \* of the round: idle, knock: the driver is asked
    draft,    \* the mark the round is about to write
    sampled,  \* the mail its postcard is about
    news      \* since what the last attempt saw: none, mail, or more: no attempt,
              \* a take, a point, an owner, a death of the warden

world == <<landed, inbox, owner, point>>
round == <<health, phase, draft, sampled>>
vars == <<world, round, news>>

Mail == 1..MaxMail
Sessions == 1..MaxSession
NoPoint == 0

ASSUME NoMailAssumption == \A some \in SUBSET Mail : some # None

Older(age, limit) == IF age = None \/ age = limit THEN age ELSE age + 1

NoHealth == [unread |-> 0, observed |-> {}, covered |-> None, session |-> 0, wake |-> None,
             since |-> None, knocked |-> None, tried |-> None, tryKnocked |-> TRUE,
             coalesced |-> FALSE, first |-> None, escalated |-> FALSE]

Aged(h) == [h EXCEPT !.since = Older(@, Silence), !.knocked = Older(@, Window), !.tried = Older(@, Retry)]

Init ==
    /\ landed = {} /\ inbox = {}
    /\ owner = 1 /\ point = NoPoint
    /\ health = NoHealth /\ draft = NoHealth
    /\ phase = "idle" /\ sampled = {}
    /\ news = "more"

-----------------------------------------------------------------------------
(* The mailbox, the session and the clock                                   *)

Land(m) ==
    /\ m \notin landed
    /\ landed' = landed \cup {m} /\ inbox' = inbox \cup {m}
    /\ news' = IF news = "none" THEN "mail" ELSE news
    /\ UNCHANGED <<owner, point, round>>

(* The session takes what is there; a read by id takes some of it.          *)
Take ==
    /\ \E some \in SUBSET inbox \ {{}} : inbox' = inbox \ some
    /\ news' = "more"
    /\ UNCHANGED <<landed, owner, point, round>>

(* A session hands its contact point over or takes it away.                 *)
HandOver ==
    /\ \E p \in {NoPoint} \cup Sessions : p # point /\ p <= owner /\ point' = p
    /\ news' = "more"
    /\ UNCHANGED <<landed, inbox, owner, round>>

(* The address is bound to another session.                                 *)
Rebind ==
    /\ owner < MaxSession
    /\ owner' = owner + 1
    /\ news' = "more"
    /\ UNCHANGED <<landed, inbox, point, round>>

(* Time passes between rounds: what passes in one, of which no decision of  *)
(* it depends, is as good as passed after it.                               *)
Tick ==
    /\ phase = "idle"
    /\ health' = Aged(health)
    /\ UNCHANGED <<world, phase, draft, sampled, news>>

-----------------------------------------------------------------------------
(* A round looks                                                            *)

(* Of the last verified state, what a listing that succeeded confirms.      *)
Retained(keys, complete) == IF complete THEN keys \cap inbox ELSE keys

Observed(complete) == Retained(health.observed, complete) \cup (IF complete THEN inbox ELSE {})

Unread(complete) ==
    IF complete THEN Cardinality(Observed(complete))
    ELSE Max({Cardinality(Observed(complete)), health.unread})

\* mutant: what an earlier session was shown counts for the next one
BaselineAlways == health.covered # None

(* The hints of the session behind the last accepted knock.                 *)
Baseline == point = health.session /\ health.covered # None

Covered(complete) == IF Baseline THEN Retained(health.covered, complete) ELSE {}

Arrivals(complete) == Observed(complete) \ (health.observed \cup Covered(complete))

(* A take is an inbox that emptied, or the oldest knocked mail gone.        *)
Took(complete) ==
    /\ complete /\ health.unread > 0
    /\ Unread(complete) = 0 \/ (health.first # None /\ health.first \notin inbox)

\* mutant: a mailbox that was emptied keeps the marks of its last knock
ForgottenKept(h) == [h EXCEPT !.tried = None, !.tryKnocked = TRUE, !.escalated = FALSE]

(* What a take leaves of the knocks.                                        *)
Forgotten(h) == [h EXCEPT !.knocked = None, !.tried = None, !.tryKnocked = TRUE,
                          !.coalesced = FALSE, !.first = None, !.escalated = FALSE]

(* What the round carries over, before it decides on a knock.               *)
Carried(complete) ==
    LET kept == [health EXCEPT !.observed = Observed(complete),
                               !.covered = IF Baseline THEN Covered(complete) ELSE None,
                               !.unread = Unread(complete)]
    IN  IF Took(complete) \/ (Unread(complete) > 0 /\ health.unread = 0)
        THEN [Forgotten(kept) EXCEPT !.since = IF Unread(complete) = 0 THEN None ELSE 0]
        ELSE kept

Outstanding(h) == h.knocked # None /\ h.knocked < Window

\* mutant: an accepted knock is not repeated
StaleRefused(h) == h.tried # None /\ h.tried >= Retry /\ ~h.tryKnocked

Stale(h) == h.tried # None /\ h.tried >= Retry

\* mutant: an unchanged mailbox is knocked on again at the window's end
PendingAlways(h, complete) == h.tryKnocked

(* Mail came, or was carried under a knock, or the session is a new one.    *)
Pending(h, complete) ==
    \/ Arrivals(complete) # {}
    \/ (~Baseline \/ h.coalesced) /\ h.tryKnocked

Moved == point # NoPoint /\ health.wake # None /\ point # health.wake

(* What the session snapshot and the transcript say, as of the last beat:   *)
(* the turn, and a refused turn whose reset is named or did not parse; a    *)
(* named one holds the knocks whatever the turn.                            *)
Views == {v \in [turn : {"given back", "busy", "asking"}, hold : {"none", "named", "unparsed"}] :
            v.hold = "named" => v.turn = "given back"}

Calm == [turn |-> "given back", hold |-> "none"]

Busy(h, view) == Stale(h) /\ h.since < Silence /\ view.turn = "busy"

Held(h, view) ==
    \/ view.hold = "named"
    \/ view.hold = "unparsed" /\ (Busy(h, view) \/ (h.tried # None /\ ~Stale(h)))

Knocks(h, complete, view) ==
    /\ ~Held(h, view)
    /\ point # NoPoint /\ point = owner
    /\ \/ h.tried = None
       \/ Pending(h, complete) /\ ~Outstanding(h)
       \/ Moved
       \/ Stale(h) /\ ~Busy(h, view) /\ view.turn # "asking"

(* Mail that lands under an outstanding knock is carried; a point that is   *)
(* gone or another session's forgets the one knocked on.                    *)
Noted(h, complete, view) ==
    IF Held(h, view) THEN h
    ELSE IF point = NoPoint \/ point # owner THEN [h EXCEPT !.wake = NoPoint]
    ELSE [h EXCEPT !.coalesced = @ \/ Arrivals(complete) # {}]

\* mutant: silence is not counted for a mailbox whose point is gone
SilentReachable(h) == h.since = Silence /\ h.wake # NoPoint

Silent(h) == h.since = Silence

(* A mailbox not taken for that long is written SILENT, once.               *)
Escalated(h) == [h EXCEPT !.escalated = @ \/ Silent(h)]

(* A round looks; one that knocks reads the mailbox again for the postcard,  *)
(* whole, and asks the driver.                                              *)
Look(complete, view) ==
    LET h == Carried(complete)
    IN  /\ phase = "idle"
        /\ IF Unread(complete) > 0 /\ Knocks(h, complete, view)
           THEN /\ phase' = "knock" /\ sampled' = inbox
                /\ draft' = [Escalated(h) EXCEPT !.tried = 0, !.tryKnocked = FALSE, !.wake = point]
                /\ news' = IF complete THEN "none" ELSE news
                /\ UNCHANGED health
           ELSE /\ health' = IF Unread(complete) = 0 THEN h ELSE Escalated(Noted(h, complete, view))
                /\ UNCHANGED <<phase, sampled, draft, news>>
        /\ UNCHANGED world

(* The driver answers.  That it accepted proves no turn: only a take ends    *)
(* the knocks.                                                              *)
Answer(ok) ==
    /\ phase = "knock"
    /\ health' = IF ~ok THEN draft
                 ELSE [draft EXCEPT
                         !.tryKnocked = TRUE, !.knocked = 0, !.coalesced = FALSE,
                         !.session = draft.wake,
                         !.covered = (IF @ = None THEN {} ELSE @) \cup sampled,
                         !.first = IF sampled = {} THEN None ELSE Min(sampled)]
    /\ phase' = "idle" /\ draft' = NoHealth /\ sampled' = {}
    /\ UNCHANGED <<world, news>>

(* The warden dies in a round; the next one goes on from the health file.   *)
Crash ==
    /\ phase # "idle"
    /\ phase' = "idle" /\ draft' = NoHealth /\ sampled' = {}
    /\ news' = "more"
    /\ UNCHANGED <<world, health>>

-----------------------------------------------------------------------------

Next ==
    \/ \E m \in Mail : Land(m)
    \/ Take \/ HandOver \/ Rebind \/ Tick
    \/ \E complete \in BOOLEAN, view \in Views : Look(complete, view)
    \/ \E ok \in BOOLEAN : Answer(ok)
    \/ Crash

(* The rounds go on and time passes; a warden does not die in every round   *)
(* that knocks, and a listing of the inbox succeeds now and then.           *)
Fairness ==
    /\ SF_vars(Tick)
    /\ SF_vars(\E ok \in BOOLEAN : Answer(ok))
    /\ SF_vars(\E view \in Views : Look(TRUE, view))

(* What the rest of the world owes a mailbox that is to be heard of: now    *)
(* and then the session hands over a point of its own, and nothing holds    *)
(* the knocks back: no turn, no question to the user, no refused turn.      *)
Reachable ==
    /\ SF_vars(point = owner /\ Look(TRUE, Calm))
    /\ SF_vars(HandOver /\ point' = owner)

Spec == Init /\ [][Next]_vars /\ Fairness

-----------------------------------------------------------------------------
(* Properties                                                               *)

Marks == [unread : 0..MaxMail, observed : SUBSET Mail, covered : {None} \cup SUBSET Mail,
          session : 0..MaxSession, wake : {None, NoPoint} \cup Sessions,
          since : {None} \cup 0..Silence, knocked : {None} \cup 0..Window, tried : {None} \cup 0..Retry,
          tryKnocked : BOOLEAN, coalesced : BOOLEAN, first : {None} \cup Mail,
          escalated : BOOLEAN]

TypeOK ==
    /\ inbox \subseteq landed /\ landed \subseteq Mail
    /\ owner \in Sessions /\ point \in {NoPoint} \cup Sessions
    /\ health \in Marks /\ draft \in Marks
    /\ phase \in {"idle", "knock"} /\ sampled \subseteq Mail
    /\ news \in {"none", "mail", "more"}

(* The marks of the record belong together, over takes, refused knocks and  *)
(* takeovers: a mailbox without mail has no silence and no knock behind it, *)
(* and mail is carried, and a take recognised, under an accepted knock only.*)
MarkIsCoherent ==
    /\ TypeOK
    /\ \A h \in {health, draft} :
          /\ h.unread = 0 <=> h.since = None
          /\ h.unread = 0 => h.tried = None /\ ~h.escalated
          /\ h.knocked # None => h.tried # None /\ h.session # 0
          /\ h.coalesced \/ h.first # None => h.knocked # None

(* Mail is left out of the postcards to come (coveredUnread) only when the  *)
(* driver accepted one about it, read before the driver was asked, for the  *)
(* session whose postcards they are.                                        *)
CoverageIsEarned ==
    [][health'.covered # None =>
          health'.covered \subseteq sampled \cup
              (IF health.covered # None /\ health'.session = health.session
               THEN health.covered ELSE {})]_vars

(* A session is not knocked on again before KNOCK_RETRY_SEC while nothing   *)
(* but mail came, and when mail came under an accepted knock, not before    *)
(* KNOCK_COALESCE_SEC: a burst is one knock.                                *)
KnocksAreSpaced ==
    [][phase = "idle" /\ phase' = "knock" /\ news # "more" =>
          /\ health.tried # None
          /\ \/ health.tried >= Retry
             \/ news = "mail" /\ (health.tried >= Window \/ ~health.tryKnocked)]_vars

(* A mailbox that is never emptied is said to be silent, whatever the session,  *)
(* its point, the driver and the holds do, and over a warden's death.       *)
SilenceIsSaid == inbox # {} ~> (inbox = {} \/ health.escalated)

(* The session that owns the address is knocked on about all its mail, again *)
(* and again until it takes it: no hint, no refusal and no takeover of the  *)
(* watch is counted as a delivery.                                          *)
MailIsKnockedOn ==
    Reachable =>
        (inbox # {} ~>
            \/ inbox = {}
            \/ phase = "knock" /\ inbox \subseteq sampled /\ draft.wake = owner)
=============================================================================
