---------------------------- MODULE SessionHolder ----------------------------
(***************************************************************************)
(* The holder of a Codex session (lib/codex-session.ts, holdMain): one      *)
(* process that owns the app-server child, asks it for turns over a pipe,   *)
(* keeps account of the turns and commands it hears about, and ends it.  A  *)
(* stop may be confirmed only when every turn and command is known over,    *)
(* for cleanup of the worktree and the seat follows a confirmation.         *)
(*                                                                         *)
(* The app-server's output is one stream, dispatched message by message;    *)
(* what an answer resolves runs only after the rest of its chunk.  The      *)
(* app-server's own truth (which turns run) is kept beside the holder's     *)
(* account of it.  Turns are numbered in the order they are asked for.      *)
(***************************************************************************)
EXTENDS Naturals, Sequences, FiniteSets

CONSTANTS
    MaxTurns,   \* how many turns are asked for, at most
    Working,    \* the turns that run a command
    MaxStops,   \* how often a stop is requested, at most
    MaxUnheard, \* how many messages the app writes ahead of the holder, at most
    NoTurn

ASSUME SessionHolderAssumption ==
    /\ MaxTurns \in Nat \ {0}
    /\ Working \subseteq 1..MaxTurns
    /\ MaxStops \in Nat /\ MaxUnheard \in Nat
    /\ NoTurn \notin Nat

VARIABLES
    app,         \* the child: up, exited, crashed
    turn,        \* truth of each turn: none, asked, running, over, cut
    command,     \* truth of its command: none, running, over, cut
    unanswered,  \* the turns whose request the app has not answered
    status,      \* the turn the app announced its thread active for, or
                 \* NoTurn when it last said idle
    wire,        \* what the app wrote and the holder has not dispatched
    phase,       \* the holder's main line
    queue,       \* requests waiting for their turn; TRUE is the first one
    flight,      \* the request at the head, or NoTurn
    asked,       \* how many turns were asked for
    active,      \* turns the holder counts as running
    busy,
    turnStarted,
    current,     \* the turn of the last turn/started
    lastTurn,    \* the last turn completed, or NoTurn
    pending,     \* commands without a terminal receipt
    unresolved,  \* a request whose outcome is unknown
    broken,      \* the receipts' ledger failed
    owns,        \* the session record still names this launch
    stopping,
    stop,        \* where the finalization of a stop stands
    interrupts,  \* of each turn: none, pending, done, failed
    closingApp,  \* the child's input was ended
    closed,      \* the child's exit and the end of its output were seen
    confirmed,   \* stop/confirmed is in the receipts and the record
    stops

world == <<app, turn, command, unanswered, status>>
account == <<active, busy, turnStarted, current, lastTurn, pending>>
ending == <<stopping, stop, interrupts, closingApp, closed, confirmed, stops>>
holderVars == <<app, turn, command, unanswered, status, wire, phase, queue, flight, asked,
          active, busy, turnStarted, current, lastTurn, pending,
          unresolved, broken, owns, stopping, stop, interrupts, closingApp, closed, confirmed, stops>>

Turns == 1..MaxTurns
Up == phase \notin {"gone", "notStarted"}

Flight == [turn : Turns \cup {NoTurn}, first : BOOLEAN, heard : SUBSET Turns, answered : BOOLEAN]

(* A request is not the absence of one.                                     *)
ASSUME NoFlightAssumption == NoTurn \notin Flight

(* A status does not name the turn it goes with; nobody reads it there.     *)
Kinds == {"answer", "active", "started", "completed", "idle", "begun", "ended", "interrupted"}
Message == [kind : Kinds, turn : Turns]

Say(k, t) ==
    /\ Len(wire) < MaxUnheard
    /\ wire' = Append(wire, [kind |-> k, turn |-> t])

(* The thread was called active for a turn that has not started yet.        *)
Announced == status # NoTurn /\ turn[status] = "asked"

Unfinished == {t \in Turns : turn[t] \in {"asked", "running"}}

(* The child ends, by itself or killed: what it had not finished is cut.    *)
Ends(how) ==
    /\ app' = how
    /\ turn' = [t \in Turns |-> IF t \in Unfinished THEN "cut" ELSE turn[t]]
    /\ command' = [t \in Turns |-> IF command[t] = "running" THEN "cut" ELSE command[t]]
    /\ status' = NoTurn
    /\ UNCHANGED unanswered

(* failHold, or another exit of the holder: the child is killed first, and  *)
(* the holder's memory is gone.                                             *)
Gone(how) ==
    /\ phase' = how
    /\ IF app = "up" THEN Ends("crashed") ELSE UNCHANGED world
    /\ wire' = <<>> /\ queue' = <<>> /\ flight' = NoTurn
    /\ active' = {} /\ busy' = FALSE /\ turnStarted' = FALSE
    /\ current' = NoTurn /\ pending' = {}
    /\ unresolved' = FALSE /\ broken' = FALSE
    /\ stopping' = FALSE /\ stop' = "none"
    /\ interrupts' = [t \in Turns |-> "none"]
    /\ closingApp' = FALSE /\ closed' = FALSE
    /\ UNCHANGED <<asked, lastTurn, owns, confirmed, stops>>

HolderInit ==
    /\ app = "up"
    /\ turn = [t \in Turns |-> "none"]
    /\ command = [t \in Turns |-> "none"]
    /\ unanswered = {} /\ status = NoTurn /\ wire = <<>>
    /\ phase = "binding"
    /\ queue = <<>> /\ flight = NoTurn /\ asked = 0
    /\ active = {} /\ busy = FALSE /\ turnStarted = FALSE
    /\ current = NoTurn /\ lastTurn = NoTurn /\ pending = {}
    /\ unresolved = FALSE /\ broken = FALSE /\ owns = TRUE
    /\ stopping = FALSE /\ stop = "none"
    /\ interrupts = [t \in Turns |-> "none"]
    /\ closingApp = FALSE /\ closed = FALSE /\ confirmed = FALSE /\ stops = 0

-----------------------------------------------------------------------------
(* The app-server                                                           *)

NothingRuns == \A u \in Turns : turn[u] # "running"

(* Some versions say the thread's status around a turn: active before its   *)
(* start, idle after its end.  Others never do, or in a form the holder     *)
(* does not read.                                                           *)
AppActive(t) ==
    /\ app = "up" /\ turn[t] = "asked" /\ NothingRuns /\ status = NoTurn
    /\ status' = t
    /\ Say("active", t)
    /\ UNCHANGED <<app, turn, command, unanswered, phase, queue, flight, asked, account, unresolved, broken,
                   owns, ending>>

AppIdle(t) ==
    /\ app = "up" /\ status = t /\ NothingRuns /\ ~Announced
    /\ status' = NoTurn
    /\ Say("idle", t)
    /\ UNCHANGED <<app, turn, command, unanswered, phase, queue, flight, asked, account, unresolved, broken,
                   owns, ending>>

AppStarts(t) ==
    /\ app = "up" /\ turn[t] = "asked" /\ NothingRuns
    /\ Announced => status = t
    /\ turn' = [turn EXCEPT ![t] = "running"]
    /\ Say("started", t)
    /\ UNCHANGED <<app, command, unanswered, status, phase, queue, flight, asked, account, unresolved, broken,
                   owns, ending>>

AppAnswers(t) ==
    /\ app = "up" /\ t \in unanswered
    /\ unanswered' = unanswered \ {t}
    /\ Say("answer", t)
    /\ UNCHANGED <<app, turn, command, status, phase, queue, flight, asked, account, unresolved, broken,
                   owns, ending>>

AppRuns(t) ==
    /\ app = "up" /\ turn[t] = "running" /\ command[t] = "none" /\ t \in Working
    /\ command' = [command EXCEPT ![t] = "running"]
    /\ Say("begun", t)
    /\ UNCHANGED <<app, turn, unanswered, status, phase, queue, flight, asked, account, unresolved, broken,
                   owns, ending>>

AppRan(t) ==
    /\ app = "up" /\ command[t] = "running"
    /\ command' = [command EXCEPT ![t] = "over"]
    /\ Say("ended", t)
    /\ UNCHANGED <<app, turn, unanswered, status, phase, queue, flight, asked, account, unresolved, broken,
                   owns, ending>>

AppCompletes(t) ==
    /\ app = "up" /\ turn[t] = "running" /\ command[t] # "running"
    /\ turn' = [turn EXCEPT ![t] = "over"]
    /\ Say("completed", t)
    /\ UNCHANGED <<app, command, unanswered, status, phase, queue, flight, asked, account, unresolved, broken,
                   owns, ending>>

(* An interrupt is acknowledged, and ends a turn that runs no command.      *)
AppInterrupts(t) ==
    /\ app = "up" /\ interrupts[t] = "pending"
    /\ \A i \in 1..Len(wire) : wire[i] # [kind |-> "interrupted", turn |-> t]
    /\ IF turn[t] = "running" /\ command[t] # "running"
       THEN /\ Len(wire) + 1 < MaxUnheard
            /\ turn' = [turn EXCEPT ![t] = "over"]
            /\ wire' = wire \o <<[kind |-> "interrupted", turn |-> t], [kind |-> "completed", turn |-> t]>>
       ELSE Say("interrupted", t) /\ UNCHANGED turn
    /\ UNCHANGED <<app, command, unanswered, status, phase, queue, flight, asked, account, unresolved, broken,
                   owns, ending>>

(* Its input ended, it exits; or it dies.                                   *)
AppExits ==
    /\ app = "up" /\ closingApp
    /\ Ends("exited")
    /\ UNCHANGED <<wire, phase, queue, flight, asked, account, unresolved, broken, owns, ending>>

AppCrashes ==
    /\ app = "up"
    /\ Ends("crashed")
    /\ UNCHANGED <<wire, phase, queue, flight, asked, account, unresolved, broken, owns, ending>>

-----------------------------------------------------------------------------
(* Requests for turns                                                       *)

(* The launcher says the owner is bound; the first turn is asked for.       *)
Bound ==
    /\ phase = "binding"
    /\ IF stopping
       THEN Gone("gone")
       ELSE /\ phase' = "first"
            /\ queue' = Append(queue, TRUE)
            /\ UNCHANGED <<world, wire, flight, asked, account, unresolved, broken, owns, ending>>

(* A wake, over the holder's socket.                                        *)
Wake ==
    /\ Up /\ ~stopping
    /\ asked + Len(queue) + (IF flight = NoTurn THEN 0 ELSE 1)
         + (IF phase = "binding" THEN 1 ELSE 0) < MaxTurns
    /\ queue' = Append(queue, FALSE)
    /\ UNCHANGED <<world, wire, phase, flight, asked, account, unresolved, broken, owns, ending>>

MayAsk == owns /\ ~stopping

(* requestTurn's chain takes the next request, and waits for the check of   *)
(* the participant's credentials.  The first turn refused ends the holder.  *)
TakeRequest ==
    /\ Up /\ flight = NoTurn /\ queue # <<>>
    /\ IF Head(queue) /\ ~(MayAsk /\ ~broken)
       THEN Gone("gone")
       ELSE /\ queue' = Tail(queue)
            /\ flight' = IF MayAsk /\ ~broken
                         THEN [turn |-> NoTurn, first |-> Head(queue), heard |-> {}, answered |-> FALSE]
                         ELSE NoTurn
            /\ UNCHANGED <<world, wire, phase, asked, account, unresolved, broken, owns, ending>>

(* Under the launch lock, after the check: ownership and the stop are       *)
(* looked at once more, and the request is written.                         *)
SendRequest ==
    /\ Up /\ flight # NoTurn /\ flight.turn = NoTurn
    /\ IF flight.first /\ ~MayAsk
       THEN Gone("gone")
       ELSE /\ asked' = IF MayAsk THEN asked + 1 ELSE asked
            /\ flight' = IF MayAsk THEN [flight EXCEPT !.turn = asked'] ELSE NoTurn
            /\ IF MayAsk /\ app = "up"
               THEN /\ turn' = [turn EXCEPT ![asked'] = "asked"]
                    /\ unanswered' = unanswered \cup {asked'}
                    /\ UNCHANGED <<app, command, status>>
               ELSE UNCHANGED world
            /\ UNCHANGED <<wire, phase, queue, account, unresolved, broken, owns, ending>>

\* mutant: a completion that came before the answer is not remembered
CountsAnyAnswer == TRUE

(* A turn that was heard completed while its request was open, or was the   *)
(* last one completed, is not counted again by the answer.                  *)
CountsAnswered == flight.turn \notin flight.heard /\ flight.turn # lastTurn

FirstStarted == turnStarted

(* What the answer resolves.  The main line goes on to wait for the first   *)
(* turn's start, unless a turn is started already.                          *)
RequestSettles ==
    /\ Up /\ flight # NoTurn /\ flight.answered
    /\ active' = IF CountsAnswered THEN active \cup {flight.turn} ELSE active
    /\ busy' = (busy \/ CountsAnswered \/ flight.first)
    /\ current' = IF flight.first THEN flight.turn ELSE current
    /\ phase' = IF ~flight.first THEN phase
                ELSE IF FirstStarted THEN "alive" ELSE "waitStarted"
    /\ flight' = NoTurn
    /\ UNCHANGED <<world, wire, queue, asked, turnStarted, lastTurn, pending,
                   unresolved, broken, owns, ending>>

RequestTimesOut ==
    /\ Up /\ flight # NoTurn /\ flight.turn # NoTurn /\ ~flight.answered
    /\ IF flight.first
       THEN Gone("gone")
       ELSE /\ unresolved' = TRUE
            /\ flight' = NoTurn
            /\ UNCHANGED <<world, wire, phase, queue, asked, account, broken, owns, ending>>

(* The first turn did not start, says the holder.                           *)
FirstTurnTimesOut ==
    /\ phase = "waitStarted"
    /\ Gone("notStarted")

-----------------------------------------------------------------------------
(* Dispatch.  A holder that lost the launch hears no notification.          *)

Hears(k, t) ==
    /\ Up /\ wire # <<>>
    /\ Head(wire) = [kind |-> k, turn |-> t]
    /\ wire' = Tail(wire)

HearStarted(t) ==
    /\ Hears("started", t)
    /\ IF owns
       THEN /\ active' = active \cup {t}
            /\ busy' = TRUE /\ turnStarted' = TRUE /\ current' = t
            /\ phase' = IF phase = "waitStarted" THEN "alive" ELSE phase
       ELSE UNCHANGED <<active, busy, turnStarted, current, phase>>
    /\ UNCHANGED <<world, queue, flight, asked, lastTurn, pending, unresolved, broken, owns, ending>>

BusyAfter(left) == left # {}

HearCompleted(t) ==
    /\ Hears("completed", t)
    /\ IF owns
       THEN /\ active' = active \ {t}
            /\ busy' = BusyAfter(active')
            /\ turnStarted' = (turnStarted /\ t # current)
            /\ lastTurn' = t
            /\ flight' = IF flight # NoTurn THEN [flight EXCEPT !.heard = @ \cup {t}] ELSE NoTurn
       ELSE UNCHANGED <<active, busy, turnStarted, lastTurn, flight>>
    /\ UNCHANGED <<world, phase, queue, asked, current, pending, unresolved, broken, owns, ending>>

(* thread/status/changed: idle is believed as far as no turn is counted,    *)
(* active always.                                                           *)
HearStatus(t) ==
    /\ \/ Hears("active", t) /\ busy' = (busy \/ owns)
       \/ Hears("idle", t) /\ busy' = IF owns THEN BusyAfter(active) ELSE busy
    /\ UNCHANGED <<world, phase, queue, flight, asked, active, turnStarted, current, lastTurn, pending,
                   unresolved, broken, owns, ending>>

(* An answer nobody waits for any more is an orphan.                        *)
HearAnswer(t) ==
    /\ Hears("answer", t)
    /\ flight' = IF flight # NoTurn /\ flight.turn = t THEN [flight EXCEPT !.answered = TRUE] ELSE flight
    /\ UNCHANGED <<world, phase, queue, asked, account, unresolved, broken, owns, ending>>

HearCommand(t) ==
    /\ \E k \in {"begun", "ended"} :
          /\ Hears(k, t)
          /\ pending' = IF ~owns THEN pending
                        ELSE IF k = "begun" THEN pending \cup {t} ELSE pending \ {t}
    /\ UNCHANGED <<world, phase, queue, flight, asked, active, busy, turnStarted, current, lastTurn,
                   unresolved, broken, owns, ending>>

HearInterrupted(t) ==
    /\ Hears("interrupted", t)
    /\ \E answer \in {"done", "failed"} :
          interrupts' = [interrupts EXCEPT ![t] = IF @ = "pending" THEN answer ELSE @]
    /\ UNCHANGED <<world, phase, queue, flight, asked, account, unresolved, broken, owns,
                   stopping, stop, closingApp, closed, confirmed, stops>>

(* The child's close, after all its output: a holder that is not stopping   *)
(* exits with it, and one that did not end its input loses the ledger.      *)
HearClose ==
    /\ Up /\ app \in {"exited", "crashed"} /\ wire = <<>> /\ ~closed
    /\ IF ~stopping
       THEN Gone("gone")
       ELSE /\ closed' = TRUE
            /\ broken' = (broken \/ ~closingApp)
            /\ UNCHANGED <<world, wire, phase, queue, flight, asked, account, unresolved, owns,
                           stopping, stop, interrupts, closingApp, confirmed, stops>>

-----------------------------------------------------------------------------
(* The launch's record is replaced or removed by another owner; the record  *)
(* watch then ends the holder.                                              *)

Lose ==
    /\ Up /\ owns
    /\ owns' = FALSE
    /\ UNCHANGED <<world, wire, phase, queue, flight, asked, account, unresolved, broken, ending>>

RecordWatch ==
    /\ Up /\ ~owns
    /\ Gone("gone")

-----------------------------------------------------------------------------
(* Stop (finalizeStop).  Each wait ends by its condition or the deadline;   *)
(* an end that is not the confirmation leaves the holder stopping, and the  *)
(* request may be repeated.                                                 *)

(* A repeated request joins the one in flight, and a confirmed one stands.  *)
StopRequested ==
    /\ Up /\ owns /\ ~confirmed /\ stop = "none" /\ stops < MaxStops
    /\ stops' = stops + 1
    /\ stopping' = TRUE
    /\ stop' = IF closed THEN "none" ELSE "settle"
    /\ UNCHANGED <<world, wire, phase, queue, flight, asked, account, unresolved, broken, owns,
                   interrupts, closingApp, closed, confirmed>>

StopStep == UNCHANGED <<phase, wire, queue, flight, asked, account, unresolved, broken, owns,
                        stopping, confirmed, closed, stops>>

\* mutant: a stop does not wait for the turn request that is in flight
RequestsIgnored == TRUE

RequestsSettled == queue = <<>> /\ flight = NoTurn

Settle ==
    /\ Up /\ stop = "settle"
    /\ RequestsSettled \/ broken
    /\ stop' = IF broken \/ unresolved THEN "none" ELSE "commands"
    /\ StopStep /\ UNCHANGED <<world, interrupts, closingApp>>

(* A command that runs is waited for, never interrupted: then every turn    *)
(* the holder counts is interrupted, once.                                  *)
Commands ==
    /\ Up /\ stop = "commands"
    /\ pending = {} \/ broken
    /\ IF broken
       THEN stop' = "none" /\ UNCHANGED interrupts
       ELSE /\ stop' = "interrupts"
            /\ interrupts' = [t \in Turns |-> IF t \in active /\ interrupts[t] = "none"
                                              THEN "pending" ELSE interrupts[t]]
    /\ StopStep /\ UNCHANGED <<world, closingApp>>

Interrupts ==
    /\ Up /\ stop = "interrupts"
    /\ \A t \in Turns : interrupts[t] # "pending"
    /\ stop' = IF \E t \in Turns : interrupts[t] = "failed" THEN "none" ELSE "drain"
    /\ StopStep /\ UNCHANGED <<world, interrupts, closingApp>>

(* With no turn and no command left, the child's input is ended.            *)
Drain ==
    /\ Up /\ stop = "drain"
    /\ broken \/ (active = {} /\ pending = {})
    /\ IF broken \/ ~owns
       THEN stop' = "none" /\ UNCHANGED closingApp
       ELSE stop' = "close" /\ closingApp' = TRUE
    /\ StopStep /\ UNCHANGED <<world, interrupts>>

CleanClose == app = "exited" /\ pending = {} /\ active = {} /\ ~broken

Confirm ==
    /\ Up /\ stop = "close" /\ closed
    /\ stop' = "none"
    /\ confirmed' = (CleanClose /\ owns)
    /\ UNCHANGED <<world, phase, wire, queue, flight, asked, account, unresolved, broken, owns,
                   stopping, interrupts, closingApp, closed, stops>>

ConfirmedExit ==
    /\ Up /\ confirmed
    /\ Gone("gone")

\* mutant: the wait for the child's close has no deadline
TimedBeforeClose == {"settle", "commands", "interrupts", "drain"}

Timed == {"settle", "commands", "interrupts", "drain", "close"}

Deadline ==
    /\ Up /\ stop \in Timed
    /\ stop' = "none"
    /\ interrupts' = [t \in Turns |-> IF interrupts[t] = "pending" THEN "failed" ELSE interrupts[t]]
    /\ StopStep /\ UNCHANGED <<world, closingApp>>

-----------------------------------------------------------------------------

App == AppExits \/ AppCrashes
       \/ \E t \in Turns : \/ AppActive(t) \/ AppIdle(t)
                           \/ AppStarts(t) \/ AppAnswers(t) \/ AppRuns(t)
                           \/ AppRan(t) \/ AppCompletes(t) \/ AppInterrupts(t)

Dispatch == HearClose
            \/ \E t \in Turns : \/ HearStarted(t) \/ HearCompleted(t) \/ HearStatus(t) \/ HearAnswer(t)
                                \/ HearCommand(t) \/ HearInterrupted(t)

Requests == Bound \/ Wake \/ TakeRequest \/ SendRequest \/ RequestSettles
            \/ RequestTimesOut \/ FirstTurnTimesOut

Finalize == StopRequested \/ Settle \/ Commands \/ Interrupts \/ Drain
        \/ Confirm \/ ConfirmedExit \/ Deadline

HolderNext == App \/ Dispatch \/ Requests \/ Finalize \/ Lose \/ RecordWatch

(* The event loop runs what is due; the deadline is a timer.  The child,    *)
(* the callers and the launch's owner owe nothing.                          *)
HolderFairness ==
    /\ WF_holderVars(Dispatch)
    /\ WF_holderVars(TakeRequest \/ SendRequest \/ RequestSettles)
    /\ WF_holderVars(Deadline)

HolderSpec == HolderInit /\ [][HolderNext]_holderVars /\ HolderFairness

-----------------------------------------------------------------------------

HolderTypeOK ==
    /\ app \in {"up", "exited", "crashed"}
    /\ turn \in [Turns -> {"none", "asked", "running", "over", "cut"}]
    /\ command \in [Turns -> {"none", "running", "over", "cut"}]
    /\ unanswered \subseteq Turns
    /\ status \in Turns \cup {NoTurn}
    /\ wire \in Seq(Message)
    /\ phase \in {"binding", "first", "waitStarted", "alive", "gone", "notStarted"}
    /\ queue \in Seq(BOOLEAN)
    /\ flight \in Flight \cup {NoTurn}
    /\ asked \in 0..MaxTurns
    /\ active \subseteq Turns /\ pending \subseteq Turns
    /\ {busy, turnStarted, unresolved, broken, owns, stopping, closingApp, closed, confirmed} \subseteq BOOLEAN
    /\ {current, lastTurn} \subseteq Turns \cup {NoTurn}
    /\ stop \in {"none"} \cup Timed
    /\ interrupts \in [Turns -> {"none", "pending", "done", "failed"}]
    /\ stops \in 0..MaxStops

(* A confirmed stop means that nothing was cut off: the child ended by      *)
(* itself, every turn asked of it ran to its end, and no command was left   *)
(* running, whatever was in flight or unheard when the stop came            *)
(* (finalizeStop; what follows a confirmation removes the worktree).        *)
ConfirmedIsQuiet ==
    confirmed =>
        /\ app = "exited"
        /\ \A t \in Turns : turn[t] \in {"none", "over"} /\ command[t] \in {"none", "over"}

CaughtUp == Up /\ owns /\ app = "up" /\ wire = <<>> /\ (flight = NoTurn \/ ~flight.answered)

(* Once everything written was dispatched, the holder's account is the      *)
(* child's truth: what runs is counted, and what is counted runs or was     *)
(* asked for, in whatever order start, completion and answer came           *)
(* (requestTurn and the turn/started, turn/completed handlers).             *)
AccountsAreExact ==
    CaughtUp =>
        /\ \A t \in Turns : turn[t] = "running" => t \in active
        /\ \A t \in active : turn[t] \in {"asked", "running"}
        /\ pending = {t \in Turns : command[t] = "running"}

(* A holder that said it is alive is busy while a turn is counted, whatever *)
(* the status of the thread says, and without one only while a turn the     *)
(* child announced has still to start.  The session's record takes busy     *)
(* over at a start, an end and when the holder comes alive: a session that  *)
(* says idle is knocked at, and one that says busy for ever is not (the     *)
(* status handler and the note at the end of holdMain).                     *)
BusyIsHonest ==
    phase = "alive" /\ CaughtUp =>
        /\ active # {} => busy
        /\ busy => active # {} \/ Announced

(* What the holder answers to others is the truth about its child.          *)
SnapshotIsHonest == HolderTypeOK /\ AccountsAreExact /\ BusyIsHonest

(* Every stop gets its answer by the deadline, with a child that never      *)
(* answers, completes or exits.                                             *)
StopIsAnswered == stop # "none" ~> stop = "none"

=============================================================================
