---------------------------- MODULE MessageStore ----------------------------
(***************************************************************************)
(* The mail of one task in src/v1: ordered commit of a message as an       *)
(* intent, its fan-out by hard links to a canon and to inbox refs, the     *)
(* consuming read, crash recovery of abandoned intents, the complete       *)
(* "facts" snapshot, assignment boundaries and close.  Processes share     *)
(* only the file system; each file system call that another process can    *)
(* come between is a step.  The two directory locks are ExclusiveLock: a   *)
(* crashed holder's lock is free to the next taker.                        *)
(***************************************************************************)
EXTENDS Naturals, FiniteSets

CONSTANTS
    Procs,        \* engine processes: senders, recoverers, readers at once
    Recipients,   \* participants with a mailbox
    None,
    Calls,        \* bound on what the processes call, of AllCalls
    MaxId,        \* bound on reserved ids; an id is its position in the order
    MaxRefusals,  \* bound on refused file system calls during fan-outs
    SlowWriters   \* may a live writer's intent reach INTENT_STALE_MS?

Ids == 1..MaxId
AllCalls == {"send", "assign", "recover", "facts", "read", "close"}

ASSUME NoneAssumption == None \notin Procs \cup Recipients
ASSUME BoundsAssumption ==
    /\ Calls \subseteq AllCalls
    /\ MaxId \in Nat /\ MaxRefusals \in Nat /\ SlowWriters \in BOOLEAN

VARIABLES
    \* the store
    active,      \* the task's journal says "active"
    head,        \* the order head: the last id reserved
    message,     \* what each committed id says: recipients, is it an assignment
    intent,      \* intents/<id>.json: "none", "torn" (created, empty) or "whole"
    lease,       \* intents/<id>.owner: the writer's process
    old,         \* intents past INTENT_STALE_MS
    canon,       \* messages/
    inbox,       \* inbox/<recipient>/
    history,     \* history/<recipient>/
    quarantine,  \* broken/messages/
    boundary,    \* metadata.assignmentAfterId of each recipient
    taskLock,    \* .lock
    commitLock,  \* .message-order-lock
    \* the processes
    running,     \* those that have not crashed
    pc,          \* the next call of each
    job,         \* why it is in the shared part: "send", "assign", "recover", "facts"
    at,          \* the id it works on
    left,        \* recipients its fan-out has not come to
    target,      \* the recipient it found without a ref, or whose mail it reads
    walk,        \* the directory listing it walks
    \* what callers were told
    committed,   \* ids whose intent became whole: the commit point
    acked,       \* ids whose send returned success
    refusals     \* refused calls so far

store == <<active, head, message, intent, lease, old, canon, inbox, history,
           quarantine, boundary>>
locks == <<taskLock, commitLock>>
local == <<job, at, left, target, walk>>
told  == <<committed, acked, refusals>>
vars  == <<store, locks, running, pc, local, told>>

PCs == {"idle", "task", "commit", "recheck", "reserve", "intent", "fill", "lease",
        "assign", "canon", "ref", "link", "retire", "walk", "torn",
        "broken", "intents", "messages", "read"}
Jobs == {"none", "send", "assign", "recover", "facts", "read"}
Message == [to : SUBSET Recipients, assigns : BOOLEAN]
Blank == [to |-> {}, assigns |-> FALSE]

TypeOK ==
    /\ active \in BOOLEAN
    /\ head \in 0..MaxId
    /\ message \in [Ids -> Message]
    /\ intent \in [Ids -> {"none", "torn", "whole"}]
    /\ lease \in [Ids -> Procs \cup {None}]
    /\ old \subseteq Ids
    /\ canon \subseteq Ids
    /\ inbox \in [Recipients -> SUBSET Ids]
    /\ history \in [Recipients -> SUBSET Ids]
    /\ quarantine \subseteq Ids
    /\ boundary \in [Recipients -> 0..MaxId]
    /\ taskLock \in Procs \cup {None}
    /\ commitLock \in Procs \cup {None}
    /\ running \subseteq Procs
    /\ pc \in [Procs -> PCs]
    /\ job \in [Procs -> Jobs]
    /\ at \in [Procs -> 0..MaxId]
    /\ left \in [Procs -> SUBSET Recipients]
    /\ target \in [Procs -> Recipients \cup {None}]
    /\ walk \in [Procs -> SUBSET Ids]
    /\ committed \subseteq Ids
    /\ acked \subseteq Ids
    /\ refusals \in 0..MaxRefusals

Init ==
    /\ active = TRUE
    /\ head = 0
    /\ message = [m \in Ids |-> Blank]
    /\ intent = [m \in Ids |-> "none"]
    /\ lease = [m \in Ids |-> None]
    /\ old = {} /\ canon = {} /\ quarantine = {}
    /\ inbox = [r \in Recipients |-> {}]
    /\ history = [r \in Recipients |-> {}]
    /\ boundary = [r \in Recipients |-> 0]
    /\ taskLock = None /\ commitLock = None
    /\ running = Procs
    /\ pc = [p \in Procs |-> "idle"]
    /\ job = [p \in Procs |-> "none"]
    /\ at = [p \in Procs |-> 0]
    /\ left = [p \in Procs |-> {}]
    /\ target = [p \in Procs |-> None]
    /\ walk = [p \in Procs |-> {}]
    /\ committed = {} /\ acked = {} /\ refusals = 0

At(p, label) == p \in running /\ pc[p] = label
Goto(p, label) == pc' = [pc EXCEPT ![p] = label]
Free(lock) == lock = None \/ lock \notin running
Intents == {m \in Ids : intent[m] # "none"}
First(S) == CHOOSE m \in S : \A n \in S : m <= n

\* Back to the caller, whatever was being done; what a process remembers of
\* the last call means nothing to the next.
Return(p) ==
    /\ Goto(p, "idle")
    /\ job' = [job EXCEPT ![p] = "none"]
    /\ at' = [at EXCEPT ![p] = 0]
    /\ left' = [left EXCEPT ![p] = {}]
    /\ target' = [target EXCEPT ![p] = None]
    /\ walk' = [walk EXCEPT ![p] = {}]

Unlock == taskLock' = None /\ commitLock' = None

----------------------------------------------------------------------------
(* send and assignParticipant: the section under task then commit lock.    *)

\* prepare has already read the task as active; the section reads it again.
Begin(p) ==
    /\ At(p, "idle")
    /\ \E j \in {"send", "assign"} \cap Calls : active /\ job' = [job EXCEPT ![p] = j]
    /\ Goto(p, "task")
    /\ UNCHANGED <<store, locks, running, at, left, target, walk, told>>

TakeTaskLock(p) ==
    /\ At(p, "task")
    /\ Free(taskLock)
    /\ taskLock' = p
    /\ Goto(p, "commit")
    /\ UNCHANGED <<store, commitLock, running, local, told>>

TakeCommitLock(p) ==
    /\ At(p, "commit")
    /\ Free(commitLock)
    /\ commitLock' = p
    /\ Goto(p, IF job[p] = "facts" THEN "broken" ELSE "recheck")
    /\ UNCHANGED <<store, taskLock, running, local, told>>

\* mutant: the task read by prepare is trusted.
RecheckNothing(p) ==
    /\ At(p, "recheck")
    /\ Goto(p, "reserve")
    /\ UNCHANGED <<store, locks, running, local, told>>

Recheck(p) ==
    /\ At(p, "recheck")
    /\ IF active
       THEN Goto(p, "reserve") /\ UNCHANGED <<locks, local>>
       ELSE Return(p) /\ Unlock
    /\ UNCHANGED <<store, running, told>>

\* The head is replaced before anything names the id; an id that the
\* encoding has no room for is refused.
Reserve(p) ==
    /\ At(p, "reserve")
    /\ IF head < MaxId
       THEN /\ head' = head + 1
            /\ at' = [at EXCEPT ![p] = head + 1]
            /\ Goto(p, IF job[p] = "send" THEN "intent" ELSE "assign")
            /\ UNCHANGED <<locks, job, left, target, walk>>
       ELSE Return(p) /\ Unlock /\ UNCHANGED head
    /\ UNCHANGED <<active, message, intent, lease, old, canon, inbox, history, quarantine,
                   boundary, running, told>>

\* open(wx) and the write of the body are two system calls: a crash between
\* them leaves a torn record.
CreateIntent(p) ==
    /\ At(p, "intent")
    /\ intent' = [intent EXCEPT ![at[p]] = "torn"]
    /\ Goto(p, "fill")
    /\ UNCHANGED <<active, head, message, lease, old, canon, inbox, history, quarantine,
                   boundary, locks, running, local, told>>

FillIntent(p) ==
    /\ At(p, "fill")
    /\ \E to \in SUBSET Recipients \ {{}}, assigns \in BOOLEAN :
          message' = [message EXCEPT ![at[p]] = [to |-> to, assigns |-> assigns]]
    /\ intent' = [intent EXCEPT ![at[p]] = "whole"]
    /\ committed' = committed \cup {at[p]}
    /\ Goto(p, "lease")
    /\ UNCHANGED <<active, head, lease, old, canon, inbox, history, quarantine, boundary,
                   locks, running, local, acked, refusals>>

\* mutant: the boundary is written after the section, not inside it.
LeaseAndUnlock(p) ==
    /\ At(p, "lease")
    /\ lease' \in {lease, [lease EXCEPT ![at[p]] = p]}
    /\ Goto(p, IF message[at[p]].assigns THEN "assign" ELSE "canon")
    /\ Unlock
    /\ UNCHANGED <<active, head, message, intent, old, canon, inbox, history, quarantine,
                   boundary, running, local, told>>

\* The lease comes after the intent; a refusal to write it changes nothing.
LeaseIntent(p) ==
    /\ At(p, "lease")
    /\ lease' \in {lease, [lease EXCEPT ![at[p]] = p]}
    /\ IF message[at[p]].assigns
       THEN Goto(p, "assign") /\ UNCHANGED locks
       ELSE Goto(p, "canon") /\ Unlock
    /\ UNCHANGED <<active, head, message, intent, old, canon, inbox, history, quarantine,
                   boundary, running, local, told>>

\* One journal write raises the boundary: of the recipients of an assigning
\* message, or of the participant a launch is assigned to.
Assign(p) ==
    /\ At(p, "assign")
    /\ \E who \in SUBSET Recipients :
          /\ IF job[p] = "send" THEN who = message[at[p]].to ELSE Cardinality(who) = 1
          /\ boundary' = [r \in Recipients |-> IF r \in who THEN at[p] ELSE boundary[r]]
    /\ IF job[p] = "send" THEN Goto(p, "canon") /\ UNCHANGED local ELSE Return(p)
    /\ Unlock
    /\ UNCHANGED <<active, head, message, intent, lease, old, canon, inbox, history,
                   quarantine, running, told>>

----------------------------------------------------------------------------
(* completeFanout, by the sender or by a recoverer.                        *)

Advance(p) ==
    IF job[p] = "send" THEN Return(p)
    ELSE Goto(p, "walk") /\ UNCHANGED local

\* Recovery goes on past what it could not repair, but facts that asked for
\* it will be refused: what is left of the call is a plain recovery.
Fail(p) ==
    IF job[p] = "send" THEN Return(p)
    ELSE /\ Goto(p, "walk")
         /\ job' = [job EXCEPT ![p] = "recover"]
         /\ UNCHANGED <<at, left, target, walk>>

\* An intent that is gone with its canon in place was finished by another;
\* gone without a canon it is lost, and the caller is told so.
Materialize(p) ==
    /\ At(p, "canon")
    /\ canon' = IF intent[at[p]] # "none" THEN canon \cup {at[p]} ELSE canon
    /\ IF at[p] \in canon'
       THEN /\ Goto(p, "ref")
            /\ left' = [left EXCEPT ![p] = message[at[p]].to]
            /\ UNCHANGED <<job, at, target, walk>>
       ELSE Fail(p)
    /\ UNCHANGED <<active, head, message, intent, lease, old, inbox, history, quarantine,
                   boundary, locks, running, told>>

Delivered(m, r) == m \in inbox[r] \cup history[r]

CheckDelivered(p, r) ==
    /\ At(p, "ref")
    /\ r \in left[p]
    /\ IF Delivered(at[p], r)
       THEN left' = [left EXCEPT ![p] = @ \ {r}] /\ UNCHANGED <<pc, target>>
       ELSE Goto(p, "link") /\ target' = [target EXCEPT ![p] = r] /\ UNCHANGED left
    /\ UNCHANGED <<store, locks, running, job, at, walk, told>>

\* linkOnce: EEXIST leaves the neighbour's ref.
LinkRef(p) ==
    /\ At(p, "link")
    /\ inbox' = [inbox EXCEPT ![target[p]] = @ \cup {at[p]}]
    /\ left' = [left EXCEPT ![p] = @ \ {target[p]}]
    /\ target' = [target EXCEPT ![p] = None]
    /\ Goto(p, "ref")
    /\ UNCHANGED <<active, head, message, intent, lease, old, canon, history, quarantine,
                   boundary, locks, running, job, at, walk, told>>

\* mutant: the intent leaves with the canon, before the refs.
AnyRefs(p) ==
    /\ At(p, "ref")
    /\ Goto(p, "retire")
    /\ UNCHANGED <<store, locks, running, local, told>>

AllRefs(p) ==
    /\ At(p, "ref")
    /\ left[p] = {}
    /\ Goto(p, "retire")
    /\ UNCHANGED <<store, locks, running, local, told>>

\* Intent and lease leave under the commit lock, in one short section.  A
\* lease that a crash between the two removals leaves for sweepLeases is read
\* by nobody, as ids are not used again: the two are one step.
Retire(p) ==
    /\ At(p, "retire")
    /\ Free(commitLock)
    /\ intent' = [intent EXCEPT ![at[p]] = "none"]
    /\ lease' = [lease EXCEPT ![at[p]] = None]
    /\ acked' = IF job[p] = "send" THEN acked \cup {at[p]} ELSE acked
    /\ Advance(p)
    /\ UNCHANGED <<active, head, message, old, canon, inbox, history, quarantine, boundary,
                   locks, running, committed, refusals>>

\* A write, a link, a directory or a busy commit lock refuses: the intent
\* stays for a later pass, the locks are given back.  Recovery goes on past a
\* refused link only: a busy commit lock ends the whole call.
Refuse(p) ==
    /\ p \in running
    /\ pc[p] \in {"intent", "fill", "assign", "canon", "link", "retire", "torn"}
    /\ refusals < MaxRefusals
    /\ refusals' = refusals + 1
    /\ \/ pc[p] \in {"intent", "fill", "assign"} /\ Return(p) /\ Unlock
       \/ pc[p] \in {"torn", "retire"} /\ Return(p) /\ UNCHANGED locks
       \/ pc[p] \in {"canon", "link"} /\ Fail(p) /\ UNCHANGED locks
    /\ UNCHANGED <<store, running, committed, acked>>

----------------------------------------------------------------------------
(* recover, by itself or as the first half of facts.                       *)

StartRecover(p) ==
    /\ At(p, "idle")
    /\ \E j \in {"recover", "facts"} \cap Calls : job' = [job EXCEPT ![p] = j]
    /\ walk' = [walk EXCEPT ![p] = Intents]
    /\ Goto(p, "walk")
    /\ UNCHANGED <<store, locks, running, at, left, target, told>>

\* mutant: no lease, no end: the age of an intent is not looked at.
AbandonedByLease(p, m) == lease[m] # None /\ (lease[m] = p \/ lease[m] \notin running)

\* abandonedIntent: by age whatever the lease says, else by the lease's pid.
Abandoned(p, m) ==
    m \in old \/ (lease[m] # None /\ (lease[m] = p \/ lease[m] \notin running))

TakeUp(p) ==
    /\ At(p, "walk")
    /\ walk[p] # {}
    /\ LET m == First(walk[p]) IN
          /\ walk' = [walk EXCEPT ![p] = @ \ {m}]
          /\ IF intent[m] # "none" /\ Abandoned(p, m)
             THEN /\ at' = [at EXCEPT ![p] = m]
                  /\ Goto(p, IF intent[m] = "torn" THEN "torn" ELSE "canon")
             ELSE UNCHANGED <<pc, at>>
    /\ UNCHANGED <<store, locks, running, job, left, target, told>>

\* The torn record was read before the lock was waited for: what is moved
\* aside is what lies there now.
Quarantine(p) ==
    /\ At(p, "torn")
    /\ Free(commitLock)
    /\ IF intent[at[p]] # "none"
       THEN /\ intent' = [intent EXCEPT ![at[p]] = "none"]
            /\ lease' = [lease EXCEPT ![at[p]] = None]
            /\ quarantine' = quarantine \cup {at[p]}
       ELSE UNCHANGED <<intent, lease, quarantine>>
    /\ Fail(p)
    /\ UNCHANGED <<active, head, message, old, canon, inbox, history, boundary, locks,
                   running, told>>

EndRecover(p) ==
    /\ At(p, "walk")
    /\ walk[p] = {}
    /\ IF job[p] = "facts"
       THEN Goto(p, "task") /\ UNCHANGED local
       ELSE Return(p)
    /\ UNCHANGED <<store, locks, running, told>>

----------------------------------------------------------------------------
(* facts: three listings under both locks, and a refusal if the first two  *)
(* show anything unresolved.                                               *)

ListOrRefuse(p, from, to, unresolved) ==
    /\ At(p, from)
    /\ IF unresolved
       THEN Return(p) /\ Unlock
       ELSE Goto(p, to) /\ UNCHANGED <<locks, local>>
    /\ UNCHANGED <<store, running, told>>

\* mutant: broken/messages is not looked at.
ListNoBroken(p) == ListOrRefuse(p, "broken", "intents", FALSE)

ListBroken(p) == ListOrRefuse(p, "broken", "intents", quarantine # {})
ListIntents(p) == ListOrRefuse(p, "intents", "messages", Intents # {})

\* The snapshot the caller gets is the canon as it is now.
ListMessages(p) ==
    /\ At(p, "messages")
    /\ Return(p)
    /\ Unlock
    /\ UNCHANGED <<store, running, told>>

----------------------------------------------------------------------------
(* read: take the listed mail, one rename per message.                     *)

StartRead(p) ==
    /\ At(p, "idle")
    /\ "read" \in Calls
    /\ \E r \in Recipients :
          /\ inbox[r] # {}
          /\ target' = [target EXCEPT ![p] = r]
          /\ walk' = [walk EXCEPT ![p] = inbox[r]]
    /\ job' = [job EXCEPT ![p] = "read"]
    /\ Goto(p, "read")
    /\ UNCHANGED <<store, locks, running, at, left, told>>

\* rename(inbox ref, history ref).  Both are links to the one inode, and a
\* rename over a link to the same inode does nothing and succeeds: a ref
\* that is already in history stays in the inbox.
MoveToHistory(p) ==
    /\ At(p, "read")
    /\ walk[p] # {}
    /\ LET m == First(walk[p])
           r == target[p]
       IN  /\ walk' = [walk EXCEPT ![p] = @ \ {m}]
           /\ IF m \in inbox[r] \ history[r]
              THEN /\ inbox' = [inbox EXCEPT ![r] = @ \ {m}]
                   /\ history' = [history EXCEPT ![r] = @ \cup {m}]
              ELSE UNCHANGED <<inbox, history>>
    /\ UNCHANGED <<active, head, message, intent, lease, old, canon, quarantine, boundary,
                   locks, running, pc, job, at, left, target, told>>

EndRead(p) ==
    /\ At(p, "read")
    /\ walk[p] = {}
    /\ Return(p)
    /\ UNCHANGED <<store, locks, running, told>>

----------------------------------------------------------------------------
\* closeTask: one journal write under the task lock.
Close(p) ==
    /\ At(p, "idle")
    /\ "close" \in Calls
    /\ active
    /\ Free(taskLock)
    /\ active' = FALSE
    /\ UNCHANGED <<head, message, intent, lease, old, canon, inbox, history, quarantine,
                   boundary, locks, running, pc, local, told>>

\* Some process always runs: with none, nothing happens.
Crash(p) ==
    /\ p \in running
    /\ running # {p}
    /\ running' = running \ {p}
    /\ Return(p)
    /\ UNCHANGED <<store, locks, told>>

\* A live fan-out takes milliseconds and the threshold is 30 s: unless
\* SlowWriters, only an intent nobody is writing grows old.
Writing(m) ==
    \E p \in running : at[p] = m /\ job[p] = "send" /\ pc[p] \notin {"idle", "walk"}

Age(m) ==
    /\ m \in Intents \ old
    /\ SlowWriters \/ ~Writing(m)
    /\ old' = old \cup {m}
    /\ UNCHANGED <<active, head, message, intent, lease, canon, inbox, history, quarantine,
                   boundary, locks, running, pc, local, told>>

\* What a process does once it has begun a call.
Step(p) ==
    \/ TakeTaskLock(p) \/ TakeCommitLock(p) \/ Recheck(p) \/ Reserve(p)
    \/ CreateIntent(p) \/ FillIntent(p) \/ LeaseIntent(p) \/ Assign(p)
    \/ Materialize(p) \/ (\E r \in Recipients : CheckDelivered(p, r))
    \/ LinkRef(p) \/ AllRefs(p) \/ Retire(p)
    \/ TakeUp(p) \/ Quarantine(p) \/ EndRecover(p)
    \/ ListBroken(p) \/ ListIntents(p) \/ ListMessages(p)
    \/ MoveToHistory(p) \/ EndRead(p)

Next ==
    \/ \E p \in Procs :
          Begin(p) \/ StartRecover(p) \/ StartRead(p) \/ Close(p) \/ Step(p)
          \/ Refuse(p) \/ Crash(p)
    \/ \E m \in Ids : Age(m)

Spec == Init /\ [][Next]_vars

\* A call goes on to its end (a lock is polled every 20 ms and held for
\* milliseconds, so its taker wins in the end), every adapter recovers when
\* it opens the store, and time passes.
Fairness ==
    /\ \A p \in Procs : SF_vars(Step(p)) /\ SF_vars(StartRecover(p))
    /\ \A m \in Ids : WF_vars(Age(m))
FairSpec == Spec /\ Fairness

----------------------------------------------------------------------------
(* Properties *)

\* A message past its commit point is owed to each recipient or placed: the
\* intent is never dropped before every ref exists, whoever crashed.  Only a
\* quarantine, which facts refuses to pass over, may take it away.
NoMailLost ==
    \A m \in committed : \A r \in message[m].to :
        Delivered(m, r) \/ intent[m] = "whole" \/ m \in quarantine

\* A send that returned success has placed a ref for every recipient.
AckedIsDelivered ==
    \A m \in acked : m \in committed /\ \A r \in message[m].to : Delivered(m, r)

\* When facts comes to list messages, nothing committed is missing from the
\* canon: no newer assignment hides behind an older visible one.
FactsComplete ==
    \A p \in running : pc[p] = "messages" => committed \subseteq canon

\* Recovery moves aside only records whose writer never passed the commit
\* point (for writers that do not stall for the 30 s of INTENT_STALE_MS).
QuarantineIsTorn == quarantine \cap committed = {}

\* A message has one inode: a recipient holds a ref only to a canon.
RefsHaveCanon ==
    \A r \in Recipients : inbox[r] \cup history[r] \subseteq canon \cap committed

\* What facts relies on: a ref leads to a message, and a message that was
\* committed is in the listing.
StoreIsConsistent == TypeOK /\ RefsHaveCanon /\ FactsComplete

\* No mail disappears: not before it is delivered, not by a recoverer that
\* takes a message for torn, and not behind a send that returned success.
MailIsKept == NoMailLost /\ QuarantineIsTorn /\ AckedIsDelivered

\* Close is a barrier: no message is committed and no assignment boundary
\* is raised in a closed task, though an admitted fan-out may finish.
NoCommitAfterClose ==
    [][ ~active => committed' = committed /\ boundary' = boundary ]_vars

\* A participant's assignment boundary only rises, whatever interleaving of
\* senders and launches writes it.
BoundaryRises == [][ \A r \in Recipients : boundary'[r] >= boundary[r] ]_vars

\* A committed message reaches every recipient, by its sender or by whoever
\* recovers after a crash or a refusal.
MailArrives ==
    \A m \in Ids :
        m \in committed ~> (\A r \in message[m].to : Delivered(m, r)) \/ m \in quarantine

=============================================================================
