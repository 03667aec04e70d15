--------------------------- MODULE SharedService ---------------------------
(***************************************************************************)
(* The shared workspace service: launchers that find or start it           *)
(* (lib/service-client.ts), the worker process that owns it                *)
(* (lib/service.ts), and what both keep on disk (lib/service-state.ts).    *)
(* A worker is one process, so its handlers interleave only where they     *)
(* await; what it does between two awaits is the sequence todo[w] of disk  *)
(* steps, which nothing but a crash can interrupt.                         *)
(*                                                                         *)
(* owner.lock and startup.lock are taken and released under a directory    *)
(* lock (module DirLock), hence in one step here.  A call is a mutating    *)
(* tools/call: a replayable read has no effect to repeat.                  *)
(***************************************************************************)
EXTENDS Naturals, Sequences, FiniteSets

CONSTANTS
    Clients,      \* processes that launch the service and then call it
    Workers,      \* processes that run it, each started at most once
    MaxSession,   \* bound: sessions one client initializes
    MaxSends,     \* bound: times a client sends the call of one session
    MaxCrashes,   \* bound: crashes of clients and workers together
    Nobody

ASSUME SharedServiceAssumption ==
    /\ MaxSession \in Nat \ {0} /\ MaxSends \in Nat \ {0} /\ MaxCrashes \in Nat
    /\ Nobody \notin Clients \cup Workers
    /\ Clients \cap Workers = {}

Session == 1..MaxSession

VARIABLES
    startup,    \* the client startup.lock names, or Nobody
    owner,      \* the worker owner.lock names, or Nobody
    discovery,  \* the worker service.json names, or Nobody
    client,     \* what a client is doing about the service
    child,      \* the worker a launching client has spawned
    worker,     \* the life of a worker process
    grants,     \* clients whose grant file is on disk
    session,    \* the session record of a client on disk, 0 for none
    opened,     \* sessions a client has ever been given
    receipts,   \* the receipt on disk of a session's call
    flying,     \* handlers of calls and registrations waiting at an await
    todo,       \* the disk steps of the handler a worker is running
    sends,      \* times the call of a session was sent
    applied,    \* times the call of a session took effect
    told,       \* sessions whose client was answered that the call is done
    crashes

launch == <<startup, owner, discovery, client, child, worker>>
calls  == <<session, opened, receipts, sends, applied, told>>
serviceVars   == <<launch, grants, calls, flying, todo, crashes>>

Handler == [worker: Workers, client: Clients, at: {"registering", "arrived", "read"},
            session: 0..MaxSession, nth: 0..MaxSends]
Step == {"apply", "complete", "answer", "dropGrant", "dropSession", "dropReceipts"}

Alive(p) == IF p \in Clients THEN client[p] # "dead"
            ELSE p \in Workers /\ worker[p] \notin {"unborn", "exited", "gone"}
Running(w) == worker[w] \in {"opening", "serving", "closing"}
Of(w) == {h \in flying: h.worker = w}
Free(w) == worker[w] \in {"serving", "closing"} /\ todo[w] = << >>

\* A worker's end drops its handlers, and refuses the registrations among them.
CutOff(w) ==
    /\ flying' = flying \ Of(w)
    /\ client' = [c \in Clients |->
                    IF client[c] = "registering" /\ \E h \in Of(w): h.client = c
                    THEN "refused" ELSE client[c]]

ServiceInit ==
    /\ startup = Nobody /\ owner = Nobody /\ discovery = Nobody
    /\ client = [c \in Clients |-> "idle"] /\ child = [c \in Clients |-> Nobody]
    /\ worker = [w \in Workers |-> "unborn"]
    /\ grants = {} /\ flying = {}
    /\ session = [c \in Clients |-> 0] /\ opened = [c \in Clients |-> 0]
    /\ receipts = [c \in Clients |-> [s \in Session |-> "none"]]
    /\ todo = [w \in Workers |-> << >>]
    /\ sends = [c \in Clients |-> [s \in Session |-> 0]]
    /\ applied = [c \in Clients |-> [s \in Session |-> 0]]
    /\ told = {} /\ crashes = 0

-----------------------------------------------------------------------------
(* ensureWorkspaceService *)

\* ready(): service.json names a live process, which answers status ...
Ready == discovery \in Workers /\ worker[discovery] = "serving"
\* ... or is closing and answers 503, which the launcher throws on.
Stopping == discovery \in Workers /\ worker[discovery] = "closing"

ReleaseStartup(c) == startup' = IF startup = c THEN Nobody ELSE startup

Ask(c) ==
    /\ client[c] = "idle"
    /\ client' = [client EXCEPT ![c] = "asking"]
    /\ UNCHANGED <<startup, owner, discovery, child, worker, grants, calls, flying, todo, crashes>>

\* The lock of a launcher that died is removed and taken.
TakeStartup(c) ==
    /\ client[c] = "asking" /\ ~Ready /\ ~Stopping
    /\ ~Alive(startup)
    /\ startup' = c
    /\ client' = [client EXCEPT ![c] = "holding"]
    /\ UNCHANGED <<owner, discovery, child, worker, grants, calls, flying, todo, crashes>>

SpawnService(c, w) ==
    /\ client[c] = "holding" /\ ~Ready /\ ~Stopping
    /\ worker[w] = "unborn"
    /\ worker' = [worker EXCEPT ![w] = "booting"]
    /\ child' = [child EXCEPT ![c] = w]
    /\ client' = [client EXCEPT ![c] = "waiting"]
    /\ UNCHANGED <<startup, owner, discovery, grants, calls, flying, todo, crashes>>

\* The registration that follows is one control request to the worker found.
FoundReady(c) ==
    /\ client[c] \in {"asking", "holding", "waiting"} /\ Ready /\ todo[discovery] = << >>
    /\ ReleaseStartup(c)
    /\ client' = [client EXCEPT ![c] = "registering"]
    /\ flying' = flying \cup {[worker |-> discovery, client |-> c, at |-> "registering",
                                session |-> 0, nth |-> 0]}
    /\ UNCHANGED <<owner, discovery, child, worker, grants, calls, todo, crashes>>

\* mutant: A launcher that waits past any child that exited 0.
GiveUpOnlyOnFailure(c) ==
    /\ \/ client[c] \in {"asking", "holding", "waiting"} /\ Stopping
       \/ client[c] = "waiting" /\ ~Ready /\ worker[child[c]] = "gone"
       \/ client[c] = "holding" /\ ~Ready /\ \A w \in Workers: worker[w] # "unborn"
    /\ ReleaseStartup(c)
    /\ client' = [client EXCEPT ![c] = "refused"]
    /\ UNCHANGED <<owner, discovery, child, worker, grants, calls, flying, todo, crashes>>

\* The owner is stopping, or the child failed, or it exited 0 and no live
\* owner stands for it: a child that found another owner is waited past.
GiveUp(c) ==
    /\ \/ client[c] \in {"asking", "holding", "waiting"} /\ Stopping
       \/ /\ client[c] = "waiting" /\ ~Ready
          /\ \/ worker[child[c]] = "gone"
             \/ worker[child[c]] = "exited" /\ ~Alive(owner)
       \/ client[c] = "holding" /\ ~Ready /\ \A w \in Workers: worker[w] # "unborn"
    /\ ReleaseStartup(c)
    /\ client' = [client EXCEPT ![c] = "refused"]
    /\ UNCHANGED <<owner, discovery, child, worker, grants, calls, flying, todo, crashes>>

-----------------------------------------------------------------------------
(* runWorkspaceService: take the lock, listen, serve, close *)

Boot(w) ==
    /\ worker[w] = "booting"
    /\ IF Alive(owner) THEN owner' = owner /\ worker' = [worker EXCEPT ![w] = "exited"]
       ELSE owner' = w /\ worker' = [worker EXCEPT ![w] = "opening"]
    /\ UNCHANGED <<startup, discovery, client, child, grants, calls, flying, todo, crashes>>

Listen(w) ==
    /\ worker[w] = "opening"
    /\ worker' = [worker EXCEPT ![w] = "serving"]
    /\ discovery' = w
    /\ UNCHANGED <<startup, owner, client, child, grants, calls, flying, todo, crashes>>

\* state(): the grant of a client seen dead is removed, with its session.
ReapClient(w, c) ==
    /\ worker[w] = "serving" /\ Free(w)
    /\ c \in grants /\ client[c] = "dead"
    /\ todo' = [todo EXCEPT ![w] = << <<"dropGrant", c, 0>>, <<"dropSession", c, session[c]>>,
                                      <<"dropReceipts", c, session[c]>> >>]
    /\ UNCHANGED <<launch, grants, calls, flying, crashes>>

Revoke(w, c) ==
    /\ worker[w] = "serving" /\ Free(w)
    /\ c \in grants
    /\ todo' = [todo EXCEPT ![w] = << <<"dropGrant", c, 0>>, <<"dropSession", c, session[c]>>,
                                      <<"dropReceipts", c, session[c]>> >>]
    /\ UNCHANGED <<launch, grants, calls, flying, crashes>>

\* The idle timer and the stop request: no client, no request in flight.
StopIdle(w) ==
    /\ worker[w] = "serving" /\ Free(w)
    /\ grants = {} /\ Of(w) = {}
    /\ worker' = [worker EXCEPT ![w] = "closing"]
    /\ UNCHANGED <<startup, owner, discovery, client, child, grants, calls, flying, todo, crashes>>

\* A signal, or a failure of the timer's round, closes whatever is going on.
StopNow(w) ==
    /\ worker[w] = "serving" /\ Free(w) /\ crashes < MaxCrashes
    /\ crashes' = crashes + 1
    /\ worker' = [worker EXCEPT ![w] = "closing"]
    /\ UNCHANGED <<startup, owner, discovery, client, child, grants, calls, flying, todo>>

\* Cleanup ends with the release; a handler cut off at an await may yet run
\* on in the same process until the process is gone.
Release(w) ==
    /\ worker[w] = "closing" /\ Free(w) /\ owner = w
    /\ owner' = Nobody
    /\ UNCHANGED <<startup, discovery, client, child, worker, grants, calls, flying, todo, crashes>>

Exit(w) ==
    /\ worker[w] = "closing" /\ Free(w) /\ owner # w
    /\ \E code \in {"exited", "gone"}: worker' = [worker EXCEPT ![w] = code]
    /\ CutOff(w)
    /\ UNCHANGED <<startup, owner, discovery, child, grants, calls, todo, crashes>>

-----------------------------------------------------------------------------
(* The handlers of registrations and calls *)

\* The await of a registration ends: refused while closing, granted otherwise.
Register(h) ==
    /\ h \in flying /\ h.at = "registering" /\ Free(h.worker)
    /\ flying' = flying \ {h}
    /\ IF worker[h.worker] = "serving"
       THEN /\ grants' = grants \cup {h.client}
            /\ client' = [client EXCEPT ![h.client] = IF @ = "dead" THEN @ ELSE "up"]
       ELSE /\ grants' = grants
            /\ client' = [client EXCEPT ![h.client] = IF @ = "dead" THEN @ ELSE "refused"]
    /\ UNCHANGED <<startup, owner, discovery, child, worker, calls, todo, crashes>>

Initialize(w, c) ==
    /\ worker[w] = "serving" /\ Free(w)
    /\ client[c] = "up" /\ c \in grants /\ session[c] = 0 /\ opened[c] < MaxSession
    /\ opened' = [opened EXCEPT ![c] = @ + 1]
    /\ session' = [session EXCEPT ![c] = opened[c] + 1]
    /\ UNCHANGED <<launch, grants, receipts, flying, todo, sends, applied, told, crashes>>

\* mutant: Receipts removed before the session they belong to.
DeleteReceiptsFirst(w, c) ==
    /\ worker[w] = "serving" /\ Free(w)
    /\ client[c] = "up" /\ c \in grants /\ session[c] # 0
    /\ \A h \in flying: h.client # c
    /\ todo' = [todo EXCEPT ![w] = << <<"dropReceipts", c, session[c]>>,
                                      <<"dropSession", c, session[c]>> >>]
    /\ UNCHANGED <<launch, grants, calls, flying, crashes>>

\* A client closes its session only when it has no attempt under way.
DeleteSession(w, c) ==
    /\ worker[w] = "serving" /\ Free(w)
    /\ client[c] = "up" /\ c \in grants /\ session[c] # 0
    /\ \A h \in flying: h.client # c
    /\ todo' = [todo EXCEPT ![w] = << <<"dropSession", c, session[c]>>,
                                      <<"dropReceipts", c, session[c]>> >>]
    /\ UNCHANGED <<launch, grants, calls, flying, crashes>>

\* A client that heard nothing sends the same request again, under the same
\* id, to the worker that now answers at the same port.
Send(w, c) ==
    /\ worker[w] = "serving" /\ Free(w)
    /\ client[c] = "up" /\ c \in grants /\ opened[c] # 0
    /\ <<c, opened[c]>> \notin told /\ sends[c][opened[c]] < MaxSends
    /\ sends' = [sends EXCEPT ![c][opened[c]] = @ + 1]
    /\ flying' = flying \cup {[worker |-> w, client |-> c, at |-> "arrived",
                                session |-> opened[c], nth |-> sends[c][opened[c]]]}
    /\ UNCHANGED <<launch, grants, session, opened, receipts, todo, applied, told, crashes>>

\* authorizeGrant, then the session record is read; what it read is kept
\* over the awaits that follow.
ReadSession(h) ==
    /\ h \in flying /\ h.at = "arrived" /\ Free(h.worker)
    /\ flying' = IF h.client \in grants /\ session[h.client] = h.session
                 THEN (flying \ {h}) \cup {[h EXCEPT !.at = "read"]}
                 ELSE flying \ {h}
    /\ UNCHANGED <<launch, grants, calls, todo, crashes>>

\* mutant: A dispatch that no longer looks whether the service is closing.
DispatchWhileClosing(h) == h.client \in grants

\* authorizeDispatch and the closing check, in the step that dispatches.
MayDispatch(h) == h.client \in grants /\ worker[h.worker] = "serving"

Dispatch(h) ==
    LET c == h.client
        s == h.session
    IN
    /\ h \in flying /\ h.at = "read" /\ Free(h.worker)
    /\ flying' = flying \ {h}
    /\ IF ~MayDispatch(h) \/ receipts[c][s] = "started"
       THEN UNCHANGED <<receipts, todo>>                       \* 401, 503, 409
       ELSE IF receipts[c][s] = "completed"
       THEN /\ todo' = [todo EXCEPT ![h.worker] = << <<"answer", c, s>> >>]
            /\ UNCHANGED receipts
       ELSE /\ receipts' = [receipts EXCEPT ![c][s] = "started"]
            /\ todo' = [todo EXCEPT ![h.worker] =
                           << <<"apply", c, s>>, <<"complete", c, s>>, <<"answer", c, s>> >>]
    /\ UNCHANGED <<launch, grants, session, opened, sends, applied, told, crashes>>

\* One disk step of the handler under way; the answer may be lost.
Perform(w) ==
    /\ Running(w) /\ todo[w] # << >>
    /\ LET step == Head(todo[w])
           c == step[2]
           s == step[3]
           On(name) == step[1] = name /\ s # 0
       IN /\ grants' = IF step[1] = "dropGrant" THEN grants \ {c} ELSE grants
          /\ session' = IF On("dropSession") THEN [session EXCEPT ![c] = 0] ELSE session
          /\ receipts' = IF On("dropReceipts") THEN [receipts EXCEPT ![c][s] = "none"]
                         ELSE IF On("complete") THEN [receipts EXCEPT ![c][s] = "completed"]
                         ELSE receipts
          /\ applied' = IF On("apply") THEN [applied EXCEPT ![c][s] = @ + 1] ELSE applied
          /\ told' \in IF On("answer") THEN {told, told \cup {<<c, s>>}} ELSE {told}
    /\ todo' = [todo EXCEPT ![w] = Tail(@)]
    /\ UNCHANGED <<launch, opened, flying, sends, crashes>>

-----------------------------------------------------------------------------
CrashWorker(w) ==
    /\ Alive(w) /\ crashes < MaxCrashes
    /\ crashes' = crashes + 1
    /\ worker' = [worker EXCEPT ![w] = "gone"]
    /\ todo' = [todo EXCEPT ![w] = << >>]
    /\ CutOff(w)
    /\ UNCHANGED <<startup, owner, discovery, child, grants, calls>>

CrashClient(c) ==
    /\ client[c] \notin {"idle", "dead", "refused"} /\ crashes < MaxCrashes
    /\ crashes' = crashes + 1
    /\ client' = [client EXCEPT ![c] = "dead"]
    /\ UNCHANGED <<startup, owner, discovery, child, worker, grants, calls, flying, todo>>

ClientStep(c) ==
    \/ TakeStartup(c) \/ FoundReady(c) \/ GiveUp(c)
    \/ \E w \in Workers: SpawnService(c, w)
WorkerStep(w) == Boot(w) \/ Listen(w) \/ Perform(w) \/ Release(w) \/ Exit(w)
HandlerStep(h) == Register(h) \/ ReadSession(h) \/ Dispatch(h)

ServiceNext ==
    \/ \E c \in Clients: Ask(c) \/ ClientStep(c) \/ CrashClient(c)
    \/ \E w \in Workers: WorkerStep(w) \/ StopIdle(w) \/ StopNow(w) \/ CrashWorker(w)
    \/ \E w \in Workers, c \in Clients:
          ReapClient(w, c) \/ Revoke(w, c) \/ Initialize(w, c) \/ DeleteSession(w, c) \/ Send(w, c)
    \/ \E h \in flying: HandlerStep(h)

\* Processes that run are scheduled, and an await ends.
ServiceFairness ==
    /\ \A c \in Clients: WF_serviceVars(ClientStep(c))
    /\ \A w \in Workers: WF_serviceVars(WorkerStep(w))
    /\ WF_serviceVars(\E h \in flying: HandlerStep(h))

ServiceSpec == ServiceInit /\ [][ServiceNext]_serviceVars /\ ServiceFairness
-----------------------------------------------------------------------------
(* What the service promises *)

\* Every variable keeps its type, and no process but a running worker has
\* disk steps left to perform.
ServiceTypeOK ==
    /\ startup \in Clients \cup {Nobody}
    /\ {owner, discovery} \subseteq Workers \cup {Nobody}
    /\ client \in [Clients -> {"idle", "asking", "holding", "waiting", "registering", "up",
                               "refused", "dead"}]
    /\ child \in [Clients -> Workers \cup {Nobody}]
    /\ worker \in [Workers -> {"unborn", "booting", "opening", "serving", "closing", "exited", "gone"}]
    /\ grants \subseteq Clients /\ flying \subseteq Handler
    /\ session \in [Clients -> 0..MaxSession] /\ opened \in [Clients -> 0..MaxSession]
    /\ receipts \in [Clients -> [Session -> {"none", "started", "completed"}]]
    /\ todo \in [Workers -> Seq(Step \X Clients \X (0..MaxSession))]
    /\ \A w \in Workers: todo[w] # << >> => Running(w)
    /\ sends \in [Clients -> [Session -> 0..MaxSends]]
    /\ applied \in [Clients -> [Session -> Nat]]
    /\ told \subseteq Clients \X Session /\ crashes \in 0..MaxCrashes

\* A call that is sent again, to the same worker or to the one started after
\* a crash, takes effect at most once, and a client is answered that it is
\* done only when it was.
AppliedOnce ==
    \A c \in Clients, s \in Session:
        applied[c][s] <= 1 /\ (<<c, s>> \in told => applied[c][s] = 1)

\* Only the worker that owner.lock names opens or serves: two launchers, or a
\* launcher whose lock was taken from it, never bring up two services.
OneService == \A w \in Workers: worker[w] \in {"opening", "serving"} => owner = w

\* One service, in which each accepted call takes effect once.
ServiceIsSound == ServiceTypeOK /\ OneService /\ AppliedOnce

\* A handler that slept through a revocation or through the release of the
\* lock has no effect: an effect is the owner's, for a client granted then.
EffectsAreAuthorized ==
    [][\A c \in Clients, s \in Session: applied'[c][s] # applied[c][s] =>
          c \in grants /\ owner \in Workers /\ todo'[owner] # todo[owner]]_serviceVars

\* A launcher that asks is registered or refused without its deadline's help,
\* whatever became of other launchers and of the services they started.
AskIsAnswered ==
    \A c \in Clients: client[c] = "asking" ~> client[c] \in {"up", "refused", "dead"}
=============================================================================
