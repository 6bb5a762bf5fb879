----------------------------- MODULE HomeLifetime -----------------------------
(***************************************************************************)
(* The lifetimes of the connection to Home (sdk/aps/service_home.go) and   *)
(* the requests that ask Home for a credential over it                     *)
(* (sdk/aps/auth/conductor_home.go).                                       *)
(*                                                                         *)
(* startHomeSubscriber replaces the supervisor of a generation; a          *)
(* supervisor runs one client lifetime after another over one execution    *)
(* registry and one release flusher, and takes new ones only when it       *)
(* cannot tell what Home believes; a worker per lifetime commits Home's    *)
(* configurations and publishes client and registry to the requests.       *)
(*                                                                         *)
(* Registry and flusher are used by what they promise (ExecutionRegistry,  *)
(* ReleaseFlusher): a shut registry accepts nothing, a Drain waits until   *)
(* it is empty, a Flush until nothing is owed.  Every wait of the          *)
(* supervisor for others is bounded by a timeout that may end it.          *)
(***************************************************************************)
EXTENDS Naturals, FiniteSets

CONSTANTS
    MaxGen,      \* bound on the generations startHomeSubscriber starts
    MaxClients,  \* bound on the client lifetimes
    MaxConfigs,  \* bound on the configurations waiting in a lifetime's queue
    Requests     \* goroutines that serve requests

\* An acknowledged subscription has its first configuration in the queue.
ASSUME BoundsAssumption ==
    {MaxGen, MaxClients} \subseteq Nat /\ MaxConfigs \in Nat \ {0}

VARIABLES
    call, at,     \* who holds homeLifecycleMu, and where that call is
    generation,   \* s.homeGeneration
    supervisor,   \* generation of s.homeSupervisor, 0 for none
    runEnded,     \* the context of the service's Run is cancelled
    cancelled,    \* generations whose homeCtx their replacement cancelled
    sup,          \* where the supervisor of a generation is
    registry,     \* the registry (and flusher) of a generation
    client,       \* its latest client
    clients,      \* clients made so far
    registries,   \* registries made so far
    genOf, regOf, \* generation and registry of a client
    up,           \* clients with HeartbeatOK
    ended,        \* clients whose lifetimeCtx is cancelled
    fenced,       \* clients that send no more: closed or aborted
    ambiguous,    \* clients with an ambiguous dispatch
    worker,       \* where the config worker of a client is
    queue,        \* configurations in its queue
    published,    \* the published flag of its lifetime
    observing,    \* clients whose in-flight publisher runs
    flushing,     \* clients whose release flusher Run goes on
    homeClient,   \* s.homeClient (and s.homeRegistry), 0 for none
    bundle,       \* the client of the manager's HomeDispatchBundle, 0 for none
    committed,    \* the client s.cfg came from, 0 for none
    shut,         \* registries that drain or are closed
    silent,       \* registries without a release sink
    owed,         \* registries whose flusher has releases Home was not told
    req,          \* what a request does, and over which client
    leaked        \* history: clients over which a slot may have been lost

callVars == <<call, at, generation, supervisor, cancelled>>
supVars == <<sup, registry, client, clients, registries, genOf, regOf>>
linkVars == <<up, ended, fenced, ambiguous>>
workVars == <<worker, queue, published, observing>>
homeVars == <<homeClient, bundle, committed>>
regVars == <<shut, silent, owed>>
reqVars == <<req, leaked>>
vars == <<callVars, runEnded, supVars, linkVars, workVars, flushing, homeVars,
          regVars, reqVars>>

Gens == 1..MaxGen
Clients == 1..MaxClients
NoRequest == [at |-> "idle", k |-> 0]

Init ==
    /\ call = "none" /\ at = "cancel"
    /\ generation = 0 /\ supervisor = 0
    /\ runEnded = FALSE
    /\ cancelled = {}
    /\ sup = [g \in Gens |-> "none"]
    /\ registry = [g \in Gens |-> 0]
    /\ client = [g \in Gens |-> 0]
    /\ clients = 0 /\ registries = 0
    /\ genOf = [k \in Clients |-> 0]
    /\ regOf = [k \in Clients |-> 0]
    /\ up = {} /\ ended = {} /\ fenced = {} /\ ambiguous = {}
    /\ worker = [k \in Clients |-> "off"]
    /\ queue = [k \in Clients |-> 0]
    /\ published = {} /\ observing = {} /\ flushing = {}
    /\ homeClient = 0 /\ bundle = 0 /\ committed = 0
    /\ shut = {} /\ silent = {} /\ owed = {}
    /\ req = [q \in Requests |-> NoRequest]
    /\ leaked = {}

\* homeCtx and lifetimeCtx are done.
HomeDone(g) == g \in cancelled \/ runEnded
LifetimeDone(k) == k \in ended \/ HomeDone(genOf[k])

\* homeLifetimeActive.
Active(k) == ~LifetimeDone(k) /\ generation = genOf[k]

\* The mutexes are held by the worker that is between check and store.
CommitMuFree == \A k \in Clients : worker[k] # "committing"
HomeMuFree == \A k \in Clients : worker[k] # "publishing"

Unresolved == {"pending", "sent", "lost", "aborted"}
Holds(r, states) == \E q \in Requests : req[q].at \in states /\ regOf[req[q].k] = r
PendingIn(r) == Holds(r, Unresolved)
Empty(r) == ~Holds(r, Unresolved \union {"installed", "scope"})

-----------------------------------------------------------------------------
(* startHomeSubscriber and Shutdown, under homeLifecycleMu *)

\* startHomeSubscriber itself does not look for an earlier Shutdown; its only caller,
\* Run (service_lifecycle.go:113), calls it before the Shutdown it has deferred (:57).
StartHomeSubscriber ==
    /\ call = "none"
    /\ generation < MaxGen
    /\ call' = "start" /\ at' = "cancel"
    /\ UNCHANGED <<generation, supervisor, cancelled, runEnded, supVars, linkVars,
                   workVars, flushing, homeVars, regVars, reqVars>>

Shutdown ==
    /\ call = "none"
    /\ call' = "shutdown" /\ at' = "cancel"
    /\ UNCHANGED <<generation, supervisor, cancelled, runEnded, supVars, linkVars,
                   workVars, flushing, homeVars, regVars, reqVars>>

\* Mutant: the supervisor is cancelled without homeConfigCommitMu.
CancelSupervisor_Unlocked ==
    /\ call \in {"start", "shutdown"} /\ at = "cancel"
    /\ cancelled' = cancelled \union ({supervisor} \ {0})
    /\ at' = "wait"
    /\ UNCHANGED <<call, generation, supervisor, runEnded, supVars, linkVars,
                   workVars, flushing, homeVars, regVars, reqVars>>

\* Under homeConfigCommitMu: a commit under way completes first.
CancelSupervisor ==
    /\ call \in {"start", "shutdown"} /\ at = "cancel"
    /\ supervisor # 0 => CommitMuFree
    /\ cancelled' = cancelled \union ({supervisor} \ {0})
    /\ at' = "wait"
    /\ UNCHANGED <<call, generation, supervisor, runEnded, supVars, linkVars,
                   workVars, flushing, homeVars, regVars, reqVars>>

\* <-supervisor.done
AwaitSupervisor ==
    /\ call \in {"start", "shutdown"} /\ at = "wait"
    /\ supervisor # 0 => sup[supervisor] = "done"
    /\ at' = "take"
    /\ UNCHANGED <<call, generation, supervisor, cancelled, runEnded, supVars,
                   linkVars, workVars, flushing, homeVars, regVars, reqVars>>

\* Whatever is still published is taken back.  A supervisor that is done left
\* nothing (NothingLeftBehind), so there is no registry to drain or close here.
TakeHome ==
    /\ call \in {"start", "shutdown"} /\ at = "take"
    /\ HomeMuFree
    /\ generation' = IF call = "shutdown" THEN generation + 1 ELSE generation
    /\ homeClient' = 0
    /\ bundle' = IF bundle = homeClient THEN 0 ELSE bundle
    /\ at' = "finish"
    /\ UNCHANGED <<call, supervisor, cancelled, runEnded, supVars, linkVars,
                   workVars, flushing, committed, regVars, reqVars>>

\* Mutant: the first lifetime of a generation gets no registry.
FinishStart_NoRegistry ==
    /\ call = "start" /\ at = "finish"
    /\ call' = "none"
    /\ IF runEnded
       THEN UNCHANGED <<generation, supervisor, sup>>
       ELSE /\ generation' = generation + 1
            /\ supervisor' = generation'
            /\ sup' = [sup EXCEPT ![generation'] = "loop"]
    /\ UNCHANGED <<at, cancelled, runEnded, registry, registries, client, clients,
                   genOf, regOf, linkVars, workVars, flushing, homeVars, regVars,
                   reqVars>>

\* A new generation, with a registry and a flusher of its own.
FinishStart ==
    /\ call = "start" /\ at = "finish"
    /\ call' = "none"
    /\ IF runEnded
       THEN UNCHANGED <<generation, supervisor, sup, registry, registries>>
       ELSE /\ generation' = generation + 1
            /\ supervisor' = generation'
            /\ sup' = [sup EXCEPT ![generation'] = "loop"]
            /\ registries' = registries + 1
            /\ registry' = [registry EXCEPT ![generation'] = registries']
    /\ UNCHANGED <<at, cancelled, runEnded, client, clients, genOf, regOf,
                   linkVars, workVars, flushing, homeVars, regVars, reqVars>>

FinishShutdown ==
    /\ call = "shutdown" /\ at = "finish"
    /\ call' = "stopped"
    /\ UNCHANGED <<at, generation, supervisor, cancelled, runEnded, supVars,
                   linkVars, workVars, flushing, homeVars, regVars, reqVars>>

\* Somebody stops the service: the parent of every homeCtx is done.
RunEnds ==
    /\ ~runEnded
    /\ runEnded' = TRUE
    /\ UNCHANGED <<callVars, supVars, linkVars, workVars, flushing, homeVars,
                   regVars, reqVars>>

LifecycleStep == CancelSupervisor \/ AwaitSupervisor \/ TakeHome
                   \/ FinishStart \/ FinishShutdown

-----------------------------------------------------------------------------
(* runHomeSubscriber: the supervisor of generation g *)

GoTo(g, pc) == sup' = [sup EXCEPT ![g] = pc]

\* The head of the loop: a new client lifetime over the same registry.
NewLifetime(g) ==
    /\ sup[g] = "loop"
    /\ ~HomeDone(g) /\ clients < MaxClients
    /\ clients' = clients + 1
    /\ client' = [client EXCEPT ![g] = clients']
    /\ genOf' = [genOf EXCEPT ![clients'] = g]
    /\ regOf' = [regOf EXCEPT ![clients'] = registry[g]]
    /\ flushing' = flushing \union {clients'}
    /\ worker' = [worker EXCEPT ![clients'] = "ready?"]
    /\ GoTo(g, "subscribed")
    /\ UNCHANGED <<callVars, runEnded, registry, registries, linkVars, queue,
                   published, observing, homeVars, regVars, reqVars>>

LeaveLoop(g) ==
    /\ sup[g] = "loop"
    /\ HomeDone(g)
    /\ GoTo(g, "abandoned")
    /\ UNCHANGED <<callVars, runEnded, registry, client, clients, registries,
                   genOf, regOf, linkVars, workVars, flushing, homeVars, regVars,
                   reqVars>>

\* The subscription is acknowledged; its first configuration is queued already.
Acknowledged(g) ==
    LET k == client[g] IN
    /\ sup[g] = "subscribed"
    /\ k \notin up \union fenced
    /\ up' = up \union {k}
    /\ queue' = [queue EXCEPT ![k] = 1]
    /\ UNCHANGED <<callVars, runEnded, supVars, ended, fenced, ambiguous, worker,
                   published, observing, flushing, homeVars, regVars, reqVars>>

ConfigArrives(g) ==
    LET k == client[g] IN
    /\ sup[g] = "subscribed"
    /\ k \in up /\ queue[k] < MaxConfigs
    /\ queue' = [queue EXCEPT ![k] = @ + 1]
    /\ UNCHANGED <<callVars, runEnded, supVars, linkVars, worker, published,
                   observing, flushing, homeVars, regVars, reqVars>>

\* The connection is lost, fenced, refused or cancelled: RunConfigSubscriberLifetime
\* returns, and lifetimeCancel is called.
SubscriptionEnds(g) ==
    LET k == client[g] IN
    /\ sup[g] = "subscribed"
    /\ up' = up \ {k}
    /\ ended' = ended \union {k}
    /\ GoTo(g, "join")
    /\ UNCHANGED <<callVars, runEnded, registry, client, clients, registries,
                   genOf, regOf, fenced, ambiguous, workVars, flushing, homeVars,
                   regVars, reqVars>>

\* Mutant: the in-flight publisher is not waited for.
Joined_WorkerOnly(k) == worker[k] = "off"

Joined(k) == worker[k] = "off" /\ k \notin observing

\* <-workerDone and <-publisherDone, then detachHomeSubscriberLifetime.
Detach(g) ==
    LET k == client[g] IN
    /\ sup[g] = "join"
    /\ Joined(k)
    /\ HomeMuFree
    /\ homeClient' = IF homeClient = k THEN 0 ELSE homeClient
    /\ GoTo(g, IF homeClient = k THEN "unbundle" ELSE "detached")
    /\ UNCHANGED <<callVars, runEnded, registry, client, clients, registries,
                   genOf, regOf, linkVars, workVars, flushing, bundle, committed,
                   regVars, reqVars>>

\* ClearHomeDispatchBundle, after the unlock.
Unbundle(g) ==
    /\ sup[g] = "unbundle"
    /\ bundle' = IF bundle = client[g] THEN 0 ELSE bundle
    /\ GoTo(g, "detached")
    /\ UNCHANGED <<callVars, runEnded, registry, client, clients, registries,
                   genOf, regOf, linkVars, workVars, flushing, homeClient,
                   committed, regVars, reqVars>>

CloseClient(k) ==
    /\ flushing' = flushing \ {k}
    /\ fenced' = fenced \union {k}
    /\ up' = up \ {k}

\* Mutant: the client of the lost lifetime stays open.
Retry_KeepsClient(g) ==
    /\ sup[g] = "detached" /\ ~HomeDone(g)
    /\ flushing' = flushing \ {client[g]}
    /\ GoTo(g, "settle")
    /\ UNCHANGED <<callVars, runEnded, registry, client, clients, registries,
                   genOf, regOf, linkVars, workVars, homeVars,
                   regVars, reqVars>>

\* The generation goes on: the flusher's Run is stopped, the lost client closed.
Retry(g) ==
    /\ sup[g] = "detached" /\ ~HomeDone(g)
    /\ CloseClient(client[g])
    /\ GoTo(g, "settle")
    /\ UNCHANGED <<callVars, runEnded, registry, client, clients, registries,
                   genOf, regOf, ended, ambiguous, workVars, homeVars,
                   regVars, reqVars>>

\* The generation is over: Drain closes every resource and waits.
FinalDrain(g) ==
    /\ sup[g] = "detached" /\ HomeDone(g)
    /\ shut' = shut \union {registry[g]}
    /\ GoTo(g, "draining")
    /\ UNCHANGED <<callVars, runEnded, registry, client, clients, registries,
                   genOf, regOf, linkVars, workVars, flushing, homeVars, silent,
                   owed, reqVars>>

\* WaitPending returned: is what Home believes of this membership certain?
\* Home may also refuse the takeover or turn out to speak the old protocol.
Settled(g) ==
    /\ sup[g] = "settle" /\ ~PendingIn(registry[g])
    /\ \E unsafe \in {TRUE, client[g] \in ambiguous} :
         IF unsafe
         THEN /\ silent' = silent \union {registry[g]}
              /\ shut' = shut \union {registry[g]}
              /\ GoTo(g, "replacing")
         ELSE /\ GoTo(g, "loop")
              /\ UNCHANGED <<silent, shut>>
    /\ UNCHANGED <<callVars, runEnded, registry, client, clients, registries,
                   genOf, regOf, linkVars, workVars, flushing, homeVars, owed,
                   reqVars>>

\* The old registry is drained: the next lifetime gets new ones.
Replaced(g) ==
    /\ sup[g] = "replacing" /\ Empty(registry[g])
    /\ registries' = registries + 1
    /\ registry' = [registry EXCEPT ![g] = registries']
    /\ GoTo(g, "loop")
    /\ UNCHANGED <<callVars, runEnded, client, clients, genOf, regOf, linkVars,
                   workVars, flushing, homeVars, regVars, reqVars>>

Drained(g) ==
    /\ sup[g] = "draining" /\ Empty(registry[g])
    /\ GoTo(g, "flushing")
    /\ UNCHANGED <<callVars, runEnded, registry, client, clients, registries,
                   genOf, regOf, linkVars, workVars, flushing, homeVars, regVars,
                   reqVars>>

\* Flush returned nil: the Run is stopped and the client closed.
Flushed(g) ==
    /\ sup[g] = "flushing" /\ registry[g] \notin owed
    /\ CloseClient(client[g])
    /\ GoTo(g, "finished")
    /\ UNCHANGED <<callVars, runEnded, registry, client, clients, registries,
                   genOf, regOf, ended, ambiguous, workVars, homeVars, regVars,
                   reqVars>>

\* A bounded wait runs out: cancelServiceRun, and the supervisor returns.
TimedOut(g) ==
    /\ \/ sup[g] = "settle" /\ PendingIn(registry[g])
       \/ sup[g] \in {"replacing", "draining"} /\ ~Empty(registry[g])
       \/ sup[g] = "flushing" /\ registry[g] \in owed
    /\ runEnded' = TRUE
    /\ CloseClient(client[g])
    /\ GoTo(g, "abandoned")
    /\ UNCHANGED <<callVars, registry, client, clients, registries, genOf, regOf,
                   ended, ambiguous, workVars, homeVars, regVars, reqVars>>

\* The deferred function: the sink is removed and the last registry drained.
DeferredDrain(g) ==
    /\ sup[g] \in {"finished", "abandoned"}
    /\ silent' = silent \union {registry[g]}
    /\ shut' = shut \union {registry[g]}
    /\ GoTo(g, "leaving")
    /\ UNCHANGED <<callVars, runEnded, registry, client, clients, registries,
                   genOf, regOf, linkVars, workVars, flushing, homeVars, owed,
                   reqVars>>

\* Mutant: the deferred Drain is not waited for.
Done_Undrained(g) ==
    /\ sup[g] = "leaving"
    /\ GoTo(g, "done")
    /\ UNCHANGED <<callVars, runEnded, registry, client, clients, registries,
                   genOf, regOf, linkVars, workVars, flushing, homeVars, regVars,
                   reqVars>>

\* It returns drained, or times out and ends the service's run.
Done(g) ==
    /\ sup[g] = "leaving"
    /\ runEnded' = (runEnded \/ ~Empty(registry[g]))
    /\ GoTo(g, "done")
    /\ UNCHANGED <<callVars, registry, client, clients, registries, genOf, regOf,
                   linkVars, workVars, flushing, homeVars, regVars, reqVars>>

SupervisorStep(g) ==
    \/ NewLifetime(g) \/ LeaveLoop(g) \/ Detach(g) \/ Unbundle(g) \/ Retry(g)
    \/ FinalDrain(g) \/ Settled(g) \/ Replaced(g) \/ Drained(g) \/ Flushed(g)
    \/ TimedOut(g) \/ DeferredDrain(g) \/ Done(g)

-----------------------------------------------------------------------------
(* runHomeConfigWorkerWithSupervisor: the config worker of client k *)

Work(k, from, to) ==
    /\ worker[k] = from
    /\ worker' = [worker EXCEPT ![k] = to]

\* The subscription was acknowledged.
WorkerReady(k) ==
    /\ k \in up
    /\ Work(k, "ready?", "idle")
    /\ UNCHANGED <<callVars, runEnded, supVars, linkVars, queue, published,
                   observing, flushing, homeVars, regVars, reqVars>>

\* Staging reads only, and is retried until it succeeds.
Stage(k) ==
    /\ Work(k, "idle", "staged")
    /\ ~LifetimeDone(k) /\ queue[k] > 0
    /\ queue' = [queue EXCEPT ![k] = @ - 1]
    /\ UNCHANGED <<callVars, runEnded, supVars, linkVars, published, observing,
                   flushing, homeVars, regVars, reqVars>>

\* commitHomeConfig takes homeConfigCommitMu and checks that the lifetime is active.
CommitCheck(k) ==
    /\ Work(k, "staged", "committing")
    /\ CommitMuFree /\ HomeMuFree /\ Active(k)
    /\ UNCHANGED <<callVars, runEnded, supVars, linkVars, queue, published,
                   observing, flushing, homeVars, regVars, reqVars>>

Commit(k) ==
    /\ Work(k, "committing", "committed")
    /\ committed' = k
    /\ UNCHANGED <<callVars, runEnded, supVars, linkVars, queue, published,
                   observing, flushing, homeClient, bundle, regVars, reqVars>>

\* applyConfigRuntime succeeded: it was the latest commit, and the lifetime lasted.
ApplyRuntime(k) ==
    /\ Work(k, "committed", IF k \in published THEN "idle" ELSE "applied")
    /\ Active(k) /\ committed = k
    /\ UNCHANGED <<callVars, runEnded, supVars, linkVars, queue, published,
                   observing, flushing, homeVars, regVars, reqVars>>

\* publish takes homeMu and checks once more; a cancellation needs no homeMu.
PublishCheck(k) ==
    /\ Work(k, "applied", "publishing")
    /\ HomeMuFree /\ Active(k)
    /\ UNCHANGED <<callVars, runEnded, supVars, linkVars, queue, published,
                   observing, flushing, homeVars, regVars, reqVars>>

Publish(k) ==
    /\ Work(k, "publishing", "observer")
    /\ homeClient' = k
    /\ bundle' = k
    /\ published' = published \union {k}
    /\ UNCHANGED <<callVars, runEnded, supVars, linkVars, queue, observing,
                   flushing, committed, regVars, reqVars>>

\* startHomeInFlightPublisher
Observe(k) ==
    /\ Work(k, "observer", "idle")
    /\ observing' = observing \union {k}
    /\ UNCHANGED <<callVars, runEnded, supVars, linkVars, queue, published,
                   flushing, homeVars, regVars, reqVars>>

\* The in-flight publisher sees its context only between two snapshots.
ObserverEnds(k) ==
    /\ k \in observing /\ LifetimeDone(k)
    /\ observing' = observing \ {k}
    /\ UNCHANGED <<callVars, runEnded, supVars, linkVars, worker, queue, published,
                   flushing, homeVars, regVars, reqVars>>

\* Mutant: a worker that waits for the acknowledgement does not look at its context.
WorkerReturns_OnceReady(k) ==
    /\ \E from \in {"idle", "staged", "committing", "committed", "applied"} :
         Work(k, from, "off")
    /\ worker[k] \in {"committing", "committed"} \/ ~Active(k)
    /\ UNCHANGED <<callVars, runEnded, supVars, linkVars, queue, published,
                   observing, flushing, homeVars, regVars, reqVars>>

\* Every check of the contexts returns; so do, in an active lifetime, a rejected
\* configuration (commitConfigUpdate) and a commit that was superseded or could not
\* be applied (applyConfigRuntime).
WorkerReturns(k) ==
    /\ \E from \in {"ready?", "idle", "staged", "committing", "committed", "applied"} :
         Work(k, from, "off")
    /\ worker[k] \in {"committing", "committed"} \/ ~Active(k)
    /\ UNCHANGED <<callVars, runEnded, supVars, linkVars, queue, published,
                   observing, flushing, homeVars, regVars, reqVars>>

WorkerStep(k) ==
    \/ WorkerReady(k) \/ Stage(k) \/ CommitCheck(k) \/ Commit(k)
    \/ ApplyRuntime(k) \/ PublishCheck(k) \/ Publish(k) \/ Observe(k)
    \/ WorkerReturns(k)

-----------------------------------------------------------------------------
(* The dispatch of a request over the published bundle (conductor_home.go) *)

Ask(q, from, to) ==
    /\ req[q].at = from
    /\ req' = [req EXCEPT ![q].at = to]

Fence(k) ==
    /\ ambiguous' = ambiguous \union {k}
    /\ fenced' = fenced \union {k}
    /\ up' = up \ {k}

\* The bundle is read, and its client's heartbeat is good.
LoadBundle(q) ==
    /\ req[q].at = "idle"
    /\ bundle # 0 /\ bundle \in up
    /\ req' = [req EXCEPT ![q] = [at |-> "loaded", k |-> bundle]]
    /\ UNCHANGED <<callVars, runEnded, supVars, linkVars, workVars, flushing,
                   homeVars, regVars, leaked>>

\* By now the bundle may be another.
BeginDispatch(q) ==
    /\ Ask(q, "loaded", IF regOf[req[q].k] \in shut THEN "idle" ELSE "pending")
    /\ UNCHANGED <<callVars, runEnded, supVars, linkVars, workVars, flushing,
                   homeVars, regVars, leaked>>

\* A fenced client sends nothing, and says so.
SendDispatch(q) ==
    /\ Ask(q, "pending", IF req[q].k \in fenced THEN "idle" ELSE "sent")
    /\ UNCHANGED <<callVars, runEnded, supVars, linkVars, workVars, flushing,
                   homeVars, regVars, leaked>>

\* Home has no credential, or answered with an error.
DispatchRefused(q) ==
    /\ Ask(q, "sent", "idle")
    /\ UNCHANGED <<callVars, runEnded, supVars, linkVars, workVars, flushing,
                   homeVars, regVars, leaked>>

\* Install: the token becomes a scope.
DispatchGranted(q) ==
    /\ Ask(q, "sent", "installed")
    /\ regOf[req[q].k] \notin shut
    /\ UNCHANGED <<callVars, runEnded, supVars, linkVars, workVars, flushing,
                   homeVars, regVars, leaked>>

\* The rest of the answer is checked; the client is aborted when it contradicts
\* what was installed, and the scope ends like any other.
AnswerValid(q) ==
    /\ Ask(q, "installed", "scope")
    /\ UNCHANGED <<callVars, runEnded, supVars, linkVars, workVars, flushing,
                   homeVars, regVars, leaked>>

AnswerMalformed(q) ==
    /\ Ask(q, "installed", "scope")
    /\ Fence(req[q].k)
    /\ UNCHANGED <<callVars, runEnded, supVars, ended, workVars, flushing,
                   homeVars, regVars, leaked>>

\* A registry that is shut takes the token and installs nothing.
DispatchLate(q) ==
    /\ Ask(q, "sent", "late")
    /\ regOf[req[q].k] \in shut
    /\ leaked' = leaked \union {req[q].k}
    /\ UNCHANGED <<callVars, runEnded, supVars, linkVars, workVars, flushing,
                   homeVars, regVars>>

\* No answer, or one that cannot be understood: Home may have given a slot away.
DispatchLost(q) ==
    /\ Ask(q, "sent", "lost")
    /\ leaked' = leaked \union {req[q].k}
    /\ UNCHANGED <<callVars, runEnded, supVars, linkVars, workVars, flushing,
                   homeVars, regVars>>

\* AbortAmbiguousDispatch, then pending.End.
AbortDispatch(q) ==
    /\ Ask(q, "lost", "aborted") \/ Ask(q, "late", "idle")
    /\ Fence(req[q].k)
    /\ UNCHANGED <<callVars, runEnded, supVars, ended, workVars, flushing,
                   homeVars, regVars, leaked>>

EndDispatch(q) ==
    /\ Ask(q, "aborted", "idle")
    /\ UNCHANGED <<callVars, runEnded, supVars, linkVars, workVars, flushing,
                   homeVars, regVars, leaked>>

\* The execution ends; its release is reported to the sink, if there is one.
EndScope(q) ==
    LET r == regOf[req[q].k] IN
    /\ Ask(q, "scope", "idle")
    /\ owed' = IF r \in silent THEN owed ELSE owed \union {r}
    /\ UNCHANGED <<callVars, runEnded, supVars, linkVars, workVars, flushing,
                   homeVars, shut, silent, leaked>>

RequestStep(q) ==
    \/ BeginDispatch(q) \/ SendDispatch(q) \/ DispatchRefused(q)
    \/ DispatchGranted(q) \/ AnswerValid(q) \/ AnswerMalformed(q)
    \/ DispatchLate(q) \/ DispatchLost(q) \/ AbortDispatch(q)
    \/ EndDispatch(q) \/ EndScope(q)

\* Run of the release flusher sends over its lifetime's client.
SendReleases(k) ==
    /\ k \in flushing \ fenced
    /\ regOf[k] \in owed
    /\ owed' = owed \ {regOf[k]}
    /\ UNCHANGED <<callVars, runEnded, supVars, linkVars, workVars, flushing,
                   homeVars, shut, silent, reqVars>>

-----------------------------------------------------------------------------
Next ==
    \/ StartHomeSubscriber \/ Shutdown \/ RunEnds
    \/ LifecycleStep
    \/ \E g \in Gens : Acknowledged(g) \/ ConfigArrives(g) \/ SubscriptionEnds(g)
    \/ \E g \in Gens : SupervisorStep(g)
    \/ \E k \in Clients : WorkerStep(k) \/ ObserverEnds(k) \/ SendReleases(k)
    \/ \E q \in Requests : LoadBundle(q) \/ RequestStep(q)

Spec == Init /\ [][Next]_vars

\* Goroutines go on; a cancelled subscription returns; every wait of the
\* supervisor ends, by what it waits for or by its timeout.  The mutex a busy
\* worker takes again and again is handed over to the waiter sometime (strong
\* fairness).  Nothing is assumed of Home or of the requests.
Fairness ==
    /\ WF_vars(LifecycleStep)
    /\ SF_vars(CancelSupervisor)
    /\ \A g \in Gens : /\ WF_vars(SupervisorStep(g))
                       /\ WF_vars(HomeDone(g) /\ SubscriptionEnds(g))
    /\ \A k \in Clients : WF_vars(WorkerStep(k)) /\ WF_vars(ObserverEnds(k))

FairSpec == Spec /\ Fairness

-----------------------------------------------------------------------------
(* Properties *)

\* The shapes of the service's fields and of its goroutines' positions; a
\* lifetime belongs to the generation and the registry it was made for.
TypeOK ==
    /\ call \in {"none", "start", "shutdown", "stopped"}
    /\ at \in {"cancel", "wait", "take", "finish"}
    /\ generation \in 0..(MaxGen + 1) /\ supervisor \in 0..MaxGen
    /\ runEnded \in BOOLEAN
    /\ cancelled \subseteq Gens
    /\ sup \in [Gens -> {"none", "loop", "subscribed", "join", "unbundle", "detached",
                         "settle", "replacing", "draining", "flushing", "finished",
                         "abandoned", "leaving", "done"}]
    /\ registry \in [Gens -> 0..registries] /\ registries \in 0..(MaxGen + MaxClients)
    /\ client \in [Gens -> 0..clients] /\ clients \in 0..MaxClients
    /\ genOf \in [Clients -> 0..MaxGen] /\ regOf \in [Clients -> 0..registries]
    /\ \A k \in 1..clients : genOf[k] # 0 /\ regOf[k] # 0
    /\ {up, ended, fenced, ambiguous, published, observing, flushing, leaked}
         \subseteq SUBSET (1..clients)
    /\ worker \in [Clients -> {"off", "ready?", "idle", "staged", "committing",
                               "committed", "applied", "publishing", "observer"}]
    /\ queue \in [Clients -> 0..MaxConfigs]
    /\ {homeClient, bundle, committed} \subseteq 0..clients
    /\ {shut, silent, owed} \subseteq SUBSET (1..registries)
    /\ req \in [Requests -> [at : {"idle", "loaded", "late", "installed", "scope"}
                                   \union Unresolved,
                             k : 0..clients]]

\* No configuration of a generation is committed once its replacement or the
\* shutdown has cancelled it, however late its worker is
\* (service_executionregistry_test.go:416, 342).
NoCommitAfterCancel ==
    [][\A k \in Clients : Commit(k) => genOf[k] \notin cancelled]_vars

\* Requests are never given a lifetime while another one's dispatches are open,
\* and never a registry under which a slot may have been lost: the next lifetime
\* claims the membership, and with it what Home counts for this registry, only
\* when every answer is known (service_home.go:512, 526).  An answer that came
\* too late for its registry is aborted later still, but counts as a lost slot.
DispatchesSettled ==
    bundle # 0 =>
      /\ \A k \in leaked \ {bundle} : regOf[k] # regOf[bundle]
      /\ \A q \in Requests :
           req[q].at \in {"sent", "lost", "aborted"} => req[q].k = bundle

\* One lifetime at a time: requests, the runtime integrations and the in-flight
\* publisher see the client of the supervisor that runs, and only until that
\* supervisor goes on to its next one.
OneLifetime ==
    \A k \in ({homeClient, bundle} \union observing) \ {0} :
      /\ genOf[k] = supervisor
      /\ client[supervisor] = k
      /\ sup[supervisor] \notin {"loop", "settle", "replacing", "leaving", "done"}

\* A supervisor that is done has left nothing to its successor: nothing is
\* published, and its registries are drained unless a timeout or the user ended
\* the whole service; one that ended in order has told Home every release.
NothingLeftBehind ==
    \A g \in Gens :
      /\ sup[g] = "done" =>
           /\ \A k \in {homeClient, bundle} : k # 0 => genOf[k] # g
           /\ runEnded \/ \A k \in Clients : genOf[k] = g => Empty(regOf[k])
      /\ sup[g] = "finished" => Empty(registry[g]) /\ registry[g] \notin owed

\* startHomeSubscriber and Shutdown return although requests, Home and its
\* connections may hang.
ReplacementReturns == call \in {"start", "shutdown"} ~> call \in {"none", "stopped"}
=============================================================================
