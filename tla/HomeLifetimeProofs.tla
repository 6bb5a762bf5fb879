-------------------------- MODULE HomeLifetimeProofs --------------------------
(***************************************************************************)
(* Theorems about HomeLifetime, for any number of generations, lifetimes,  *)
(* waiting configurations and requests.                                    *)
(*                                                                         *)
(* The inductive invariant HInv says where everything that belongs to a    *)
(* lifetime may still be: one supervisor works, and worker, observer,      *)
(* published client, open connection and unanswered questions are those of *)
(* the lifetime it attends to.  The lemmas before it say who changes what; *)
(* each part of the invariant is then kept by the few steps that touch its *)
(* variables, and the theorems at the end read the properties off it.      *)
(***************************************************************************)
EXTENDS HomeLifetime, TLAPS

-----------------------------------------------------------------------------
(* The inductive invariant *)

\* The positions of a supervisor whose registry takes dispatches, that has a
\* lifetime of its own, and that has not closed its client.
Fresh == {"loop", "subscribed", "join", "unbundle", "detached", "settle"}
Busy == {"subscribed", "join", "unbundle", "detached", "settle", "replacing",
         "draining", "flushing", "finished"}
Open == {"subscribed", "join", "unbundle", "detached", "draining", "flushing"}

\* The positions of a request whose question Home may have received.
Asked == {"sent", "lost", "aborted"}

\* The supervisor that works attends to client k, in one of the positions pcs.
Attends(k, pcs) ==
    supervisor \in Gens /\ client[supervisor] = k /\ sup[supervisor] \in pcs

\* Generations follow one another: only the latest has a supervisor that is not
\* done, and whoever waits for it goes on only then.
Generations ==
    /\ generation = IF call = "stopped" \/ (call = "shutdown" /\ at = "finish")
                    THEN supervisor + 1 ELSE supervisor
    /\ call = "start" => generation < MaxGen
    /\ \A g \in Gens : /\ sup[g] = "none" <=> g > supervisor
                       /\ g < supervisor => sup[g] = "done"
    /\ call \in {"start", "shutdown"} /\ at \in {"take", "finish"} =>
         \A g \in Gens : sup[g] \in {"none", "done"}

\* A lifetime is made by the latest generation, and is the latest of all until its
\* supervisor makes the next; every registry is made with a generation or for a
\* lifetime that replaces another.
Lifetimes ==
    /\ \A k \in 1..clients : genOf[k] \in 1..supervisor
    /\ \A k \in Clients : k > clients => genOf[k] = 0
    /\ \A g \in Gens : g <= supervisor => registry[g] # 0
    /\ \A g \in Gens : sup[g] \in Busy =>
         /\ client[g] = clients /\ clients # 0
         /\ genOf[clients] = g /\ regOf[clients] = registry[g]
    /\ registries <= supervisor + clients
    /\ \A g \in Gens : sup[g] \in Busy => registries < supervisor + clients

\* Worker, observer and the published client are those of the lifetime the
\* supervisor attends to; the bundle outlives s.homeClient by one step.
Attended ==
    /\ \A k \in Clients : worker[k] # "off" \/ k \in observing \/ k = homeClient =>
                            Attends(k, {"subscribed", "join"})
    /\ bundle # homeClient => homeClient = 0 /\ Attends(bundle, {"unbundle"})
    /\ \A k \in Clients : worker[k] = "committing" => genOf[k] \notin cancelled

\* Only the client of the lifetime attended to may send.
Fencing == \A k \in 1..clients : k \notin fenced => Attends(k, Open)

\* The registry of a supervisor is shut when the supervisor gives it up, empty when
\* it was drained, and owes nothing when it was flushed.
FollowsSupervisor(g) ==
    /\ sup[g] \in Fresh => registry[g] \notin shut
    /\ sup[g] \in {"replacing", "draining", "flushing", "finished", "leaving", "done"}
         => registry[g] \in shut
    /\ sup[g] \in {"flushing", "finished"} => Empty(registry[g])
    /\ sup[g] = "finished" => registry[g] \notin owed
    /\ sup[g] = "done" => runEnded \/ Empty(registry[g])

\* A registry follows its supervisor, and is drained when another takes its place.
Drains ==
    /\ \A g \in Gens : FollowsSupervisor(g)
    /\ \A k \in 1..clients : \/ regOf[k] = registry[genOf[k]]
                             \/ regOf[k] \in shut /\ Empty(regOf[k])

\* A request that asks has a lifetime; a question Home has not answered is one of
\* the attended lifetime, unless a timeout has ended the whole service.
Questions ==
    /\ \A q \in Requests : req[q].at # "idle" => req[q].k \in 1..clients
    /\ \A q \in Requests : req[q].at \in Asked =>
         \/ Attends(req[q].k, Busy \ {"finished"})
         \/ /\ runEnded
            /\ supervisor \in Gens
            /\ sup[supervisor] \in {"abandoned", "leaving", "done"}

\* A lost slot is known as ambiguous, is about to be, or its registry is shut; and
\* no lifetime before the attended one lost any of the registry.
Losses ==
    /\ \A k \in leaked : \/ k \in ambiguous
                         \/ \E q \in Requests : req[q].at = "lost" /\ req[q].k = k
                         \/ regOf[k] \in shut
    /\ \A g \in Gens, k \in leaked :
         sup[g] \in Fresh /\ regOf[k] = registry[g] => k = client[g] /\ sup[g] # "loop"

HInv ==
    /\ Generations /\ Lifetimes /\ Attended /\ Fencing
    /\ Drains /\ Questions /\ Losses

-----------------------------------------------------------------------------
(* Who changes what *)

\* Calls of startHomeSubscriber and Shutdown that start no supervisor.
CallStep == \/ StartHomeSubscriber \/ Shutdown \/ CancelSupervisor
            \/ AwaitSupervisor \/ TakeHome \/ FinishShutdown

SubscriberStep(g) == Acknowledged(g) \/ ConfigArrives(g)
ConfigStep(k) == WorkerStep(k) \/ ObserverEnds(k)
DispatchStep(q) == LoadBundle(q) \/ RequestStep(q)

\* A step is one of the service's calls, of a subscription, of a supervisor, of a
\* worker or its publisher, of a flusher, or of a request.
LEMMA Steps ==
    ASSUME [Next]_vars
    PROVE  \/ CallStep \/ FinishStart \/ RunEnds
           \/ \E g \in Gens : SubscriberStep(g) \/ SubscriptionEnds(g) \/ SupervisorStep(g)
           \/ \E k \in Clients : ConfigStep(k) \/ SendReleases(k)
           \/ \E q \in Requests : DispatchStep(q)
           \/ UNCHANGED vars
  BY DEF Next, LifecycleStep, CallStep, SubscriberStep, ConfigStep, DispatchStep

\* A call changes no supervisor, no lifetime and no request.
LEMMA CallsKeep ==
    ASSUME CallStep
    PROVE  /\ UNCHANGED <<supervisor, runEnded, supVars, linkVars, workVars, flushing,
                          committed, regVars, reqVars>>
           /\ \/ UNCHANGED cancelled
              \/ CancelSupervisor
           /\ \/ UNCHANGED <<generation, homeClient, bundle>>
              \/ TakeHome
  BY DEF CallStep, StartHomeSubscriber, Shutdown, CancelSupervisor, AwaitSupervisor,
         TakeHome, FinishShutdown, homeVars

\* FinishStart makes a generation with its supervisor and registry, or none.
LEMMA StartsKeep ==
    ASSUME FinishStart
    PROVE  UNCHANGED <<at, cancelled, runEnded, client, clients, genOf, regOf,
                       linkVars, workVars, flushing, homeVars, regVars, reqVars>>
  BY DEF FinishStart

\* A subscription touches the heartbeat and the queue.
LEMMA SubscribersKeep ==
    ASSUME NEW g \in Gens, SubscriberStep(g)
    PROVE  UNCHANGED <<callVars, runEnded, supVars, ended, fenced, ambiguous, worker,
                       published, observing, flushing, homeVars, regVars, reqVars>>
  BY DEF SubscriberStep, Acknowledged, ConfigArrives, linkVars, workVars

\* A supervisor moves itself; NewLifetime makes clients, Replaced makes registries.
LEMMA SupervisorsKeep ==
    ASSUME NEW g \in Gens, SubscriptionEnds(g) \/ SupervisorStep(g)
    PROVE  /\ UNCHANGED <<callVars, ambiguous, queue, published, observing, committed,
                          owed, reqVars>>
           /\ \/ UNCHANGED <<client, clients, genOf, regOf, worker>>
              \/ NewLifetime(g)
           /\ \/ UNCHANGED <<registry, registries>>
              \/ Replaced(g)
           /\ fenced \subseteq fenced'
           /\ runEnded => runEnded'
<1>1. CASE SubscriptionEnds(g) \/ NewLifetime(g) \/ LeaveLoop(g) \/ Detach(g)
             \/ Unbundle(g) \/ FinalDrain(g)
  BY <1>1 DEF SubscriptionEnds, NewLifetime, LeaveLoop, Detach, Unbundle, FinalDrain,
              supVars, linkVars, workVars, homeVars, regVars
<1>2. CASE Retry(g) \/ Flushed(g) \/ TimedOut(g)
  BY <1>2 DEF Retry, Flushed, TimedOut, CloseClient, workVars, homeVars, regVars
<1>3. CASE Settled(g)
  BY <1>3 DEF Settled, linkVars, workVars, homeVars
<1>4. CASE Replaced(g) \/ Drained(g) \/ DeferredDrain(g)
  BY <1>4 DEF Replaced, Drained, DeferredDrain, linkVars, workVars, homeVars, regVars
<1>5. CASE Done(g)
  BY <1>5, Zenon DEF Done, linkVars, workVars, homeVars, regVars
<1> QED
  BY <1>1, <1>2, <1>3, <1>4, <1>5 DEF SupervisorStep

\* Where a supervisor goes.
Moves == {<<"loop", "subscribed">>, <<"loop", "abandoned">>, <<"subscribed", "join">>,
          <<"join", "unbundle">>, <<"join", "detached">>, <<"unbundle", "detached">>,
          <<"detached", "settle">>, <<"detached", "draining">>,
          <<"settle", "replacing">>, <<"settle", "loop">>, <<"replacing", "loop">>,
          <<"draining", "flushing">>, <<"flushing", "finished">>,
          <<"settle", "abandoned">>, <<"replacing", "abandoned">>,
          <<"draining", "abandoned">>, <<"flushing", "abandoned">>,
          <<"finished", "leaving">>, <<"abandoned", "leaving">>,
          <<"leaving", "done">>}

\* A supervisor moves itself along Moves, and no other one.
LEMMA SupervisorsMove ==
    ASSUME NEW g \in Gens, SubscriptionEnds(g) \/ SupervisorStep(g)
    PROVE  \E move \in Moves : sup[g] = move[1] /\ GoTo(g, move[2])
<1>1. CASE SubscriptionEnds(g) \/ NewLifetime(g) \/ LeaveLoop(g)
  BY <1>1 DEF SubscriptionEnds, NewLifetime, LeaveLoop, Moves
<1>2. CASE Detach(g)
  BY <1>2 DEF Detach, Moves
<1>3. CASE Unbundle(g) \/ FinalDrain(g) \/ Retry(g)
  BY <1>3 DEF Unbundle, FinalDrain, Retry, Moves
<1>4. CASE Settled(g)
  BY <1>4 DEF Settled, Moves
<1>5. CASE Replaced(g) \/ Drained(g) \/ Flushed(g)
  BY <1>5 DEF Replaced, Drained, Flushed, Moves
<1>6. CASE TimedOut(g)
  BY <1>6 DEF TimedOut, Moves
<1>7. CASE DeferredDrain(g)
  BY <1>7 DEF DeferredDrain, Moves
<1>8. CASE Done(g)
  BY <1>8 DEF Done, Moves
<1> QED
  BY <1>1, <1>2, <1>3, <1>4, <1>5, <1>6, <1>7, <1>8 DEF SupervisorStep

\* A worker changes what is committed and published, and its own position.
LEMMA WorkersKeep ==
    ASSUME NEW k \in Clients, ConfigStep(k)
    PROVE  /\ UNCHANGED <<callVars, runEnded, supVars, linkVars, flushing, regVars,
                          reqVars>>
           /\ \/ UNCHANGED <<homeClient, bundle, published>>
              \/ Publish(k)
           /\ UNCHANGED committed \/ Commit(k)
  BY DEF ConfigStep, WorkerStep, WorkerReady, Stage, CommitCheck, Commit, ApplyRuntime,
         PublishCheck, Publish, Observe, WorkerReturns, ObserverEnds, workVars, homeVars

\* A request reads the bundle; it fences its client and owes its release.
LEMMA DispatchesKeep ==
    ASSUME NEW q \in Requests, DispatchStep(q)
    PROVE  /\ UNCHANGED <<callVars, runEnded, supVars, ended, workVars, flushing,
                          homeVars, shut, silent>>
           /\ ambiguous \subseteq ambiguous' /\ fenced \subseteq fenced'
           /\ \/ UNCHANGED owed
              \/ EndScope(q)
           /\ \/ UNCHANGED leaked
              \/ DispatchLate(q) \/ DispatchLost(q)
           /\ \/ UNCHANGED <<ambiguous, fenced, up>>
              \/ Fence(req[q].k)
  BY DEF DispatchStep, LoadBundle, RequestStep, BeginDispatch, SendDispatch,
         DispatchRefused, DispatchGranted, AnswerValid, AnswerMalformed, DispatchLate,
         DispatchLost, AbortDispatch, EndDispatch, EndScope, Fence, linkVars, regVars,
         reqVars

-----------------------------------------------------------------------------
(* Generations *)

PCs == {"none", "loop", "subscribed", "join", "unbundle", "detached", "settle",
        "replacing", "draining", "flushing", "finished", "abandoned", "leaving", "done"}

\* The fields of the service's calls and supervisors have their shapes.
CallTypes ==
    /\ call \in {"none", "start", "shutdown", "stopped"}
    /\ at \in {"cancel", "wait", "take", "finish"}
    /\ generation \in 0..(MaxGen + 1) /\ supervisor \in 0..MaxGen
    /\ runEnded \in BOOLEAN
    /\ cancelled \subseteq Gens
    /\ sup \in [Gens -> PCs]

\* They are part of the type invariant.
LEMMA CallTypesHold ==
    ASSUME TypeOK
    PROVE  /\ CallTypes
           /\ MaxGen \in Nat /\ MaxClients \in Nat /\ MaxConfigs \in Nat \ {0}
  BY BoundsAssumption DEF TypeOK, CallTypes, PCs

\* The supervisor that moves is the latest.
LEMMA MovesAreOfTheLatest ==
    ASSUME CallTypes, Generations, MaxGen \in Nat,
           NEW g \in Gens, SubscriptionEnds(g) \/ SupervisorStep(g)
    PROVE  /\ g = supervisor
           /\ ~(call \in {"start", "shutdown"} /\ at \in {"take", "finish"})
<1>1. sup[g] \notin {"none", "done"}
  BY SupervisorsMove DEF Moves
<1>2. g \in Nat /\ supervisor \in Nat
  BY DEF CallTypes, Gens
<1> QED
  BY <1>1, <1>2 DEF Generations

\* A supervisor that moves keeps its shape, and is not back at its start.
LEMMA MovesKeepTypes ==
    ASSUME CallTypes, NEW g \in Gens, SubscriptionEnds(g) \/ SupervisorStep(g)
    PROVE  /\ sup' \in [Gens -> PCs]
           /\ \A h \in Gens \ {g} : sup'[h] = sup[h]
           /\ <<sup[g], sup'[g]>> \in Moves
           /\ sup'[g] # "none"
  BY SupervisorsMove DEF Moves, GoTo, CallTypes, PCs

\* A timeout, or a registry that is not drained, ends the run.
LEMMA RunEndedTyped ==
    ASSUME runEnded \in BOOLEAN, NEW g \in Gens, SubscriptionEnds(g) \/ SupervisorStep(g)
    PROVE  runEnded' \in BOOLEAN
  BY DEF SupervisorStep, SubscriptionEnds, NewLifetime, LeaveLoop, Detach, Unbundle,
         Retry, FinalDrain, Settled, Replaced, Drained, Flushed, TimedOut,
         DeferredDrain, Done

\* The latest generation is the only one at work.
LEMMA GenerationsStep ==
    ASSUME TypeOK, Generations, [Next]_vars
    PROVE  Generations' /\ CallTypes'
<1> USE CallTypesHold
<1>1. CASE CallStep
  <2>0. UNCHANGED <<supervisor, runEnded, sup>>
    BY <1>1, CallsKeep DEF supVars
  <2>1. CASE StartHomeSubscriber \/ Shutdown
    BY <2>0, <2>1 DEF StartHomeSubscriber, Shutdown, Generations, CallTypes
  <2>2. CASE CancelSupervisor
    BY <2>0, <2>2 DEF CancelSupervisor, Generations, CallTypes, Gens
  <2>3. CASE AwaitSupervisor
    BY <2>0, <2>3 DEF AwaitSupervisor, Generations, CallTypes, Gens
  <2>4. CASE TakeHome
    BY <2>0, <2>4 DEF TakeHome, Generations, CallTypes
  <2>5. CASE FinishShutdown
    BY <2>0, <2>5 DEF FinishShutdown, Generations, CallTypes
  <2> QED
    BY <1>1, <2>1, <2>2, <2>3, <2>4, <2>5 DEF CallStep
<1>2. CASE FinishStart
  <2>1. CASE runEnded
    BY <1>2, <2>1 DEF FinishStart, Generations, CallTypes
  <2>2. CASE ~runEnded
    <3>1. /\ generation' = generation + 1 /\ supervisor' = generation + 1
          /\ sup' = [sup EXCEPT ![generation + 1] = "loop"]
          /\ UNCHANGED <<at, runEnded, cancelled>> /\ call' = "none"
          /\ call = "start" /\ at = "finish"
      BY <1>2, <2>2 DEF FinishStart
    <3>2. generation = supervisor /\ generation < MaxGen /\ generation \in Nat
      BY <3>1 DEF Generations, CallTypes
    <3>3. \A g \in Gens : g <= supervisor => sup[g] = "done"
      BY <3>1, <3>2 DEF Generations, CallTypes, Gens
    <3>4. generation + 1 \in Gens
      BY <3>2 DEF Gens
    <3>5. CallTypes'
      BY <3>1, <3>2, <3>4 DEF CallTypes, PCs
    <3>6. \A g \in Gens : /\ sup'[g] = "none" <=> g > supervisor'
                          /\ g < supervisor' => sup'[g] = "done"
      BY <3>1, <3>2, <3>3, <3>4 DEF Generations, CallTypes, Gens
    <3> QED
      BY <3>1, <3>2, <3>5, <3>6 DEF Generations
  <2> QED
    BY <2>1, <2>2
<1>3. ASSUME NEW g \in Gens, SubscriptionEnds(g) \/ SupervisorStep(g)
      PROVE  Generations' /\ CallTypes'
  <2>1. UNCHANGED callVars
    BY <1>3, SupervisorsKeep
  <2>2. g = supervisor /\ ~(call \in {"start", "shutdown"} /\ at \in {"take", "finish"})
    BY <1>3, MovesAreOfTheLatest
  <2>3. /\ sup' \in [Gens -> PCs] /\ sup'[g] # "none"
        /\ \A h \in Gens \ {g} : sup'[h] = sup[h]
    BY <1>3, MovesKeepTypes
  <2>4. runEnded' \in BOOLEAN
    BY <1>3, RunEndedTyped DEF CallTypes
  <2>5. CallTypes'
    BY <2>1, <2>3, <2>4 DEF CallTypes, callVars
  <2>6. supervisor \in Nat
    BY DEF CallTypes
  <2> QED
    BY <2>1, <2>2, <2>3, <2>5, <2>6 DEF Generations, callVars, Gens
<1>4. CASE RunEnds
  BY <1>4 DEF RunEnds, Generations, CallTypes, callVars, supVars
<1>5. ASSUME NEW g \in Gens, SubscriberStep(g) PROVE Generations' /\ CallTypes'
  BY <1>5, SubscribersKeep DEF Generations, CallTypes, callVars, supVars
<1>6. ASSUME NEW k \in Clients, ConfigStep(k) PROVE Generations' /\ CallTypes'
  BY <1>6, WorkersKeep DEF Generations, CallTypes, callVars, supVars
<1>7. ASSUME NEW q \in Requests, DispatchStep(q) PROVE Generations' /\ CallTypes'
  BY <1>7, DispatchesKeep DEF Generations, CallTypes, callVars, supVars
<1>8. CASE UNCHANGED vars \/ \E k \in Clients : SendReleases(k)
  BY <1>8 DEF SendReleases, Generations, CallTypes, callVars, supVars, vars
<1> QED
  BY <1>1, <1>2, <1>3, <1>4, <1>5, <1>6, <1>7, <1>8, Steps

-----------------------------------------------------------------------------
(* Lifetimes and registries *)

\* The fields that say which lifetime has which generation and registry have their
\* shapes.
LifeTypes ==
    /\ registry \in [Gens -> 0..registries] /\ registries \in 0..(MaxGen + MaxClients)
    /\ client \in [Gens -> 0..clients] /\ clients \in 0..MaxClients
    /\ genOf \in [Clients -> 0..MaxGen] /\ regOf \in [Clients -> 0..registries]
    /\ \A k \in 1..clients : genOf[k] # 0 /\ regOf[k] # 0

\* They are part of the type invariant.
LEMMA LifeTypesHold ==
    ASSUME TypeOK
    PROVE  LifeTypes /\ clients \in Nat /\ registries \in Nat
  BY BoundsAssumption DEF TypeOK, LifeTypes

\* Lifetimes made so far are lifetimes.
LEMMA ClientsInRange ==
    ASSUME LifeTypes, MaxClients \in Nat
    PROVE  1..clients \subseteq Clients
  BY DEF LifeTypes, Clients

\* Only NewLifetime leads a supervisor to a lifetime.
LEMMA BusyFromLoop ==
    ASSUME CallTypes, NEW g \in Gens, SubscriptionEnds(g) \/ SupervisorStep(g),
           ~NewLifetime(g)
    PROVE  \A h \in Gens : sup'[h] \in Busy => sup[h] \in Busy
<1>1. CASE LeaveLoop(g)
  BY <1>1 DEF LeaveLoop, GoTo, CallTypes, Busy
<1>2. CASE sup[g] # "loop"
  BY <1>2, MovesKeepTypes DEF Moves, Busy
<1>3. CASE ~LeaveLoop(g) /\ ~NewLifetime(g)
  <2>1. sup[g] # "loop"
    BY <1>3 DEF SupervisorStep, SubscriptionEnds, Detach, Unbundle, Retry, FinalDrain,
                Settled, Replaced, Drained, Flushed, TimedOut, DeferredDrain, Done
  <2> QED
    BY <1>2, <2>1
<1> QED
  BY <1>1, <1>3

\* Every lifetime and every registry is made where Lifetimes says.
LEMMA LifetimesStep ==
    ASSUME TypeOK, Generations, Lifetimes, [Next]_vars
    PROVE  Lifetimes' /\ LifeTypes'
<1> USE CallTypesHold, LifeTypesHold
<1>1. CASE CallStep
  BY <1>1, CallsKeep DEF supVars, Lifetimes, LifeTypes
<1>2. CASE FinishStart /\ runEnded
  BY <1>2 DEF FinishStart, Lifetimes, LifeTypes
<1>3. CASE FinishStart /\ ~runEnded
  <2>1. /\ supervisor' = generation + 1 /\ registries' = registries + 1
        /\ sup' = [sup EXCEPT ![generation + 1] = "loop"]
        /\ registry' = [registry EXCEPT ![generation + 1] = registries + 1]
        /\ UNCHANGED <<client, clients, genOf, regOf>>
        /\ call = "start" /\ at = "finish"
    BY <1>3 DEF FinishStart
  <2>2. /\ generation = supervisor /\ generation < MaxGen /\ generation + 1 \in Gens
        /\ supervisor \in Nat
    BY <2>1 DEF Generations, CallTypes, Gens
  <2>3. \A g \in Gens : sup'[g] \notin Busy
    BY <2>1, <2>2 DEF Generations, CallTypes, Busy
  <2>4. registries <= supervisor + clients
    BY DEF Lifetimes
  <2>5. LifeTypes'
    <3>1. /\ registries' \in 0..(MaxGen + MaxClients)
          /\ client' \in [Gens -> 0..clients'] /\ clients' \in 0..MaxClients
          /\ genOf' \in [Clients -> 0..MaxGen]
          /\ \A k \in 1..clients' : genOf'[k] # 0 /\ regOf'[k] # 0
      BY <2>1, <2>2, <2>4 DEF LifeTypes
    <3>2. regOf' \in [Clients -> 0..registries']
      BY <2>1 DEF LifeTypes
    <3>3. registry' \in [Gens -> 0..registries']
      BY <2>1, <2>2 DEF LifeTypes
    <3> QED
      BY <3>1, <3>2, <3>3 DEF LifeTypes
  <2>6. \A k \in 1..clients' : genOf'[k] \in 1..supervisor'
    BY <2>1, <2>2 DEF Lifetimes
  <2>7. \A g \in Gens : g <= supervisor' => registry'[g] # 0
    BY <2>1, <2>2 DEF Lifetimes, LifeTypes, Gens
  <2> QED
    BY <2>1, <2>2, <2>3, <2>4, <2>5, <2>6, <2>7 DEF Lifetimes
<1>4. ASSUME NEW g \in Gens, NewLifetime(g) PROVE Lifetimes' /\ LifeTypes'
  <2>1. /\ clients' = clients + 1 /\ clients < MaxClients
        /\ client' = [client EXCEPT ![g] = clients + 1]
        /\ genOf' = [genOf EXCEPT ![clients + 1] = g]
        /\ regOf' = [regOf EXCEPT ![clients + 1] = registry[g]]
        /\ sup' = [sup EXCEPT ![g] = "subscribed"]
        /\ UNCHANGED <<supervisor, registry, registries>>
    BY <1>4 DEF NewLifetime, GoTo, callVars
  <2>2. g = supervisor /\ supervisor \in Nat
    BY <1>4, MovesAreOfTheLatest DEF SupervisorStep, CallTypes
  <2>3. clients + 1 \in Clients /\ registry[g] \in 1..registries
    BY <2>1, <2>2 DEF Clients, LifeTypes, Lifetimes
  <2>3a. \A k \in 1..clients' : k \in Clients /\ (k = clients + 1 \/ k \in 1..clients)
    BY <2>1 DEF Clients, LifeTypes
  <2>4. \A h \in Gens : sup'[h] \in Busy => h = g
    BY <2>1, <2>2 DEF Generations, CallTypes, Busy, Gens
  <2>5. LifeTypes'
    <3>1. /\ registry' \in [Gens -> 0..registries']
          /\ registries' \in 0..(MaxGen + MaxClients) /\ clients' \in 0..MaxClients
      BY <2>1 DEF LifeTypes
    <3>2. client' \in [Gens -> 0..clients']
      BY <2>1 DEF LifeTypes
    <3>3. genOf' \in [Clients -> 0..MaxGen] /\ regOf' \in [Clients -> 0..registries']
      BY <2>1, <2>2, <2>3 DEF LifeTypes, Gens
    <3>4. \A k \in 1..clients' : genOf'[k] # 0 /\ regOf'[k] # 0
      BY <2>3a, <2>1, <2>2, <2>3 DEF LifeTypes, Gens
    <3> QED
      BY <3>1, <3>2, <3>3, <3>4 DEF LifeTypes
  <2>6. \A k \in 1..clients' : genOf'[k] \in 1..supervisor'
    BY <2>3a, <2>1, <2>2, <2>3 DEF Lifetimes, LifeTypes, Gens
  <2>7. /\ client'[g] = clients' /\ clients' # 0
        /\ genOf'[clients'] = g /\ regOf'[clients'] = registry'[g]
    BY <2>1, <2>3 DEF LifeTypes
  <2>8. registries' < supervisor' + clients'
    BY <2>1, <2>2 DEF Lifetimes
  <2>9. \A k \in Clients : k > clients' => genOf'[k] = 0
    BY <2>1, <2>3 DEF Lifetimes, LifeTypes, Clients
  <2> QED
    BY <2>1, <2>2, <2>4, <2>5, <2>6, <2>7, <2>8, <2>9 DEF Lifetimes
<1>5. ASSUME NEW g \in Gens, Replaced(g) PROVE Lifetimes' /\ LifeTypes'
  <2>1. /\ registries' = registries + 1
        /\ registry' = [registry EXCEPT ![g] = registries + 1]
        /\ sup[g] = "replacing" /\ sup' = [sup EXCEPT ![g] = "loop"]
        /\ UNCHANGED <<supervisor, client, clients, genOf, regOf>>
    BY <1>5 DEF Replaced, GoTo, callVars
  <2>2. g = supervisor /\ supervisor \in 0..MaxGen
    BY <1>5, MovesAreOfTheLatest DEF SupervisorStep, CallTypes
  <2>3. registries < supervisor + clients
    BY <2>1 DEF Lifetimes, Busy
  <2>4. \A h \in Gens : sup'[h] \notin Busy
    BY <2>1, <2>2 DEF Generations, CallTypes, Busy, Gens
  <2>5. LifeTypes'
    <3>1. /\ client' \in [Gens -> 0..clients'] /\ clients' \in 0..MaxClients
          /\ genOf' \in [Clients -> 0..MaxGen]
          /\ \A k \in 1..clients' : genOf'[k] # 0 /\ regOf'[k] # 0
      BY <2>1 DEF LifeTypes
    <3>2. registries' \in 0..(MaxGen + MaxClients)
      BY <2>1, <2>2, <2>3 DEF LifeTypes
    <3>3. regOf' \in [Clients -> 0..registries'] /\ registry' \in [Gens -> 0..registries']
      BY <2>1 DEF LifeTypes
    <3> QED
      BY <3>1, <3>2, <3>3 DEF LifeTypes
  <2> QED
    BY <2>1, <2>2, <2>3, <2>4, <2>5 DEF Lifetimes, LifeTypes
<1>6. ASSUME NEW g \in Gens, SubscriptionEnds(g) \/ SupervisorStep(g),
             ~NewLifetime(g), ~Replaced(g)
      PROVE  Lifetimes' /\ LifeTypes'
  <2>1. UNCHANGED <<callVars, client, clients, genOf, regOf, registry, registries>>
    BY <1>6, SupervisorsKeep
  <2>2. \A h \in Gens : sup'[h] \in Busy => sup[h] \in Busy
    BY <1>6, BusyFromLoop
  <2> QED
    BY <2>1, <2>2 DEF Lifetimes, LifeTypes, callVars
<1>7. ASSUME NEW g \in Gens, SubscriberStep(g) PROVE Lifetimes' /\ LifeTypes'
  BY <1>7, SubscribersKeep DEF Lifetimes, LifeTypes, callVars, supVars
<1>8. ASSUME NEW k \in Clients, ConfigStep(k) PROVE Lifetimes' /\ LifeTypes'
  BY <1>8, WorkersKeep DEF Lifetimes, LifeTypes, callVars, supVars
<1>9. ASSUME NEW q \in Requests, DispatchStep(q) PROVE Lifetimes' /\ LifeTypes'
  BY <1>9, DispatchesKeep DEF Lifetimes, LifeTypes, callVars, supVars
<1>10. CASE UNCHANGED vars \/ RunEnds \/ \E k \in Clients : SendReleases(k)
  BY <1>10 DEF SendReleases, RunEnds, Lifetimes, LifeTypes, callVars, supVars, vars
<1> QED
  BY <1>1, <1>2, <1>3, <1>4, <1>5, <1>6, <1>7, <1>8, <1>9, <1>10, Steps

-----------------------------------------------------------------------------
(* The lifetime the supervisor attends to *)

\* The fields of a lifetime's goroutines and what they publish have their shapes.
WorkTypes ==
    /\ worker \in [Clients -> {"off", "ready?", "idle", "staged", "committing",
                               "committed", "applied", "publishing", "observer"}]
    /\ queue \in [Clients -> 0..MaxConfigs]
    /\ homeClient \in 0..clients /\ bundle \in 0..clients /\ committed \in 0..clients
    /\ published \subseteq 1..clients /\ observing \subseteq 1..clients
    /\ flushing \subseteq 1..clients

\* They are part of the type invariant.
LEMMA WorkTypesHold ==
    ASSUME TypeOK
    PROVE  WorkTypes
  BY DEF TypeOK, WorkTypes

\* While no supervisor attends to a lifetime, no worker or publisher runs and
\* nothing is published.
LEMMA NothingAttended ==
    ASSUME TypeOK, Attended,
           supervisor \in Gens =>
             sup[supervisor] \notin {"subscribed", "join", "unbundle"}
    PROVE  /\ \A k \in Clients : worker[k] = "off" /\ k \notin observing
           /\ homeClient = 0 /\ bundle = 0
<1>1. \A k \in Clients : worker[k] = "off" /\ k \notin observing /\ k # homeClient
  BY DEF Attended, Attends
<1>2. homeClient \in 0..clients /\ clients \in 0..MaxClients
  BY WorkTypesHold, LifeTypesHold DEF WorkTypes, LifeTypes
<1>3. homeClient = 0
  BY <1>1, <1>2, CallTypesHold DEF Clients
<1> QED
  BY <1>1, <1>3 DEF Attended, Attends

\* Nothing attended and nothing published: Attended holds.
LEMMA AttendedVacuous ==
    ASSUME \A k \in Clients : worker'[k] = "off" /\ k \notin observing',
           homeClient' = 0, bundle' = 0
    PROVE  Attended'
  BY DEF Attended, Clients

\* A worker publishes and commits for the lifetime attended to.
LEMMA AttendedByWorkers ==
    ASSUME TypeOK, Attended, NEW k \in Clients, ConfigStep(k)
    PROVE  Attended'
<1>1. UNCHANGED <<callVars, supVars>>
  BY WorkersKeep
<1>2. worker \in [Clients -> {"off", "ready?", "idle", "staged", "committing",
                               "committed", "applied", "publishing", "observer"}]
  BY WorkTypesHold DEF WorkTypes
<1>3. CASE ObserverEnds(k)
  BY <1>1, <1>3 DEF ObserverEnds, Attended, Attends, callVars, supVars, homeVars
<1>4. ASSUME worker[k] # "off", worker' = [worker EXCEPT ![k] = worker'[k]],
             observing' \subseteq observing \union {k},
             UNCHANGED <<homeClient, bundle>> \/ (homeClient' = k /\ bundle' = k),
             worker'[k] = "committing" => genOf[k] \notin cancelled
      PROVE  Attended'
  <2>1. Attends(k, {"subscribed", "join"})
    BY <1>4 DEF Attended
  <2>2. \A j \in Clients : worker'[j] # "off" \/ j \in observing' \/ j = homeClient' =>
                             Attends(j, {"subscribed", "join"})
    BY <1>2, <1>4, <2>1 DEF Attended
  <2>3. bundle' # homeClient' => homeClient' = 0 /\ Attends(bundle', {"unbundle"})
    BY <1>4 DEF Attended
  <2>4. \A j \in Clients : worker'[j] = "committing" => genOf[j] \notin cancelled
    BY <1>2, <1>4 DEF Attended
  <2> QED
    BY <1>1, <2>2, <2>3, <2>4 DEF Attended, Attends, callVars, supVars
<1>5. CASE WorkerReady(k) \/ Stage(k) \/ Commit(k) \/ ApplyRuntime(k) \/ PublishCheck(k)
  <2>1. /\ worker[k] # "off" /\ worker'[k] # "committing"
        /\ worker' = [worker EXCEPT ![k] = worker'[k]]
    BY <1>2, <1>5 DEF WorkerReady, Stage, Commit, ApplyRuntime, PublishCheck, Work
  <2>2. UNCHANGED <<observing, homeClient, bundle>>
    BY <1>5 DEF WorkerReady, Stage, Commit, ApplyRuntime, PublishCheck, homeVars
  <2> QED
    BY <1>4, <2>1, <2>2
<1>6. CASE CommitCheck(k)
  <2>1. /\ worker[k] = "staged" /\ worker' = [worker EXCEPT ![k] = "committing"]
        /\ UNCHANGED <<observing, homeClient, bundle>>
    BY <1>6 DEF CommitCheck, Work, homeVars
  <2>2. genOf[k] \notin cancelled
    BY <1>6 DEF CommitCheck, Active, LifetimeDone, HomeDone
  <2> QED
    BY <1>2, <1>4, <2>1, <2>2
<1>7. CASE Publish(k) \/ Observe(k)
  <2>1. /\ worker[k] # "off" /\ worker'[k] # "committing"
        /\ worker' = [worker EXCEPT ![k] = worker'[k]]
    BY <1>2, <1>7 DEF Publish, Observe, Work
  <2>2. /\ observing' \subseteq observing \union {k}
        /\ UNCHANGED <<homeClient, bundle>> \/ (homeClient' = k /\ bundle' = k)
    BY <1>7 DEF Publish, Observe, homeVars
  <2> QED
    BY <1>4, <2>1, <2>2
<1>8. CASE WorkerReturns(k)
  <2>1. /\ worker[k] # "off" /\ worker' = [worker EXCEPT ![k] = "off"]
        /\ UNCHANGED <<observing, homeClient, bundle>>
    BY <1>8 DEF WorkerReturns, Work, homeVars
  <2> QED
    BY <1>2, <1>4, <2>1
<1> QED
  BY <1>3, <1>5, <1>6, <1>7, <1>8 DEF ConfigStep, WorkerStep

\* A supervisor joins the worker and the publisher, and takes back what they
\* published, before it goes on.
LEMMA AttendedBySupervisors ==
    ASSUME TypeOK, Generations, Lifetimes, Attended,
           NEW g \in Gens, SubscriptionEnds(g) \/ SupervisorStep(g)
    PROVE  Attended'
<1> USE CallTypesHold, LifeTypesHold, WorkTypesHold
<1>1. g = supervisor /\ UNCHANGED <<callVars, observing>>
  BY MovesAreOfTheLatest, SupervisorsKeep
<1>2. CASE NewLifetime(g)
  <2>1. /\ sup[g] = "loop" /\ clients < MaxClients
        /\ client' = [client EXCEPT ![g] = clients + 1]
        /\ worker' = [worker EXCEPT ![clients + 1] = "ready?"]
        /\ sup' = [sup EXCEPT ![g] = "subscribed"]
        /\ UNCHANGED <<homeClient, bundle>>
    BY <1>2 DEF NewLifetime, GoTo, homeVars
  <2>2. /\ \A k \in Clients : worker[k] = "off" /\ k \notin observing
        /\ homeClient = 0 /\ bundle = 0
    BY <1>1, <2>1, NothingAttended
  <2>3. client'[g] = clients + 1 /\ sup'[g] = "subscribed"
    BY <2>1 DEF LifeTypes, CallTypes
  <2>4. \A k \in Clients : worker'[k] # "off" => k = clients + 1 /\ worker'[k] = "ready?"
    BY <2>1, <2>2 DEF WorkTypes
  <2> QED
    BY <1>1, <2>1, <2>2, <2>3, <2>4 DEF Attended, Attends, callVars, Clients
<1>3. CASE SubscriptionEnds(g)
  <2>1. /\ sup[g] = "subscribed" /\ sup' = [sup EXCEPT ![g] = "join"]
        /\ UNCHANGED <<client, worker, genOf, homeClient, bundle>>
    BY <1>3 DEF SubscriptionEnds, GoTo, workVars, homeVars
  <2>2. sup'[g] = "join"
    BY <2>1 DEF CallTypes
  <2> QED
    BY <1>1, <2>1, <2>2 DEF Attended, Attends, callVars
<1>4. CASE Detach(g)
  <2>1. /\ sup[g] = "join"
        /\ worker[client[g]] = "off" /\ client[g] \notin observing
        /\ homeClient' = IF homeClient = client[g] THEN 0 ELSE homeClient
        /\ sup' = [sup EXCEPT ![g] = IF homeClient = client[g] THEN "unbundle"
                                                               ELSE "detached"]
        /\ UNCHANGED <<client, worker, genOf, bundle>>
    BY <1>4 DEF Detach, Joined, GoTo, workVars
  <2>2. sup'[g] = IF homeClient = client[g] THEN "unbundle" ELSE "detached"
    BY <2>1 DEF CallTypes
  <2>3. \A k \in Clients : worker[k] = "off" /\ k \notin observing /\
                             (k = homeClient => k = client[g])
    BY <1>1, <2>1 DEF Attended, Attends
  <2>4. bundle = homeClient
    BY <1>1, <2>1 DEF Attended, Attends
  <2>5. homeClient \in Clients \/ homeClient = 0
    BY DEF WorkTypes, LifeTypes, Clients
  <2>6. homeClient' = 0
    BY <2>1, <2>3, <2>5
  <2> QED
    BY <1>1, <2>1, <2>2, <2>3, <2>4, <2>5, <2>6 DEF Attended, Attends, callVars, Clients
<1>5. CASE Unbundle(g)
  <2>1. /\ sup[g] = "unbundle"
        /\ bundle' = IF bundle = client[g] THEN 0 ELSE bundle
        /\ UNCHANGED <<worker, homeClient>>
    BY <1>5 DEF Unbundle, workVars
  <2>2. \A k \in Clients : worker[k] = "off" /\ k \notin observing /\ k # homeClient
    BY <1>1, <2>1 DEF Attended, Attends
  <2>3. homeClient = 0
    BY <2>2 DEF WorkTypes, LifeTypes, Clients
  <2>4. bundle' = 0
    BY <2>1, <2>3, <1>1 DEF Attended, Attends
  <2> QED
    BY <1>1, <2>1, <2>2, <2>3, <2>4, AttendedVacuous
<1>6. CASE ~(NewLifetime(g) \/ SubscriptionEnds(g) \/ Detach(g) \/ Unbundle(g))
  <2>1. /\ sup[g] \notin {"subscribed", "join", "unbundle"}
        /\ UNCHANGED <<homeClient, bundle>>
    BY <1>6 DEF SupervisorStep, LeaveLoop, Retry, FinalDrain, Settled, Replaced, Drained,
                Flushed, TimedOut, DeferredDrain, Done, homeVars
  <2>2. UNCHANGED worker
    BY <1>6, SupervisorsKeep
  <2>3. /\ \A k \in Clients : worker[k] = "off" /\ k \notin observing
        /\ homeClient = 0 /\ bundle = 0
    BY <1>1, <2>1, NothingAttended
  <2> QED
    BY <1>1, <2>1, <2>2, <2>3, AttendedVacuous
<1> QED
  BY <1>2, <1>3, <1>4, <1>5, <1>6

\* Worker, publisher and what they published are of the lifetime attended to.
LEMMA AttendedStep ==
    ASSUME TypeOK, Generations, Lifetimes, Attended, [Next]_vars
    PROVE  Attended'
<1> USE CallTypesHold
<1>1. CASE CallStep /\ ~CancelSupervisor /\ ~TakeHome
  BY <1>1, CallsKeep DEF Attended, Attends, supVars, workVars
<1>2. CASE CancelSupervisor
  <2>1. UNCHANGED <<supervisor, supVars, workVars, homeVars>>
    BY <1>2 DEF CancelSupervisor
  <2>2. CASE supervisor = 0
    <3>1. cancelled' = cancelled
      BY <1>2, <2>2 DEF CancelSupervisor
    <3> QED
      BY <2>1, <3>1 DEF Attended, Attends, supVars, workVars, homeVars
  <2>3. CASE supervisor # 0
    <3>1. \A k \in Clients : worker[k] # "committing"
      BY <1>2, <2>3 DEF CancelSupervisor, CommitMuFree
    <3> QED
      BY <2>1, <3>1 DEF Attended, Attends, supVars, workVars, homeVars
  <2> QED
    BY <2>2, <2>3
<1>3. CASE TakeHome
  <2>1. supervisor \in Gens => sup[supervisor] \in {"none", "done"}
    BY <1>3 DEF TakeHome, Generations
  <2>2. /\ \A k \in Clients : worker[k] = "off" /\ k \notin observing
        /\ homeClient = 0 /\ bundle = 0
    BY <2>1, NothingAttended
  <2> QED
    BY <1>3, <2>2, AttendedVacuous DEF TakeHome, workVars
<1>4. CASE FinishStart
  <2>1. supervisor \in Gens => sup[supervisor] \in {"none", "done"}
    BY <1>4 DEF FinishStart, Generations
  <2>2. /\ \A k \in Clients : worker[k] = "off" /\ k \notin observing
        /\ homeClient = 0 /\ bundle = 0
    BY <2>1, NothingAttended
  <2> QED
    BY <1>4, <2>2, StartsKeep, AttendedVacuous DEF workVars, homeVars
<1>5. ASSUME NEW g \in Gens, SubscriptionEnds(g) \/ SupervisorStep(g) PROVE Attended'
  BY <1>5, AttendedBySupervisors
<1>6. ASSUME NEW k \in Clients, ConfigStep(k) PROVE Attended'
  BY <1>6, AttendedByWorkers
<1>7. ASSUME NEW g \in Gens, SubscriberStep(g) PROVE Attended'
  BY <1>7, SubscribersKeep DEF Attended, Attends, callVars, supVars, homeVars
<1>8. ASSUME NEW q \in Requests, DispatchStep(q) PROVE Attended'
  BY <1>8, DispatchesKeep DEF Attended, Attends, callVars, supVars, workVars, homeVars
<1>9. CASE UNCHANGED vars \/ RunEnds \/ \E k \in Clients : SendReleases(k)
  BY <1>9 DEF SendReleases, RunEnds, Attended, Attends, callVars, supVars, workVars,
              homeVars, vars
<1> QED
  BY <1>1, <1>2, <1>3, <1>4, <1>5, <1>6, <1>7, <1>8, <1>9, Steps

-----------------------------------------------------------------------------
(* Clients that may send *)

\* Only the client of the lifetime attended to is open.
LEMMA FencingStep ==
    ASSUME TypeOK, Generations, Lifetimes, Fencing, [Next]_vars
    PROVE  Fencing'
<1> USE CallTypesHold, LifeTypesHold
<1>1. CASE CallStep
  BY <1>1, CallsKeep DEF Fencing, Attends, supVars, linkVars
<1>2. CASE FinishStart
  <2>1. supervisor \in Gens => sup[supervisor] \in {"none", "done"}
    BY <1>2 DEF FinishStart, Generations
  <2>2. \A k \in 1..clients : k \in fenced
    BY <2>1 DEF Fencing, Attends, Open
  <2> QED
    BY <1>2, <2>2, StartsKeep DEF Fencing, linkVars
<1>3. ASSUME NEW g \in Gens, SubscriptionEnds(g) \/ SupervisorStep(g) PROVE Fencing'
  <2>1. /\ g = supervisor /\ supervisor' = supervisor /\ fenced \subseteq fenced'
        /\ UNCHANGED <<client, clients>> \/ NewLifetime(g)
    BY <1>3, MovesAreOfTheLatest, SupervisorsKeep DEF callVars
  <2>2. CASE NewLifetime(g)
    <3>1. /\ sup[g] = "loop" /\ sup' = [sup EXCEPT ![g] = "subscribed"]
          /\ clients' = clients + 1 /\ client' = [client EXCEPT ![g] = clients + 1]
      BY <2>2 DEF NewLifetime, GoTo
    <3>2. \A k \in 1..clients : k \in fenced
      BY <2>1, <3>1 DEF Fencing, Attends, Open
    <3>3. client'[g] = clients' /\ sup'[g] = "subscribed"
      BY <3>1 DEF LifeTypes, CallTypes
    <3>4. \A k \in 1..clients' : k \in 1..clients \/ k = clients'
      BY <3>1
    <3> QED
      BY <2>1, <3>2, <3>3, <3>4 DEF Fencing, Attends, Open
  <2>3. CASE sup[g] \notin Open /\ ~NewLifetime(g)
    BY <2>1, <2>3 DEF Fencing, Attends
  <2>4. CASE sup[g] \in Open /\ sup'[g] \in Open /\ ~NewLifetime(g)
    BY <2>1, <2>4 DEF Fencing, Attends
  <2>5. CASE sup[g] \in Open /\ sup'[g] \notin Open /\ ~NewLifetime(g)
    <3>1. <<sup[g], sup'[g]>> \in Moves
      BY <1>3, MovesKeepTypes
    <3>2. Retry(g) \/ Flushed(g) \/ TimedOut(g)
      <4>1. sup[g] \in {"detached", "draining", "flushing"}
        BY <2>5, <3>1 DEF Open, Moves
      <4>2. sup'[g] \in {"settle", "finished", "abandoned"}
        BY <2>5, <3>1 DEF Open, Moves
      <4> QED
        BY <1>3, <4>1, <4>2 DEF SubscriptionEnds, SupervisorStep, NewLifetime, LeaveLoop,
           Detach, Unbundle, FinalDrain, Settled, Replaced, Drained, DeferredDrain, Done,
           GoTo, CallTypes
    <3>3. client[g] \in fenced'
      BY <3>2 DEF Retry, Flushed, TimedOut, CloseClient
    <3> QED
      BY <2>1, <2>5, <3>3 DEF Fencing, Attends
  <2> QED
    BY <2>2, <2>3, <2>4, <2>5
<1>4. ASSUME NEW g \in Gens, SubscriberStep(g) PROVE Fencing'
  BY <1>4, SubscribersKeep DEF Fencing, Attends, callVars, supVars
<1>5. ASSUME NEW k \in Clients, ConfigStep(k) PROVE Fencing'
  BY <1>5, WorkersKeep DEF Fencing, Attends, callVars, supVars, linkVars
<1>6. ASSUME NEW q \in Requests, DispatchStep(q) PROVE Fencing'
  BY <1>6, DispatchesKeep DEF Fencing, Attends, callVars, supVars
<1>7. CASE UNCHANGED vars \/ RunEnds \/ \E k \in Clients : SendReleases(k)
  BY <1>7 DEF SendReleases, RunEnds, Fencing, Attends, callVars, supVars, linkVars, vars
<1> QED
  BY <1>1, <1>2, <1>3, <1>4, <1>5, <1>6, <1>7, Steps

-----------------------------------------------------------------------------
(* The other shapes *)

\* The states of a request.
RequestStates == {"idle", "loaded", "late", "installed", "scope"} \union Unresolved

\* Clients, registries and requests are known by their names.
LinkTypes ==
    /\ up \subseteq 1..clients /\ ended \subseteq 1..clients
    /\ fenced \subseteq 1..clients /\ ambiguous \subseteq 1..clients
RegTypes ==
    shut \subseteq 1..registries /\ silent \subseteq 1..registries
      /\ owed \subseteq 1..registries
ReqTypes ==
    /\ leaked \subseteq 1..clients
    /\ req \in [Requests -> [at : RequestStates, k : 0..clients]]

\* They are part of the type invariant.
LEMMA OtherTypesHold ==
    ASSUME TypeOK
    PROVE  LinkTypes /\ RegTypes /\ ReqTypes
  BY DEF TypeOK, LinkTypes, RegTypes, ReqTypes, RequestStates

\* The parts make up the type invariant.
LEMMA TypesTogether ==
    ASSUME CallTypes', LifeTypes', WorkTypes', LinkTypes', RegTypes', ReqTypes'
    PROVE  TypeOK'
<1>1. {up', ended', fenced', ambiguous', published', observing', flushing', leaked'}
        \subseteq SUBSET (1..clients')
  BY DEF WorkTypes, LinkTypes, ReqTypes
<1>2. {homeClient', bundle', committed'} \subseteq 0..clients'
  BY DEF WorkTypes
<1>3. {shut', silent', owed'} \subseteq SUBSET (1..registries')
  BY DEF RegTypes
<1> QED
  BY <1>1, <1>2, <1>3 DEF TypeOK, CallTypes, LifeTypes, WorkTypes, ReqTypes,
     RequestStates, PCs

\* Lifetimes and registries only become more.
LEMMA MadeGrow ==
    ASSUME TypeOK, [Next]_vars
    PROVE  /\ 1..clients \subseteq 1..clients' /\ 0..clients \subseteq 0..clients'
           /\ 1..registries \subseteq 1..registries'
<1> USE LifeTypesHold
<1>1. (clients' = clients \/ clients' = clients + 1)
        /\ (registries' = registries \/ registries' = registries + 1)
  <2>1. CASE CallStep
    BY <2>1, CallsKeep DEF supVars
  <2>2. CASE FinishStart
    BY <2>2 DEF FinishStart
  <2>3. ASSUME NEW g \in Gens, SubscriptionEnds(g) \/ SupervisorStep(g),
               ~NewLifetime(g), ~Replaced(g)
        PROVE  UNCHANGED <<clients, registries>>
    BY <2>3, SupervisorsKeep
  <2>4. ASSUME NEW g \in Gens, NewLifetime(g) \/ Replaced(g)
        PROVE  (clients' = clients \/ clients' = clients + 1)
                 /\ (registries' = registries \/ registries' = registries + 1)
    BY <2>4 DEF NewLifetime, Replaced
  <2>5. ASSUME NEW g \in Gens, SubscriberStep(g) PROVE UNCHANGED <<clients, registries>>
    BY <2>5, SubscribersKeep DEF supVars
  <2>6. ASSUME NEW k \in Clients, ConfigStep(k) PROVE UNCHANGED <<clients, registries>>
    BY <2>6, WorkersKeep DEF supVars
  <2>7. ASSUME NEW q \in Requests, DispatchStep(q)
        PROVE  UNCHANGED <<clients, registries>>
    BY <2>7, DispatchesKeep DEF supVars
  <2>8. CASE UNCHANGED vars \/ RunEnds \/ \E k \in Clients : SendReleases(k)
    BY <2>8 DEF SendReleases, RunEnds, supVars, vars
  <2> QED
    BY <2>1, <2>2, <2>3, <2>4, <2>5, <2>6, <2>7, <2>8, Steps
<1> QED
  BY <1>1

\* A supervisor that moves is of a registry, and of a lifetime while it has one.
LEMMA NamesOfMoving ==
    ASSUME TypeOK, Generations, Lifetimes,
           NEW g \in Gens, SubscriptionEnds(g) \/ SupervisorStep(g)
    PROVE  /\ registry[g] \in 1..registries
           /\ sup[g] \in Busy => client[g] \in 1..clients
<1> USE CallTypesHold, LifeTypesHold
<1>1. g = supervisor /\ g \in Nat
  BY MovesAreOfTheLatest DEF Gens
<1> QED
  BY <1>1 DEF Lifetimes, LifeTypes

\* A worker runs for a lifetime that was made.
LEMMA WorkersAreOfMade ==
    ASSUME TypeOK, Attended, NEW k \in Clients, worker[k] # "off"
    PROVE  k \in 1..clients
<1> USE LifeTypesHold
<1>1. client[supervisor] = k /\ supervisor \in Gens
  BY DEF Attended, Attends
<1>2. k \in 0..clients /\ k \in Nat \ {0}
  BY <1>1 DEF LifeTypes, Clients
<1> QED
  BY <1>2

\* The goroutines of a lifetime keep their shapes.
LEMMA WorkTypesStep ==
    ASSUME TypeOK, Generations, Lifetimes, Attended, [Next]_vars
    PROVE  WorkTypes'
<1> USE CallTypesHold, LifeTypesHold, WorkTypesHold
<1>0. 1..clients \subseteq 1..clients' /\ 0..clients \subseteq 0..clients'
  BY MadeGrow
<1>1. CASE CallStep
  <2>1. UNCHANGED <<clients, workVars, flushing, committed>>
    BY <1>1, CallsKeep DEF supVars
  <2>2. homeClient' \in 0..clients /\ bundle' \in 0..clients
    BY <1>1, CallsKeep DEF TakeHome, WorkTypes
  <2> QED
    BY <2>1, <2>2 DEF WorkTypes, workVars
<1>2. CASE FinishStart
  BY <1>2, StartsKeep DEF WorkTypes, workVars, homeVars
<1>3. ASSUME NEW g \in Gens, SubscriptionEnds(g) \/ SupervisorStep(g) PROVE WorkTypes'
  <2>1. UNCHANGED <<queue, published, observing, committed>>
    BY <1>3, SupervisorsKeep
  <2>2. worker' \in [Clients -> {"off", "ready?", "idle", "staged", "committing",
                                 "committed", "applied", "publishing", "observer"}]
    <3>1. CASE NewLifetime(g)
      BY <3>1 DEF NewLifetime, WorkTypes
    <3>2. CASE ~NewLifetime(g)
      BY <1>3, <3>2, SupervisorsKeep DEF WorkTypes
    <3> QED
      BY <3>1, <3>2
  <2>3. homeClient' \in 0..clients /\ bundle' \in 0..clients
    BY <1>3 DEF SubscriptionEnds, SupervisorStep, NewLifetime, LeaveLoop, Detach, Unbundle,
       Retry, FinalDrain, Settled, Replaced, Drained, Flushed, TimedOut, DeferredDrain,
       Done, WorkTypes, homeVars
  <2>4. flushing' \subseteq 1..clients'
    <3>1. CASE NewLifetime(g)
      BY <3>1 DEF NewLifetime, WorkTypes
    <3>2. CASE ~NewLifetime(g)
      <4>1. flushing' \subseteq flushing
        BY <1>3, <3>2 DEF SubscriptionEnds, SupervisorStep, LeaveLoop, Detach, Unbundle,
           Retry, FinalDrain, Settled, Replaced, Drained, Flushed, TimedOut,
           DeferredDrain, Done, CloseClient
      <4> QED
        BY <1>0, <4>1 DEF WorkTypes
    <3> QED
      BY <3>1, <3>2
  <2> QED
    BY <1>0, <2>1, <2>2, <2>3, <2>4 DEF WorkTypes
<1>4. ASSUME NEW g \in Gens, SubscriberStep(g) PROVE WorkTypes'
  <2>1. UNCHANGED <<clients, worker, published, observing, flushing, homeVars>>
    BY <1>4, SubscribersKeep DEF supVars
  <2>2. queue' \in [Clients -> 0..MaxConfigs]
    BY <1>4 DEF SubscriberStep, Acknowledged, ConfigArrives, WorkTypes
  <2> QED
    BY <2>1, <2>2 DEF WorkTypes, homeVars
<1>5. ASSUME NEW k \in Clients, ConfigStep(k) PROVE WorkTypes'
  <2>1. UNCHANGED <<clients, flushing>>
    BY <1>5, WorkersKeep DEF supVars
  <2>2. /\ worker' \in [Clients -> {"off", "ready?", "idle", "staged", "committing",
                                    "committed", "applied", "publishing", "observer"}]
        /\ queue' \in [Clients -> 0..MaxConfigs]
    <3>1. CASE Stage(k)
      BY <3>1 DEF Stage, Work, WorkTypes
    <3>2. CASE ~Stage(k)
      <4>1. queue' = queue
        BY <1>5, <3>2 DEF ConfigStep, WorkerStep, WorkerReady, CommitCheck, Commit,
           ApplyRuntime, PublishCheck, Publish, Observe, WorkerReturns, ObserverEnds
      <4>2. worker' \in [Clients -> {"off", "ready?", "idle", "staged", "committing",
                                     "committed", "applied", "publishing", "observer"}]
        BY <1>5, <3>2 DEF ConfigStep, WorkerStep, WorkerReady, CommitCheck, Commit,
           ApplyRuntime, PublishCheck, Publish, Observe, WorkerReturns, ObserverEnds,
           Work, WorkTypes
      <4> QED
        BY <4>1, <4>2 DEF WorkTypes
    <3> QED
      BY <3>1, <3>2
  <2>3. CASE Commit(k) \/ Publish(k) \/ Observe(k)
    <3>1. k \in 1..clients
      BY <2>3, WorkersAreOfMade DEF Commit, Publish, Observe, Work
    <3>2. /\ homeClient' \in {homeClient, k} /\ bundle' \in {bundle, k}
          /\ committed' \in {committed, k} /\ published' \subseteq published \union {k}
          /\ observing' \subseteq observing \union {k}
      BY <2>3 DEF Commit, Publish, Observe, homeVars
    <3> QED
      BY <2>1, <2>2, <3>1, <3>2 DEF WorkTypes
  <2>4. CASE ~(Commit(k) \/ Publish(k) \/ Observe(k))
    <3>1. UNCHANGED <<homeClient, bundle, published, committed>>
      BY <1>5, <2>4, WorkersKeep
    <3>2. observing' \subseteq observing
      BY <1>5, <2>4 DEF ConfigStep, WorkerStep, WorkerReady, Stage, CommitCheck,
         ApplyRuntime, PublishCheck, WorkerReturns, ObserverEnds
    <3> QED
      BY <2>1, <2>2, <3>1, <3>2 DEF WorkTypes
  <2> QED
    BY <2>3, <2>4
<1>6. ASSUME NEW q \in Requests, DispatchStep(q) PROVE WorkTypes'
  BY <1>6, DispatchesKeep DEF WorkTypes, supVars, workVars, homeVars
<1>7. CASE UNCHANGED vars \/ RunEnds \/ \E k \in Clients : SendReleases(k)
  BY <1>7 DEF SendReleases, RunEnds, WorkTypes, supVars, workVars, homeVars, vars
<1> QED
  BY <1>1, <1>2, <1>3, <1>4, <1>5, <1>6, <1>7, Steps

\* Connections and registries keep their shapes.
LEMMA LinkTypesStep ==
    ASSUME TypeOK, Generations, Lifetimes, Questions, [Next]_vars
    PROVE  LinkTypes' /\ RegTypes'
<1> USE OtherTypesHold, LifeTypesHold
<1>0. 1..clients \subseteq 1..clients' /\ 1..registries \subseteq 1..registries'
  BY MadeGrow
<1>1. CASE CallStep
  BY <1>1, CallsKeep DEF LinkTypes, RegTypes, supVars, linkVars, regVars
<1>2. CASE FinishStart
  BY <1>0, <1>2, StartsKeep DEF LinkTypes, RegTypes, linkVars, regVars
<1>3. ASSUME NEW g \in Gens, SubscriptionEnds(g) \/ SupervisorStep(g)
      PROVE  LinkTypes' /\ RegTypes'
  <2>1. /\ registry[g] \in 1..registries
        /\ sup[g] \in Busy => client[g] \in 1..clients
    BY <1>3, NamesOfMoving
  <2>2. /\ shut' \subseteq shut \union {registry[g]}
        /\ silent' \subseteq silent \union {registry[g]} /\ owed' = owed
    BY <1>3 DEF SubscriptionEnds, SupervisorStep, NewLifetime, LeaveLoop, Detach, Unbundle,
       Retry, FinalDrain, Settled, Replaced, Drained, Flushed, TimedOut, DeferredDrain,
       Done, regVars
  <2>3. CASE SubscriptionEnds(g) \/ Retry(g) \/ Flushed(g) \/ TimedOut(g)
    <3>1. client[g] \in 1..clients
      BY <2>1, <2>3 DEF SubscriptionEnds, Retry, Flushed, TimedOut, Busy
    <3>2. /\ up' \subseteq up /\ ended' \subseteq ended \union {client[g]}
          /\ fenced' \subseteq fenced \union {client[g]} /\ ambiguous' = ambiguous
      BY <2>3 DEF SubscriptionEnds, Retry, Flushed, TimedOut, CloseClient
    <3> QED
      BY <1>0, <2>1, <2>2, <3>1, <3>2 DEF LinkTypes, RegTypes
  <2>4. CASE ~(SubscriptionEnds(g) \/ Retry(g) \/ Flushed(g) \/ TimedOut(g))
    <3>1. UNCHANGED linkVars
      BY <1>3, <2>4 DEF SupervisorStep, NewLifetime, LeaveLoop, Detach, Unbundle,
         FinalDrain, Settled, Replaced, Drained, DeferredDrain, Done
    <3> QED
      BY <1>0, <2>1, <2>2, <3>1 DEF LinkTypes, RegTypes, linkVars
  <2> QED
    BY <2>3, <2>4
<1>4. ASSUME NEW g \in Gens, SubscriberStep(g) PROVE LinkTypes' /\ RegTypes'
  <2>1. UNCHANGED <<clients, registries, ended, fenced, ambiguous, shut, silent, owed>>
    BY <1>4, SubscribersKeep DEF supVars, regVars
  <2>2. up' \subseteq 1..clients
    <3>1. CASE ConfigArrives(g)
      BY <3>1 DEF ConfigArrives, LinkTypes, linkVars
    <3>2. CASE Acknowledged(g)
      <4>1. client[g] \in 1..clients
        BY <3>2 DEF Acknowledged, Lifetimes, Busy
      <4> QED
        BY <3>2, <4>1 DEF Acknowledged, LinkTypes
    <3> QED
      BY <1>4, <3>1, <3>2 DEF SubscriberStep
  <2> QED
    BY <2>1, <2>2 DEF LinkTypes, RegTypes
<1>5. ASSUME NEW k \in Clients, ConfigStep(k) PROVE LinkTypes' /\ RegTypes'
  BY <1>5, WorkersKeep DEF LinkTypes, RegTypes, supVars, linkVars, regVars
<1>6. ASSUME NEW q \in Requests, DispatchStep(q) PROVE LinkTypes' /\ RegTypes'
  <2>1. UNCHANGED <<clients, registries, ended, shut, silent>>
    BY <1>6, DispatchesKeep DEF supVars
  <2>2. owed' \subseteq 1..registries
    <3>1. CASE EndScope(q)
      <4>1. req[q].k \in 1..clients
        BY <3>1 DEF EndScope, Ask, Questions
      <4>2. regOf[req[q].k] \in 1..registries
        BY <4>1, ClientsInRange, CallTypesHold DEF LifeTypes
      <4>3. owed' \subseteq owed \union {regOf[req[q].k]}
        BY <3>1 DEF EndScope
      <4> QED
        BY <4>2, <4>3 DEF RegTypes
    <3>2. CASE ~EndScope(q)
      BY <1>6, <3>2, DispatchesKeep DEF RegTypes
    <3> QED
      BY <3>1, <3>2
  <2>3. up' \subseteq 1..clients /\ fenced' \subseteq 1..clients
          /\ ambiguous' \subseteq 1..clients
    <3>1. CASE AnswerMalformed(q) \/ AbortDispatch(q)
      <4>1. req[q].k \in 1..clients
        BY <3>1 DEF AnswerMalformed, AbortDispatch, Ask, Questions
      <4>2. Fence(req[q].k)
        BY <3>1 DEF AnswerMalformed, AbortDispatch
      <4> QED
        BY <4>1, <4>2 DEF Fence, LinkTypes
    <3>2. CASE ~(AnswerMalformed(q) \/ AbortDispatch(q))
      <4>1. UNCHANGED linkVars
        BY <1>6, <3>2 DEF DispatchStep, LoadBundle, RequestStep, BeginDispatch,
           SendDispatch, DispatchRefused, DispatchGranted, AnswerValid, DispatchLate,
           DispatchLost, EndDispatch, EndScope
      <4> QED
        BY <4>1 DEF LinkTypes, linkVars
    <3> QED
      BY <3>1, <3>2
  <2> QED
    BY <2>1, <2>2, <2>3 DEF LinkTypes, RegTypes
<1>7. CASE UNCHANGED vars \/ RunEnds \/ \E k \in Clients : SendReleases(k)
  BY <1>7 DEF SendReleases, RunEnds, LinkTypes, RegTypes, supVars, linkVars, regVars, vars
<1> QED
  BY <1>1, <1>2, <1>3, <1>4, <1>5, <1>6, <1>7, Steps

\* Requests keep their shapes.
LEMMA ReqTypesStep ==
    ASSUME TypeOK, Questions, [Next]_vars
    PROVE  ReqTypes'
<1> USE OtherTypesHold, WorkTypesHold, LifeTypesHold
<1>0. 1..clients \subseteq 1..clients' /\ 0..clients \subseteq 0..clients'
  BY MadeGrow
<1>1. ASSUME UNCHANGED reqVars PROVE ReqTypes'
  <2>1. \A q \in Requests : req[q] \in [at : RequestStates, k : 0..clients']
    BY <1>0 DEF ReqTypes
  <2> QED
    BY <1>0, <1>1, <2>1 DEF ReqTypes, reqVars
<1>2. ASSUME NEW q \in Requests, DispatchStep(q) PROVE ReqTypes'
  <2>1. clients' = clients
    BY <1>2, DispatchesKeep DEF supVars
  <2>2. CASE LoadBundle(q)
    BY <2>1, <2>2 DEF LoadBundle, ReqTypes, RequestStates, WorkTypes
  <2>3. CASE RequestStep(q)
    <3>1. \E to \in RequestStates : req' = [req EXCEPT ![q].at = to]
      BY <2>3 DEF RequestStep, BeginDispatch, SendDispatch, DispatchRefused,
         DispatchGranted, AnswerValid, AnswerMalformed, DispatchLate, DispatchLost,
         AbortDispatch, EndDispatch, EndScope, Ask, RequestStates, Unresolved
    <3>2. leaked' \subseteq 1..clients
      <4>1. CASE DispatchLate(q) \/ DispatchLost(q)
        BY <4>1 DEF DispatchLate, DispatchLost, Ask, Questions, ReqTypes
      <4>2. CASE ~(DispatchLate(q) \/ DispatchLost(q))
        BY <1>2, <4>2, DispatchesKeep DEF ReqTypes
      <4> QED
        BY <4>1, <4>2
    <3> QED
      BY <2>1, <3>1, <3>2 DEF ReqTypes
  <2> QED
    BY <1>2, <2>2, <2>3 DEF DispatchStep
<1>3. ASSUME NEW g \in Gens, SubscriptionEnds(g) \/ SupervisorStep(g)
      PROVE  UNCHANGED reqVars
  BY <1>3, SupervisorsKeep
<1>4. ASSUME NEW g \in Gens, SubscriberStep(g) PROVE UNCHANGED reqVars
  BY <1>4, SubscribersKeep
<1>5. ASSUME NEW k \in Clients, ConfigStep(k) PROVE UNCHANGED reqVars
  BY <1>5, WorkersKeep
<1>6. CASE UNCHANGED vars \/ RunEnds \/ CallStep \/ FinishStart
             \/ \E k \in Clients : SendReleases(k)
  <2>1. UNCHANGED reqVars
    BY <1>6, CallsKeep, StartsKeep DEF SendReleases, RunEnds, vars
  <2> QED
    BY <1>1, <2>1
<1> QED
  BY <1>1, <1>2, <1>3, <1>4, <1>5, <1>6, Steps

-----------------------------------------------------------------------------
(* Registries that are shut, and questions Home has not answered *)

\* The states of a request that keep its registry from being empty.
Held == Unresolved \union {"installed", "scope"}

\* The registries no request is held in.
LEMMA EmptyMeans ==
    /\ \A r : Empty(r) <=> \A q \in Requests : req[q].at \in Held => regOf[req[q].k] # r
    /\ \A r : Empty(r)' <=>
         \A q \in Requests : (req[q].at)' \in Held => (regOf[req[q].k])' # r
  BY DEF Empty, Holds, Held

\* A registry that is shut stays shut; once it is empty it stays empty.
LEMMA ShutStaysEmpty ==
    ASSUME TypeOK, Questions, [Next]_vars
    PROVE  /\ shut \subseteq shut'
           /\ \A r \in shut : Empty(r) => Empty(r)'
<1> USE OtherTypesHold
<1>1. ASSUME UNCHANGED <<req, regOf>>
      PROVE  \A r : Empty(r) => Empty(r)'
  BY <1>1, EmptyMeans
<1>2. CASE UNCHANGED vars \/ RunEnds \/ CallStep \/ FinishStart
             \/ \E k \in Clients : SendReleases(k) \/ ConfigStep(k)
  <2>1. UNCHANGED <<req, regOf, shut>>
    BY <1>2, CallsKeep, StartsKeep, WorkersKeep
       DEF SendReleases, RunEnds, supVars, regVars, reqVars, vars
  <2> QED
    BY <1>1, <2>1
<1>3. ASSUME NEW g \in Gens, SubscriberStep(g)
      PROVE  shut \subseteq shut' /\ \A r \in shut : Empty(r) => Empty(r)'
  <2>1. UNCHANGED <<req, regOf, shut>>
    BY <1>3, SubscribersKeep DEF supVars, regVars, reqVars
  <2> QED
    BY <1>1, <2>1
<1>4. ASSUME NEW g \in Gens, SubscriptionEnds(g) \/ SupervisorStep(g)
      PROVE  shut \subseteq shut' /\ \A r \in shut : Empty(r) => Empty(r)'
  <2>1. shut \subseteq shut'
    BY <1>4 DEF SubscriptionEnds, SupervisorStep, NewLifetime, LeaveLoop, Detach, Unbundle,
       Retry, FinalDrain, Settled, Replaced, Drained, Flushed, TimedOut, DeferredDrain,
       Done, regVars
  <2>2. req' = req
    BY <1>4, SupervisorsKeep DEF reqVars
  <2>3. \A q \in Requests : req[q].at \in Held => regOf'[req[q].k] = regOf[req[q].k]
    <3>1. CASE NewLifetime(g)
      <4>1. /\ regOf' = [regOf EXCEPT ![clients + 1] = registry[g]]
            /\ clients < MaxClients
        BY <3>1 DEF NewLifetime
      <4>2. \A q \in Requests : req[q].at \in Held => req[q].k \in 1..clients
        BY DEF Questions, Held, Unresolved
      <4> QED
        BY <4>1, <4>2, ClientsInRange, LifeTypesHold, CallTypesHold DEF LifeTypes
    <3>2. CASE ~NewLifetime(g)
      BY <1>4, <3>2, SupervisorsKeep
    <3> QED
      BY <3>1, <3>2
  <2> QED
    BY <2>1, <2>2, <2>3, EmptyMeans
<1>5. ASSUME NEW q \in Requests, DispatchStep(q)
      PROVE  shut \subseteq shut' /\ \A r \in shut : Empty(r) => Empty(r)'
  <2>1. UNCHANGED <<shut, regOf>>
    BY <1>5, DispatchesKeep DEF supVars
  <2>2. \A p \in Requests \ {q} : req'[p] = req[p]
    BY <1>5 DEF DispatchStep, LoadBundle, RequestStep, BeginDispatch, SendDispatch,
       DispatchRefused, DispatchGranted, AnswerValid, AnswerMalformed, DispatchLate,
       DispatchLost, AbortDispatch, EndDispatch, EndScope, Ask, ReqTypes
  <2>3. req'[q].at \in Held => /\ req'[q].k = req[q].k
                               /\ req[q].at \in Held \/ regOf[req[q].k] \notin shut
    <3>1. CASE LoadBundle(q)
      BY <3>1 DEF LoadBundle, ReqTypes, Held, Unresolved
    <3>2. CASE BeginDispatch(q) \/ SendDispatch(q) \/ DispatchRefused(q)
      BY <3>2 DEF BeginDispatch, SendDispatch, DispatchRefused, Ask, ReqTypes, Held,
                  Unresolved
    <3>3. CASE DispatchGranted(q) \/ AnswerValid(q) \/ AnswerMalformed(q)
      BY <3>3 DEF DispatchGranted, AnswerValid, AnswerMalformed, Ask, ReqTypes, Held,
                  Unresolved
    <3>4. CASE DispatchLate(q) \/ DispatchLost(q)
      BY <3>4 DEF DispatchLate, DispatchLost, Ask, ReqTypes, Held, Unresolved
    <3>5. CASE AbortDispatch(q) \/ EndDispatch(q) \/ EndScope(q)
      BY <3>5 DEF AbortDispatch, EndDispatch, EndScope, Ask, ReqTypes, Held, Unresolved
    <3> QED
      BY <1>5, <3>1, <3>2, <3>3, <3>4, <3>5 DEF DispatchStep, RequestStep
  <2> QED
    BY <2>1, <2>2, <2>3, EmptyMeans
<1> QED
  BY <1>2, <1>3, <1>4, <1>5, Steps

\* The registry of a supervisor stays empty when it is shut.
LEMMA OwnStaysEmpty ==
    ASSUME TypeOK, Questions, [Next]_vars, NEW g \in Gens, registry'[g] = registry[g],
           registry[g] \in shut, Empty(registry[g])
    PROVE  Empty(registry[g])'
<1>1. \A q \in Requests : (req[q].at)' \in Held => (regOf[req[q].k])' # registry[g]
  BY ShutStaysEmpty, EmptyMeans
<1> QED
  BY <1>1 DEF Empty, Holds, Held

\* So does the registry of a lifetime.
LEMMA OldStaysEmpty ==
    ASSUME TypeOK, Questions, [Next]_vars, NEW k \in 1..clients, regOf'[k] = regOf[k],
           regOf[k] \in shut, Empty(regOf[k])
    PROVE  regOf'[k] \in shut' /\ Empty(regOf[k])'
<1>1. \A q \in Requests : (req[q].at)' \in Held => (regOf[req[q].k])' # regOf[k]
  BY ShutStaysEmpty, EmptyMeans
<1>2. regOf'[k] \in shut'
  BY ShutStaysEmpty
<1> QED
  BY <1>1, <1>2 DEF Empty, Holds, Held

\* A registry follows a supervisor that does not move.
LEMMA FollowsStill ==
    ASSUME TypeOK, Questions, [Next]_vars, NEW g \in Gens, FollowsSupervisor(g),
           sup'[g] = sup[g], registry'[g] = registry[g],
           sup[g] \in Fresh => shut' = shut,
           sup[g] = "finished" => registry[g] \notin owed',
           runEnded => runEnded'
    PROVE  FollowsSupervisor(g)'
<1>1. sup'[g] \in {"flushing", "finished"} => Empty(registry[g])'
  BY OwnStaysEmpty DEF FollowsSupervisor
<1>2. sup'[g] = "done" => runEnded' \/ Empty(registry[g])'
  BY OwnStaysEmpty DEF FollowsSupervisor
<1> QED
  BY <1>1, <1>2, ShutStaysEmpty DEF FollowsSupervisor

\* Lifetimes keep their registries when nobody makes lifetimes or registries.
LEMMA OldStill ==
    ASSUME TypeOK, Questions, Drains, [Next]_vars,
           UNCHANGED <<registry, clients, genOf, regOf>>
    PROVE  \A k \in 1..clients' : \/ regOf'[k] = registry'[genOf'[k]]
                                  \/ regOf'[k] \in shut' /\ Empty(regOf[k])'
<1> SUFFICES ASSUME NEW k \in 1..clients
             PROVE  \/ regOf'[k] = registry'[genOf'[k]]
                    \/ regOf'[k] \in shut' /\ Empty(regOf[k])'
  OBVIOUS
<1>1. CASE regOf[k] = registry[genOf[k]]
  BY <1>1
<1>2. CASE regOf[k] \in shut /\ Empty(regOf[k])
  BY <1>2, OldStaysEmpty
<1> QED
  BY <1>1, <1>2 DEF Drains

\* Steps of others leave every registry with its supervisor.
LEMMA DrainsStill ==
    ASSUME TypeOK, Questions, Drains, [Next]_vars,
           UNCHANGED <<sup, registry, clients, genOf, regOf, shut>>,
           \A g \in Gens : sup[g] = "finished" => registry[g] \notin owed',
           runEnded => runEnded'
    PROVE  Drains'
<1>1. \A g \in Gens : FollowsSupervisor(g)'
  <2> TAKE g \in Gens
  <2> QED
    BY FollowsStill DEF Drains
<1> QED
  BY <1>1, OldStill DEF Drains

\* A supervisor that moves treats its registry as its new position says.
LEMMA FollowsMoved ==
    ASSUME TypeOK, Generations, Questions, [Next]_vars,
           NEW g \in Gens, FollowsSupervisor(g), SubscriptionEnds(g) \/ SupervisorStep(g)
    PROVE  FollowsSupervisor(g)'
<1> USE CallTypesHold, OtherTypesHold
<1>0. sup \in [Gens -> PCs]
  BY DEF CallTypes
<1>1. CASE SubscriptionEnds(g) \/ NewLifetime(g) \/ Detach(g) \/ Unbundle(g) \/ Retry(g)
  <2>1. sup[g] \in Fresh /\ sup'[g] \in Fresh
    BY <1>0, <1>1 DEF SubscriptionEnds, NewLifetime, Detach, Unbundle, Retry, GoTo, Fresh
  <2>2. UNCHANGED <<shut, registry>>
    BY <1>1 DEF SubscriptionEnds, NewLifetime, Detach, Unbundle, Retry, regVars
  <2> QED
    BY <2>1, <2>2 DEF FollowsSupervisor, Fresh
<1>2. CASE LeaveLoop(g) \/ TimedOut(g)
  <2>1. sup'[g] = "abandoned"
    BY <1>0, <1>2 DEF LeaveLoop, TimedOut, GoTo
  <2> QED
    BY <2>1 DEF FollowsSupervisor, Fresh
<1>3. CASE FinalDrain(g) \/ DeferredDrain(g)
  <2>1. sup'[g] \in {"draining", "leaving"} /\ registry'[g] \in shut'
    BY <1>0, <1>3 DEF FinalDrain, DeferredDrain, GoTo
  <2> QED
    BY <2>1 DEF FollowsSupervisor, Fresh
<1>4. CASE Settled(g)
  <2>1. /\ sup[g] = "settle" /\ registry' = registry
        /\ \/ sup'[g] = "replacing" /\ registry[g] \in shut'
           \/ sup'[g] = "loop" /\ shut' = shut
    BY <1>0, <1>4 DEF Settled, GoTo
  <2> QED
    BY <2>1 DEF FollowsSupervisor, Fresh
<1>5. CASE Replaced(g)
  <2>1. sup'[g] = "loop" /\ shut' = shut /\ registries' = registries + 1
    BY <1>0, <1>5 DEF Replaced, GoTo, regVars
  <2>2. registry'[g] = registries + 1
    BY <1>5, LifeTypesHold DEF Replaced, LifeTypes
  <2>3. registry'[g] \notin shut'
    BY <2>1, <2>2, LifeTypesHold DEF RegTypes
  <2> QED
    BY <2>1, <2>3 DEF FollowsSupervisor, Fresh
<1>6. CASE Drained(g) \/ Flushed(g)
  <2>1. /\ sup[g] \in {"draining", "flushing"} /\ registry[g] \in shut
        /\ Empty(registry[g])
    BY <1>6 DEF Drained, Flushed, FollowsSupervisor
  <2>2. UNCHANGED <<registry, shut, owed>>
    BY <1>6 DEF Drained, Flushed, regVars
  <2>3. Empty(registry[g])'
    BY <2>1, <2>2, OwnStaysEmpty
  <2>4. sup'[g] \in {"flushing", "finished"}
    BY <1>0, <1>6 DEF Drained, Flushed, GoTo
  <2>5. sup'[g] = "finished" => registry[g] \notin owed
    BY <1>0, <1>6 DEF Drained, Flushed, GoTo
  <2> QED
    BY <2>1, <2>2, <2>3, <2>4, <2>5 DEF FollowsSupervisor, Fresh
<1>7. CASE Done(g)
  <2>1. sup'[g] = "done" /\ registry[g] \in shut /\ UNCHANGED <<registry, shut>>
    BY <1>0, <1>7 DEF Done, GoTo, regVars, FollowsSupervisor
  <2>2. runEnded' \/ Empty(registry[g])
    BY <1>7, Zenon DEF Done
  <2>3. runEnded' \/ Empty(registry[g])'
    BY <2>1, <2>2, OwnStaysEmpty
  <2> QED
    BY <2>1, <2>3 DEF FollowsSupervisor, Fresh
<1> QED
  BY <1>1, <1>2, <1>3, <1>4, <1>5, <1>6, <1>7 DEF SupervisorStep

\* Every supervisor leaves its registries as Drains says.
LEMMA DrainsBySupervisors ==
    ASSUME TypeOK, Generations, Lifetimes, Drains, Questions,
           NEW g \in Gens, SubscriptionEnds(g) \/ SupervisorStep(g), [Next]_vars
    PROVE  Drains'
<1> USE CallTypesHold, LifeTypesHold
<1>1. /\ g = supervisor /\ (runEnded => runEnded')
      /\ UNCHANGED <<client, clients, genOf, regOf>> \/ NewLifetime(g)
      /\ UNCHANGED <<registry, registries>> \/ Replaced(g)
  BY MovesAreOfTheLatest, SupervisorsKeep
<1>2. ASSUME NEW h \in Gens PROVE FollowsSupervisor(h)'
  <2>1. CASE h = g
    BY <2>1, FollowsMoved DEF Drains
  <2>2. CASE h # g
    <3>1. sup[h] \in {"none", "done"} /\ sup'[h] = sup[h]
      <4>1. h \in Nat /\ supervisor \in Nat /\ (h < supervisor \/ h > supervisor)
        BY <1>1, <2>2 DEF CallTypes, Gens
      <4>2. sup[h] \in {"none", "done"}
        BY <4>1 DEF Generations
      <4> QED
        BY <2>2, <4>2, MovesKeepTypes
    <3>2. registry'[h] = registry[h]
      BY <1>1, <2>2 DEF Replaced, LifeTypes
    <3> QED
      BY <1>1, <3>1, <3>2, FollowsStill DEF Drains, Fresh
  <2> QED
    BY <2>1, <2>2
<1>3. \A k \in 1..clients' : \/ regOf'[k] = registry'[genOf'[k]]
                             \/ regOf'[k] \in shut' /\ Empty(regOf[k])'
  <2>1. CASE NewLifetime(g)
    <3>1. /\ clients' = clients + 1 /\ clients < MaxClients /\ registry' = registry
          /\ genOf' = [genOf EXCEPT ![clients + 1] = g]
          /\ regOf' = [regOf EXCEPT ![clients + 1] = registry[g]]
      BY <2>1 DEF NewLifetime
    <3>2. clients + 1 \in Clients
      BY <3>1 DEF Clients
    <3>3. ASSUME NEW k \in 1..clients'
          PROVE  \/ regOf'[k] = registry'[genOf'[k]]
                 \/ regOf'[k] \in shut' /\ Empty(regOf[k])'
      <4>1. CASE k = clients + 1
        <5>1. regOf'[k] = registry[g] /\ genOf'[k] = g
          BY <3>1, <3>2, <4>1 DEF LifeTypes
        <5> QED
          BY <3>1, <5>1
      <4>2. CASE k # clients + 1
        <5>1. k \in 1..clients /\ regOf'[k] = regOf[k] /\ genOf'[k] = genOf[k]
          BY <3>1, <4>2, ClientsInRange DEF LifeTypes
        <5>2. CASE regOf[k] = registry[genOf[k]]
          BY <3>1, <5>1, <5>2
        <5>3. CASE regOf[k] \in shut /\ Empty(regOf[k])
          BY <5>1, <5>3, OldStaysEmpty
        <5> QED
          BY <5>1, <5>2, <5>3 DEF Drains
      <4> QED
        BY <4>1, <4>2
    <3> QED
      BY <3>3
  <2>2. CASE Replaced(g)
    <3>1. /\ UNCHANGED <<clients, genOf, regOf, shut>> /\ sup[g] = "replacing"
          /\ Empty(registry[g])
          /\ registry' = [registry EXCEPT ![g] = registries + 1]
      BY <2>2 DEF Replaced, regVars
    <3>2. registry[g] \in shut
      BY <3>1 DEF Drains, FollowsSupervisor
    <3>3. ASSUME NEW k \in 1..clients
          PROVE  \/ regOf'[k] = registry'[genOf'[k]]
                 \/ regOf'[k] \in shut' /\ Empty(regOf[k])'
      <4>1. genOf[k] \in Gens /\ regOf'[k] = regOf[k] /\ genOf'[k] = genOf[k]
        <5>1. k \in Clients /\ genOf[k] # 0
          BY ClientsInRange DEF LifeTypes
        <5>2. genOf[k] \in 0..MaxGen
          BY <5>1 DEF LifeTypes
        <5> QED
          BY <3>1, <5>1, <5>2 DEF Gens
      <4>2. CASE regOf[k] = registry[genOf[k]] /\ genOf[k] # g
        BY <3>1, <4>1, <4>2 DEF LifeTypes
      <4>3. CASE regOf[k] = registry[genOf[k]] /\ genOf[k] = g
        <5>1. regOf[k] \in shut /\ Empty(regOf[k])
          BY <3>1, <3>2, <4>3
        <5> QED
          BY <4>1, <5>1, OldStaysEmpty
      <4>4. CASE regOf[k] \in shut /\ Empty(regOf[k])
        BY <4>1, <4>4, OldStaysEmpty
      <4> QED
        BY <4>2, <4>3, <4>4 DEF Drains
    <3> QED
      BY <3>1, <3>3
  <2>3. CASE ~NewLifetime(g) /\ ~Replaced(g)
    BY <1>1, <2>3, OldStill
  <2> QED
    BY <2>1, <2>2, <2>3
<1> QED
  BY <1>2, <1>3 DEF Drains

\* Every registry is drained before it is left behind.
LEMMA DrainsStep ==
    ASSUME TypeOK, Generations, Lifetimes, Drains, Questions, [Next]_vars
    PROVE  Drains'
<1> USE CallTypesHold, LifeTypesHold
<1>0. \A g \in Gens : sup[g] = "finished" => registry[g] \notin owed
  BY DEF Drains, FollowsSupervisor
<1>1. CASE CallStep
  BY <1>0, <1>1, CallsKeep, DrainsStill DEF supVars, regVars
<1>2. CASE FinishStart
  <2>1. UNCHANGED <<client, clients, genOf, regOf, shut, owed, runEnded>>
    BY <1>2, StartsKeep DEF regVars
  <2>2. CASE runEnded
    BY <1>0, <1>2, <2>1, <2>2, DrainsStill DEF FinishStart
  <2>3. CASE ~runEnded
    <3>1. /\ sup' = [sup EXCEPT ![generation + 1] = "loop"]
          /\ registry' = [registry EXCEPT ![generation + 1] = registries + 1]
          /\ call = "start"
      BY <1>2, <2>3 DEF FinishStart
    <3>2. generation = supervisor /\ generation + 1 \in Gens
      BY <3>1 DEF Generations, CallTypes, Gens
    <3>3. ASSUME NEW h \in Gens PROVE FollowsSupervisor(h)'
      <4>1. CASE h = generation + 1
        <5>1. sup'[h] = "loop" /\ registry'[h] = registries + 1
          BY <3>1, <4>1 DEF CallTypes, LifeTypes
        <5>2. registry'[h] \notin shut'
          BY <2>1, <5>1, OtherTypesHold DEF RegTypes
        <5> QED
          BY <5>1, <5>2 DEF FollowsSupervisor
      <4>2. CASE h # generation + 1
        <5>1. sup'[h] = sup[h] /\ registry'[h] = registry[h]
          BY <3>1, <4>2 DEF CallTypes, LifeTypes
        <5> QED
          BY <1>0, <2>1, <5>1, FollowsStill DEF Drains
      <4> QED
        BY <4>1, <4>2
    <3>4. ASSUME NEW k \in 1..clients
          PROVE  \/ regOf'[k] = registry'[genOf'[k]]
                 \/ regOf'[k] \in shut' /\ Empty(regOf[k])'
      <4>1. CASE regOf[k] = registry[genOf[k]]
        <5>1. genOf[k] \in Gens /\ genOf[k] # generation + 1
          BY <3>2 DEF Lifetimes, CallTypes, Gens
        <5> QED
          BY <2>1, <3>1, <4>1, <5>1 DEF LifeTypes
      <4>2. CASE regOf[k] \in shut /\ Empty(regOf[k])
        BY <2>1, <4>2, OldStaysEmpty
      <4> QED
        BY <4>1, <4>2 DEF Drains
    <3> QED
      BY <2>1, <3>3, <3>4 DEF Drains
  <2> QED
    BY <2>2, <2>3
<1>3. ASSUME NEW g \in Gens, SubscriptionEnds(g) \/ SupervisorStep(g) PROVE Drains'
  BY <1>3, DrainsBySupervisors
<1>4. ASSUME NEW g \in Gens, SubscriberStep(g) PROVE Drains'
  BY <1>0, <1>4, SubscribersKeep, DrainsStill DEF supVars, regVars
<1>5. ASSUME NEW k \in Clients, ConfigStep(k) PROVE Drains'
  BY <1>0, <1>5, WorkersKeep, DrainsStill DEF supVars, regVars
<1>6. ASSUME NEW q \in Requests, DispatchStep(q) PROVE Drains'
  <2>1. UNCHANGED <<sup, registry, clients, genOf, regOf, shut, runEnded>>
    BY <1>6, DispatchesKeep DEF supVars
  <2>2. \A g \in Gens : sup[g] = "finished" => registry[g] \notin owed'
    <3>1. CASE EndScope(q)
      <4>1. req[q].at \in Held /\ owed' \subseteq owed \union {regOf[req[q].k]}
        BY <3>1 DEF EndScope, Ask, Held
      <4>2. \A g \in Gens : sup[g] = "finished" => regOf[req[q].k] # registry[g]
        BY <4>1, EmptyMeans DEF Drains, FollowsSupervisor
      <4> QED
        BY <1>0, <4>1, <4>2
    <3>2. CASE ~EndScope(q)
      BY <1>0, <1>6, <3>2, DispatchesKeep
    <3> QED
      BY <3>1, <3>2
  <2> QED
    BY <2>1, <2>2, DrainsStill
<1>7. CASE UNCHANGED vars \/ RunEnds \/ \E k \in Clients : SendReleases(k)
  <2>1. /\ UNCHANGED <<sup, registry, clients, genOf, regOf, shut>>
        /\ owed' \subseteq owed /\ (runEnded => runEnded')
    BY <1>7 DEF SendReleases, RunEnds, supVars, regVars, vars
  <2> QED
    BY <1>0, <2>1, DrainsStill
<1> QED
  BY <1>1, <1>2, <1>3, <1>4, <1>5, <1>6, <1>7, Steps

\* A supervisor that goes on to the next lifetime leaves no question behind.
LEMMA QuestionsBySupervisors ==
    ASSUME TypeOK, Generations, Lifetimes, Drains, Questions,
           NEW g \in Gens, SubscriptionEnds(g) \/ SupervisorStep(g)
    PROVE  Questions'
<1> USE CallTypesHold, LifeTypesHold
<1>1. /\ g = supervisor /\ supervisor' = supervisor /\ req' = req
      /\ runEnded => runEnded'
      /\ UNCHANGED <<client, clients>> \/ NewLifetime(g)
  BY MovesAreOfTheLatest, SupervisorsKeep DEF callVars, reqVars
<1>2. /\ sup' \in [Gens -> PCs] /\ \A h \in Gens \ {g} : sup'[h] = sup[h]
      /\ <<sup[g], sup'[g]>> \in Moves
  BY MovesKeepTypes
<1>3. \A q \in Requests : req'[q].at # "idle" => req'[q].k \in 1..clients'
  <2>1. clients' = clients \/ clients' = clients + 1
    BY <1>1 DEF NewLifetime
  <2> QED
    BY <1>1, <2>1 DEF Questions
<1>4. ASSUME NEW q \in Requests, req[q].at \in Asked
      PROVE  \/ /\ UNCHANGED client /\ client[g] = req[q].k
                /\ sup'[g] \in Busy \ {"finished"}
             \/ runEnded' /\ sup'[g] \in {"abandoned", "leaving", "done"}
  <2>1. CASE runEnded /\ sup[g] \in {"abandoned", "leaving", "done"}
    BY <1>1, <1>2, <2>1 DEF Moves
  <2>2. CASE client[g] = req[q].k /\ sup[g] \in Busy \ {"finished"}
    <3>1. regOf[req[q].k] = registry[g]
      BY <2>2 DEF Lifetimes
    <3>2. PendingIn(registry[g]) /\ ~Empty(registry[g])
      BY <1>4, <3>1 DEF PendingIn, Empty, Holds, Asked, Unresolved
    <3>3. ~Settled(g) /\ ~Replaced(g) /\ ~Drained(g)
      BY <3>2 DEF Settled, Replaced, Drained
    <3>4. ~Flushed(g)
      BY <3>2 DEF Flushed, Drains, FollowsSupervisor
    <3>5. CASE TimedOut(g)
      BY <1>2, <3>5 DEF TimedOut, GoTo, CallTypes
    <3>6. CASE SubscriptionEnds(g) \/ Detach(g) \/ Unbundle(g) \/ Retry(g)
                 \/ FinalDrain(g)
      <4>1. sup'[g] \in {"join", "unbundle", "detached", "settle", "draining"}
        BY <3>6 DEF SubscriptionEnds, Detach, Unbundle, Retry, FinalDrain, GoTo, CallTypes
      <4>2. ~NewLifetime(g)
        BY <2>2 DEF NewLifetime, Busy
      <4> QED
        BY <1>1, <2>2, <4>1, <4>2 DEF Busy
    <3>7. ~(NewLifetime(g) \/ LeaveLoop(g) \/ DeferredDrain(g) \/ Done(g))
      BY <2>2 DEF NewLifetime, LeaveLoop, DeferredDrain, Done, Busy
    <3> QED
      BY <3>3, <3>4, <3>5, <3>6, <3>7 DEF SupervisorStep
  <2> QED
    BY <1>1, <1>4, <2>1, <2>2 DEF Questions, Attends
<1>5. \A q \in Requests : req'[q].at \in Asked =>
         \/ Attends(req[q].k, Busy \ {"finished"})'
         \/ runEnded' /\ supervisor' \in Gens
              /\ sup'[supervisor'] \in {"abandoned", "leaving", "done"}
  BY <1>1, <1>4 DEF Attends
<1> QED
  BY <1>3, <1>5 DEF Questions

\* A request asks over the lifetime it found, and only while that may send.
LEMMA QuestionsByRequests ==
    ASSUME TypeOK, Fencing, Questions, NEW q \in Requests, DispatchStep(q)
    PROVE  Questions'
<1> USE OtherTypesHold
<1>1. UNCHANGED <<supervisor, runEnded, sup, client, clients>>
  BY DispatchesKeep DEF callVars, supVars
<1>2. \A p \in Requests \ {q} : req'[p] = req[p]
  BY DEF DispatchStep, LoadBundle, RequestStep, BeginDispatch, SendDispatch,
     DispatchRefused, DispatchGranted, AnswerValid, AnswerMalformed, DispatchLate,
     DispatchLost, AbortDispatch, EndDispatch, EndScope, Ask, ReqTypes
<1>3. ASSUME req'[q].at # "idle" => req'[q].k \in 1..clients,
             req'[q].at \in Asked =>
               /\ req'[q].k = req[q].k
               /\ \/ req[q].at \in Asked
                  \/ Attends(req[q].k, Open)
      PROVE  Questions'
  <2>1. \A k : Attends(k, Open) => Attends(k, Busy \ {"finished"})
    BY DEF Attends, Open, Busy
  <2> QED
    BY <1>1, <1>2, <1>3, <2>1 DEF Questions, Attends
<1>4. CASE LoadBundle(q)
  <2>1. /\ (req'[q]).at = "loaded" /\ (req'[q]).k \in 1..clients
    BY <1>4, WorkTypesHold, LifeTypesHold DEF LoadBundle, ReqTypes, WorkTypes
  <2> QED
    BY <1>3, <2>1 DEF Asked
<1>5. CASE SendDispatch(q)
  <2>1. /\ req[q].at = "pending" /\ req'[q].k = req[q].k
        /\ req'[q].at = IF req[q].k \in fenced THEN "idle" ELSE "sent"
    BY <1>5 DEF SendDispatch, Ask, ReqTypes
  <2>2. req[q].k \in 1..clients
    BY <2>1 DEF Questions
  <2>3. req[q].k \notin fenced => Attends(req[q].k, Open)
    BY <2>2 DEF Fencing
  <2> QED
    BY <1>3, <2>1, <2>2, <2>3 DEF Asked
<1>6. CASE BeginDispatch(q) \/ DispatchRefused(q) \/ DispatchGranted(q) \/ AnswerValid(q)
             \/ AnswerMalformed(q) \/ EndDispatch(q) \/ EndScope(q)
  <2>1. req[q].at # "idle" /\ req'[q].k = req[q].k /\ req'[q].at \notin Asked
    BY <1>6 DEF BeginDispatch, DispatchRefused, DispatchGranted, AnswerValid,
       AnswerMalformed, EndDispatch, EndScope, Ask, ReqTypes, Asked
  <2> QED
    BY <1>3, <2>1 DEF Questions
<1>7. CASE DispatchLate(q) \/ DispatchLost(q) \/ AbortDispatch(q)
  <2>1. /\ req[q].at # "idle" /\ req'[q].k = req[q].k
        /\ req'[q].at \in Asked => req[q].at \in Asked
    BY <1>7 DEF DispatchLate, DispatchLost, AbortDispatch, Ask, ReqTypes, Asked
  <2> QED
    BY <1>3, <2>1 DEF Questions
<1> QED
  BY <1>4, <1>5, <1>6, <1>7 DEF DispatchStep, RequestStep

\* A question Home has not answered belongs to the lifetime attended to.
LEMMA QuestionsStep ==
    ASSUME TypeOK, Generations, Lifetimes, Fencing, Drains, Questions, [Next]_vars
    PROVE  Questions'
<1> USE CallTypesHold
<1>1. ASSUME UNCHANGED <<supervisor, sup, client, clients, req>>, runEnded => runEnded'
      PROVE  Questions'
  BY <1>1 DEF Questions, Attends
<1>2. CASE UNCHANGED vars \/ RunEnds \/ CallStep
             \/ \E k \in Clients : SendReleases(k) \/ ConfigStep(k)
  <2>1. UNCHANGED <<supervisor, sup, client, clients, req>> /\ (runEnded => runEnded')
    BY <1>2, CallsKeep, WorkersKeep
       DEF SendReleases, RunEnds, callVars, supVars, reqVars, vars
  <2> QED
    BY <1>1, <2>1
<1>3. ASSUME NEW g \in Gens, SubscriberStep(g) PROVE Questions'
  <2>1. UNCHANGED <<supervisor, sup, client, clients, req, runEnded>>
    BY <1>3, SubscribersKeep DEF callVars, supVars, reqVars
  <2> QED
    BY <1>1, <2>1
<1>4. CASE FinishStart
  <2>1. UNCHANGED <<client, clients, req, runEnded>>
    BY <1>4, StartsKeep DEF reqVars
  <2>2. CASE runEnded
    BY <1>1, <1>4, <2>1, <2>2 DEF FinishStart
  <2>3. CASE ~runEnded
    <3>1. supervisor \in Gens => sup[supervisor] \in {"none", "done"}
      BY <1>4 DEF FinishStart, Generations
    <3>2. \A q \in Requests : req[q].at \notin Asked
      BY <2>3, <3>1 DEF Questions, Attends, Busy
    <3> QED
      BY <2>1, <3>2 DEF Questions
  <2> QED
    BY <2>2, <2>3
<1>5. ASSUME NEW g \in Gens, SubscriptionEnds(g) \/ SupervisorStep(g) PROVE Questions'
  BY <1>5, QuestionsBySupervisors
<1>6. ASSUME NEW q \in Requests, DispatchStep(q) PROVE Questions'
  BY <1>6, QuestionsByRequests
<1> QED
  BY <1>2, <1>3, <1>4, <1>5, <1>6, Steps

-----------------------------------------------------------------------------
(* Slots that may have been lost *)

\* A supervisor starts a lifetime over a registry only when none was lost under it.
LEMMA LossesBySupervisors ==
    ASSUME TypeOK, Generations, Lifetimes, Drains, Questions, Losses,
           NEW g \in Gens, SubscriptionEnds(g) \/ SupervisorStep(g), [Next]_vars
    PROVE  Losses'
<1> USE CallTypesHold, LifeTypesHold, OtherTypesHold
<1>1. /\ g = supervisor /\ UNCHANGED <<ambiguous, req, leaked>>
      /\ UNCHANGED <<client, clients, genOf, regOf>> \/ NewLifetime(g)
      /\ UNCHANGED <<registry, registries>> \/ Replaced(g)
  BY MovesAreOfTheLatest, SupervisorsKeep DEF reqVars
<1>2. \A k \in leaked : k \in Clients /\ regOf'[k] = regOf[k] /\ regOf[k] <= registries
  <2>1. \A k \in leaked : k \in Clients /\ k # clients + 1
    BY ClientsInRange DEF ReqTypes
  <2>2. \A k \in leaked : regOf'[k] = regOf[k]
    BY <1>1, <2>1 DEF NewLifetime, LifeTypes
  <2>3. \A k \in leaked : regOf[k] <= registries
    BY <2>1 DEF LifeTypes
  <2> QED
    BY <2>1, <2>2, <2>3
<1>3. \A k \in leaked' : \/ k \in ambiguous'
                         \/ \E q \in Requests : req'[q].at = "lost" /\ req'[q].k = k
                         \/ regOf'[k] \in shut'
  BY <1>1, <1>2, ShutStaysEmpty DEF Losses
<1>4. ASSUME NEW h \in Gens, h # g PROVE sup'[h] \notin Fresh
  <2>1. h \in Nat /\ supervisor \in Nat /\ (h < supervisor \/ h > supervisor)
    BY <1>1, <1>4 DEF CallTypes, Gens
  <2>2. sup[h] \in {"none", "done"}
    BY <2>1 DEF Generations
  <2> QED
    BY <1>4, <2>2, MovesKeepTypes DEF Fresh
<1>5. ASSUME NEW k \in leaked, sup'[g] \in Fresh, regOf[k] = registry'[g]
      PROVE  k = client'[g] /\ sup'[g] # "loop"
  <2>1. ~Replaced(g)
    BY <1>2, <1>5 DEF Replaced, LifeTypes
  <2>2. registry' = registry
    BY <1>1, <2>1
  <2>3. sup[g] \in Fresh => k = client[g] /\ sup[g] # "loop"
    BY <1>5, <2>2 DEF Losses
  <2>4. sup[g] \in Fresh
    <3>1. sup[g] \in Fresh \/ sup[g] = "replacing"
      BY <1>5, MovesKeepTypes DEF Moves, Fresh
    <3>2. sup[g] = "replacing" => TimedOut(g)
      BY <2>1 DEF SubscriptionEnds, SupervisorStep, NewLifetime, LeaveLoop, Detach, Unbundle,
         Retry, FinalDrain, Settled, Drained, Flushed, DeferredDrain, Done
    <3>3. TimedOut(g) => sup'[g] = "abandoned"
      BY DEF TimedOut, GoTo, CallTypes
    <3> QED
      BY <1>5, <3>1, <3>2, <3>3 DEF Fresh
  <2>5. ~NewLifetime(g) /\ client' = client
    BY <1>1, <2>3, <2>4 DEF NewLifetime
  <2>6. CASE Settled(g)
    <3>1. sup'[g] = "loop" => client[g] \notin ambiguous
      BY <2>6 DEF Settled, GoTo, CallTypes
    <3>2. registry[g] \notin shut
      BY <2>4 DEF Drains, FollowsSupervisor
    <3>3. \A q \in Requests : req[q].at = "lost" => regOf[req[q].k] # registry[g]
      BY <2>6 DEF Settled, PendingIn, Holds, Unresolved
    <3>4. sup'[g] # "loop"
      BY <1>5, <2>2, <2>3, <2>4, <3>1, <3>2, <3>3 DEF Losses
    <3> QED
      BY <2>3, <2>4, <2>5, <3>4
  <2>7. CASE ~Settled(g)
    <3>1. sup'[g] # "loop"
      BY <2>1, <2>5, <2>7 DEF SubscriptionEnds, SupervisorStep, LeaveLoop, Detach, Unbundle,
         Retry, FinalDrain, Drained, Flushed, TimedOut, DeferredDrain, Done, GoTo, CallTypes
    <3> QED
      BY <2>3, <2>4, <2>5, <3>1
  <2> QED
    BY <2>6, <2>7
<1>6. \A h \in Gens, k \in leaked' :
         sup'[h] \in Fresh /\ regOf'[k] = registry'[h] =>
           k = client'[h] /\ sup'[h] # "loop"
  BY <1>1, <1>2, <1>4, <1>5
<1> QED
  BY <1>3, <1>6 DEF Losses

\* A request that loses a slot leaves word of it: as a lost answer, as an ambiguous
\* client, or in a registry that is shut.
LEMMA LossesByRequests ==
    ASSUME TypeOK, Generations, Drains, Questions, Losses,
           NEW q \in Requests, DispatchStep(q)
    PROVE  Losses'
<1> USE OtherTypesHold, CallTypesHold
<1>1. /\ UNCHANGED <<sup, client, registry, regOf, shut>>
      /\ ambiguous \subseteq ambiguous'
  BY DispatchesKeep DEF supVars
<1>2. \A p \in Requests \ {q} : req'[p] = req[p]
  BY DEF DispatchStep, LoadBundle, RequestStep, BeginDispatch, SendDispatch,
     DispatchRefused, DispatchGranted, AnswerValid, AnswerMalformed, DispatchLate,
     DispatchLost, AbortDispatch, EndDispatch, EndScope, Ask, ReqTypes
<1>3. req[q].at = "lost" => req[q].k \in ambiguous'
  <2>1. req[q].at = "lost" => AbortDispatch(q)
    BY DEF DispatchStep, LoadBundle, RequestStep, BeginDispatch, SendDispatch,
     DispatchRefused, DispatchGranted, AnswerValid, AnswerMalformed, DispatchLate,
     DispatchLost, EndDispatch, EndScope, Ask
  <2> QED
    BY <2>1 DEF AbortDispatch, Fence
<1>4. \A k \in leaked : \/ k \in ambiguous'
                        \/ \E p \in Requests : req'[p].at = "lost" /\ req'[p].k = k
                        \/ regOf[k] \in shut
  BY <1>1, <1>2, <1>3 DEF Losses
<1>5. CASE leaked' = leaked
  BY <1>1, <1>4, <1>5 DEF Losses
<1>6. CASE DispatchLate(q)
  <2>1. leaked' = leaked \union {req[q].k} /\ regOf[req[q].k] \in shut
    BY <1>6 DEF DispatchLate
  <2>2. \A g \in Gens : sup[g] \in Fresh => regOf[req[q].k] # registry[g]
    BY <2>1 DEF Drains, FollowsSupervisor
  <2> QED
    BY <1>1, <1>4, <2>1, <2>2 DEF Losses
<1>7. CASE DispatchLost(q)
  <2>1. /\ leaked' = leaked \union {req[q].k} /\ req[q].at = "sent"
        /\ (req'[q]).at = "lost" /\ (req'[q]).k = req[q].k
    BY <1>7 DEF DispatchLost, Ask, ReqTypes
  <2>2. ASSUME NEW g \in Gens, sup[g] \in Fresh
        PROVE  req[q].k = client[g] /\ sup[g] # "loop"
    <3>1. g = supervisor
      BY <2>2 DEF Generations, CallTypes, Gens, Fresh
    <3> QED
      BY <2>1, <2>2, <3>1 DEF Questions, Attends, Asked, Fresh, Busy
  <2> QED
    BY <1>1, <1>4, <2>1, <2>2 DEF Losses
<1> QED
  BY <1>5, <1>6, <1>7, DispatchesKeep

\* Lost slots are known of when the next lifetime is made.
LEMMA LossesStep ==
    ASSUME TypeOK, Generations, Lifetimes, Drains, Questions, Losses, [Next]_vars
    PROVE  Losses'
<1> USE CallTypesHold, LifeTypesHold, OtherTypesHold
<1>1. ASSUME UNCHANGED <<sup, client, registry, regOf, ambiguous, req, leaked, shut>>
      PROVE  Losses'
  BY <1>1 DEF Losses
<1>2. CASE UNCHANGED vars \/ RunEnds \/ CallStep
             \/ \E k \in Clients : SendReleases(k) \/ ConfigStep(k)
  <2>1. UNCHANGED <<sup, client, registry, regOf, ambiguous, req, leaked, shut>>
    BY <1>2, CallsKeep, WorkersKeep
       DEF SendReleases, RunEnds, supVars, linkVars, regVars, reqVars, vars
  <2> QED
    BY <1>1, <2>1
<1>3. ASSUME NEW g \in Gens, SubscriberStep(g) PROVE Losses'
  <2>1. UNCHANGED <<sup, client, registry, regOf, ambiguous, req, leaked, shut>>
    BY <1>3, SubscribersKeep DEF supVars, regVars, reqVars
  <2> QED
    BY <1>1, <2>1
<1>4. CASE FinishStart
  <2>1. UNCHANGED <<client, clients, regOf, ambiguous, req, leaked, shut>>
    BY <1>4, StartsKeep DEF linkVars, regVars, reqVars
  <2>2. CASE runEnded
    BY <1>1, <1>4, <2>1, <2>2 DEF FinishStart
  <2>3. CASE ~runEnded
    <3>1. /\ sup' = [sup EXCEPT ![generation + 1] = "loop"]
          /\ registry' = [registry EXCEPT ![generation + 1] = registries + 1]
      BY <1>4, <2>3 DEF FinishStart
    <3>2. \A k \in leaked : regOf[k] <= registries
      BY ClientsInRange DEF ReqTypes, LifeTypes
    <3>3. ASSUME NEW g \in Gens, NEW k \in leaked, sup'[g] \in Fresh,
                 regOf[k] = registry'[g]
          PROVE  k = client[g] /\ sup'[g] # "loop"
      <4>1. g # generation + 1
        BY <3>1, <3>2, <3>3 DEF LifeTypes
      <4> QED
        BY <3>1, <3>3, <4>1 DEF Losses, CallTypes, LifeTypes
    <3> QED
      BY <2>1, <3>3 DEF Losses
  <2> QED
    BY <2>2, <2>3
<1>5. ASSUME NEW g \in Gens, SubscriptionEnds(g) \/ SupervisorStep(g) PROVE Losses'
  BY <1>5, LossesBySupervisors
<1>6. ASSUME NEW q \in Requests, DispatchStep(q) PROVE Losses'
  BY <1>6, LossesByRequests
<1> QED
  BY <1>2, <1>3, <1>4, <1>5, <1>6, Steps

-----------------------------------------------------------------------------
(* The theorems *)

\* The service starts without generations, lifetimes and questions.
LEMMA InitInv ==
    ASSUME Init
    PROVE  TypeOK /\ HInv
<1> USE BoundsAssumption
<1>1. TypeOK
  <2>1. req \in [Requests -> [at : RequestStates, k : 0..0]]
    BY DEF Init, NoRequest, RequestStates
  <2>2. /\ sup \in [Gens -> {"none"}] /\ worker \in [Clients -> {"off"}]
        /\ registry \in [Gens -> 0..0] /\ client \in [Gens -> 0..0]
        /\ genOf \in [Clients -> 0..0] /\ regOf \in [Clients -> 0..0]
        /\ queue \in [Clients -> 0..0]
    BY DEF Init
  <2>3. /\ call = "none" /\ at = "cancel" /\ generation = 0 /\ supervisor = 0
        /\ runEnded = FALSE /\ cancelled = {} /\ clients = 0 /\ registries = 0
        /\ homeClient = 0 /\ bundle = 0 /\ committed = 0
        /\ up = {} /\ ended = {} /\ fenced = {} /\ ambiguous = {} /\ published = {}
        /\ observing = {} /\ flushing = {} /\ leaked = {}
        /\ shut = {} /\ silent = {} /\ owed = {}
    BY DEF Init
  <2>4. CallTypes
    <3>1. sup \in [Gens -> PCs]
      BY <2>2 DEF PCs
    <3>2. runEnded \in BOOLEAN /\ cancelled \subseteq Gens
      BY <2>3
    <3>3. generation \in 0..(MaxGen + 1) /\ supervisor \in 0..MaxGen
      BY <2>3
    <3> QED
      BY <2>3, <3>1, <3>2, <3>3 DEF CallTypes
  <2>5. LifeTypes
    BY <2>2, <2>3 DEF LifeTypes
  <2>6. /\ worker \in [Clients -> {"off", "ready?", "idle", "staged", "committing",
                                  "committed", "applied", "publishing", "observer"}]
        /\ queue \in [Clients -> 0..MaxConfigs]
    BY <2>2
  <2>7. /\ {up, ended, fenced, ambiguous, published, observing, flushing, leaked}
             \subseteq SUBSET (1..clients)
        /\ {homeClient, bundle, committed} \subseteq 0..clients
        /\ {shut, silent, owed} \subseteq SUBSET (1..registries)
    BY <2>3
  <2>8. req \in [Requests -> [at : RequestStates, k : 0..clients]]
    BY <2>1, <2>3
  <2> QED
    BY <2>4, <2>5, <2>6, <2>7, <2>8 DEF TypeOK, CallTypes, LifeTypes, RequestStates, PCs
<1>2. Generations /\ Lifetimes /\ Attended
  BY DEF Init, Generations, Lifetimes, Attended, Gens, Clients, Busy
<1>3. Fencing /\ Drains /\ Questions /\ Losses
  BY DEF Init, Fencing, Drains, FollowsSupervisor, Questions, Losses, NoRequest, Asked,
         Gens, Fresh
<1> QED
  BY <1>1, <1>2, <1>3 DEF HInv

\* TypeOK and HInv are inductive.
LEMMA Invariance == Spec => [](TypeOK /\ HInv)
<1>1. Init => TypeOK /\ HInv
  BY InitInv
<1>2. TypeOK /\ HInv /\ [Next]_vars => (TypeOK /\ HInv)'
  <2> SUFFICES ASSUME TypeOK, HInv, [Next]_vars PROVE (TypeOK /\ HInv)'
    OBVIOUS
  <2> USE DEF HInv
  <2>1. Generations' /\ CallTypes'
    BY GenerationsStep
  <2>2. Lifetimes' /\ LifeTypes'
    BY LifetimesStep
  <2>3. Attended' /\ WorkTypes'
    BY AttendedStep, WorkTypesStep
  <2>4. Fencing' /\ Drains' /\ Questions' /\ Losses'
    BY FencingStep, DrainsStep, QuestionsStep, LossesStep
  <2>5. LinkTypes' /\ RegTypes' /\ ReqTypes'
    BY LinkTypesStep, ReqTypesStep
  <2>6. TypeOK'
    BY <2>1, <2>2, <2>3, <2>5, TypesTogether
  <2> QED
    BY <2>1, <2>2, <2>3, <2>4, <2>6
<1> QED
  BY <1>1, <1>2, PTL DEF Spec

\* Every field keeps its shape: no lifetime or registry is made beyond those the
\* generations and reconnections allow.
THEOREM TypeCorrect == Spec => []TypeOK
  BY Invariance, PTL

\* Requests, the runtime integrations and the in-flight publisher see the client of
\* the supervisor that runs, and only until it goes on to its next lifetime.
THEOREM OneLifetimeAtATime == Spec => []OneLifetime
<1>1. TypeOK /\ HInv => OneLifetime
  <2> SUFFICES ASSUME TypeOK, HInv, NEW k \in ({homeClient, bundle} \union observing) \ {0}
               PROVE  /\ genOf[k] = supervisor /\ client[supervisor] = k
                      /\ sup[supervisor] \notin {"loop", "settle", "replacing",
                                                 "leaving", "done"}
    BY DEF OneLifetime
  <2> USE CallTypesHold, LifeTypesHold, WorkTypesHold
  <2>1. k \in Clients
    BY ClientsInRange DEF WorkTypes, LifeTypes, Clients
  <2>2. Attends(k, {"subscribed", "join", "unbundle"})
    BY <2>1 DEF HInv, Attended, Attends
  <2> QED
    BY <2>2 DEF HInv, Lifetimes, Attends, Busy
<1> QED
  BY <1>1, Invariance, PTL

\* The published lifetime is the only one with open questions, and over its registry
\* no other lifetime lost a slot.
THEOREM DispatchesAreSettled == Spec => []DispatchesSettled
<1>1. TypeOK /\ HInv => DispatchesSettled
  <2> SUFFICES ASSUME TypeOK, HInv, bundle # 0 PROVE DispatchesSettled
    BY DEF DispatchesSettled
  <2> USE CallTypesHold, LifeTypesHold, WorkTypesHold, OtherTypesHold
  <2>0. bundle \in Clients
    BY DEF WorkTypes, LifeTypes, Clients
  <2>1. Attends(bundle, {"subscribed", "join", "unbundle"})
    BY <2>0 DEF HInv, Attended, Attends
  <2>2. regOf[bundle] = registry[supervisor] /\ supervisor \in Gens
    BY <2>1 DEF HInv, Lifetimes, Attends, Busy
  <2>3. \A k \in leaked \ {bundle} : regOf[k] # regOf[bundle]
    BY <2>1, <2>2 DEF HInv, Losses, Attends, Fresh
  <2>4. \A q \in Requests : req[q].at \in Asked => req[q].k = bundle
    BY <2>1 DEF HInv, Questions, Attends
  <2> QED
    BY <2>3, <2>4 DEF DispatchesSettled, Asked
<1> QED
  BY <1>1, Invariance, PTL

\* A supervisor that is done has published nothing and left no registry undrained,
\* and one that ended in order has told Home every release.
THEOREM NothingIsLeftBehind == Spec => []NothingLeftBehind
<1>1. TypeOK /\ HInv => NothingLeftBehind
  <2> SUFFICES ASSUME TypeOK, HInv, NEW g \in Gens
               PROVE  /\ sup[g] = "done" =>
                           /\ \A k \in {homeClient, bundle} : k # 0 => genOf[k] # g
                           /\ runEnded \/ \A k \in Clients : genOf[k] = g =>
                                                               Empty(regOf[k])
                      /\ sup[g] = "finished" => Empty(registry[g]) /\ registry[g] \notin owed
    BY DEF NothingLeftBehind
  <2> USE CallTypesHold, LifeTypesHold, WorkTypesHold
  <2>1. ASSUME sup[g] = "done", NEW k \in {homeClient, bundle}, k # 0
        PROVE  genOf[k] # g
    <3>1. k \in Clients
      BY <2>1 DEF WorkTypes, LifeTypes, Clients
    <3>2. Attends(k, {"subscribed", "join", "unbundle"})
      BY <2>1, <3>1 DEF HInv, Attended, Attends
    <3> QED
      BY <2>1, <3>2 DEF HInv, Lifetimes, Attends, Busy
  <2>2. ASSUME sup[g] = "done", ~runEnded, NEW k \in Clients, genOf[k] = g
        PROVE  Empty(regOf[k])
    <3>1. Empty(registry[g])
      BY <2>2 DEF HInv, Drains, FollowsSupervisor
    <3>2. CASE k \in 1..clients
      BY <2>2, <3>1, <3>2 DEF HInv, Drains
    <3>3. CASE k \notin 1..clients
      <4>1. k > clients
        BY <3>3 DEF Clients, LifeTypes
      <4>2. genOf[k] = 0
        BY <4>1 DEF HInv, Lifetimes
      <4> QED
        BY <2>2, <4>2 DEF Gens
    <3> QED
      BY <3>2, <3>3
  <2>3. sup[g] = "finished" => Empty(registry[g]) /\ registry[g] \notin owed
    BY DEF HInv, Drains, FollowsSupervisor
  <2> QED
    BY <2>1, <2>2, <2>3
<1> QED
  BY <1>1, Invariance, PTL

\* No configuration is committed for a generation that was cancelled.
THEOREM CancelStopsCommits == Spec => NoCommitAfterCancel
<1>1. TypeOK /\ HInv => \A k \in Clients : Commit(k) => genOf[k] \notin cancelled
  BY DEF HInv, Attended, Commit, Work
<1> QED
  BY <1>1, Invariance, PTL DEF NoCommitAfterCancel

-----------------------------------------------------------------------------
(* Between two generations, and after the shutdown *)

\* Who replaces or stops a supervisor has waited for it.
Awaited == call = "stopped" \/ (call \in {"start", "shutdown"} /\ at \in {"take", "finish"})

\* Nothing is published, no worker or in-flight publisher runs, no client sends, and
\* every execution is over, unless a timeout or the user ended the service's run.
Quiet ==
    /\ homeClient = 0 /\ bundle = 0
    /\ observing = {} /\ \A k \in Clients : worker[k] = "off"
    /\ 1..clients \subseteq fenced
    /\ runEnded \/ \A k \in 1..clients : Empty(regOf[k])

\* What Generations does not say: after the shutdown no supervisor runs again.
StoppedForGood == call = "stopped" => \A g \in Gens : sup[g] \in {"none", "done"}

\* Only startHomeSubscriber makes a supervisor, and no call follows a shutdown.
LEMMA StoppedStep ==
    ASSUME TypeOK, HInv, StoppedForGood, [Next]_vars
    PROVE  StoppedForGood'
<1>1. CASE CallStep
  <2>1. UNCHANGED sup
    BY <1>1, CallsKeep DEF supVars
  <2>2. call' = "stopped" =>
          call = "stopped" \/ (call = "shutdown" /\ at = "finish")
    BY <1>1 DEF CallStep, StartHomeSubscriber, Shutdown, CancelSupervisor,
                AwaitSupervisor, TakeHome, FinishShutdown
  <2> QED
    BY <2>1, <2>2 DEF StoppedForGood, HInv, Generations
<1>2. CASE FinishStart
  BY <1>2 DEF FinishStart, StoppedForGood
<1>3. CASE RunEnds
  BY <1>3 DEF RunEnds, callVars, supVars, StoppedForGood
<1>4. ASSUME NEW g \in Gens, SubscriberStep(g) PROVE StoppedForGood'
  BY <1>4, SubscribersKeep DEF callVars, supVars, StoppedForGood
<1>5. ASSUME NEW g \in Gens, SubscriptionEnds(g) \/ SupervisorStep(g)
      PROVE  StoppedForGood'
  <2>1. sup[g] \notin {"none", "done"}
    BY <1>5, SupervisorsMove DEF Moves
  <2>2. UNCHANGED call
    BY <1>5, SupervisorsKeep DEF callVars
  <2> QED
    BY <2>1, <2>2 DEF StoppedForGood
<1>6. ASSUME NEW k \in Clients, ConfigStep(k) PROVE StoppedForGood'
  BY <1>6, WorkersKeep DEF callVars, supVars, StoppedForGood
<1>7. ASSUME NEW k \in Clients, SendReleases(k) PROVE StoppedForGood'
  BY <1>7 DEF SendReleases, callVars, supVars, StoppedForGood
<1>8. ASSUME NEW q \in Requests, DispatchStep(q) PROVE StoppedForGood'
  BY <1>8, DispatchesKeep DEF callVars, supVars, StoppedForGood
<1>9. CASE UNCHANGED vars
  BY <1>9 DEF vars, callVars, supVars, StoppedForGood
<1> QED
  BY Steps, <1>1, <1>2, <1>3, <1>4, <1>5, <1>6, <1>7, <1>8, <1>9

\* A generation starts, and Shutdown returns, only when the one before is over in
\* every respect: it publishes nothing, commits nothing, can send Home nothing, and
\* none of its executions goes on unless the whole service was ended.
THEOREM HandoverIsQuiet == Spec => [](Awaited => Quiet)
<1>1. Init => StoppedForGood
  BY DEF Init, StoppedForGood
<1>2. TypeOK /\ HInv /\ StoppedForGood /\ [Next]_vars => StoppedForGood'
  BY StoppedStep
<1>3. TypeOK /\ HInv /\ StoppedForGood => (Awaited => Quiet)
  <2> SUFFICES ASSUME TypeOK, HInv, StoppedForGood, Awaited PROVE Quiet
    OBVIOUS
  <2> USE CallTypesHold, LifeTypesHold, WorkTypesHold
  <2>1. \A g \in Gens : sup[g] \in {"none", "done"}
    BY DEF Awaited, StoppedForGood, HInv, Generations
  <2>2. \A k, pcs : pcs \subseteq PCs \ {"none", "done"} => ~Attends(k, pcs)
    BY <2>1 DEF Attends
  <2>3. /\ \A k \in Clients : worker[k] = "off" /\ k \notin observing /\ k # homeClient
        /\ bundle = homeClient
    <3>1. {"subscribed", "join"} \subseteq PCs \ {"none", "done"}
      BY DEF PCs
    <3>2. {"unbundle"} \subseteq PCs \ {"none", "done"}
      BY DEF PCs
    <3> QED
      BY <2>2, <3>1, <3>2 DEF HInv, Attended
  <2>4. homeClient = 0 /\ bundle = 0 /\ observing = {}
    BY <2>3, ClientsInRange DEF WorkTypes, LifeTypes, Clients
  <2>5. 1..clients \subseteq fenced
    <3>1. Open \subseteq PCs \ {"none", "done"}
      BY DEF Open, PCs
    <3> QED
      BY <2>2, <3>1 DEF HInv, Fencing
  <2>6. ASSUME ~runEnded, NEW k \in 1..clients PROVE Empty(regOf[k])
    <3>1. genOf[k] \in Gens /\ genOf[k] <= supervisor
      BY DEF HInv, Lifetimes, CallTypes, Gens
    <3>2. sup[genOf[k]] = "done"
      BY <2>1, <3>1 DEF HInv, Generations, CallTypes, Gens
    <3>3. Empty(registry[genOf[k]])
      BY <2>6, <3>1, <3>2 DEF HInv, Drains, FollowsSupervisor
    <3> QED
      BY <3>3 DEF HInv, Drains
  <2> QED
    BY <2>3, <2>4, <2>5, <2>6 DEF Quiet
<1> QED
  BY <1>1, <1>2, <1>3, Invariance, PTL DEF Spec
=============================================================================
