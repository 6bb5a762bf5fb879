----------------------- MODULE ExecutionRegistryProofs -----------------------
(***************************************************************************)
(* Theorems about ExecutionRegistry, for any number of dispatches, groups, *)
(* sinks, callers, barriers and snapshots.                                 *)
(*                                                                         *)
(* Steps and the lemmas after it say who changes what: the owners of       *)
(* dispatches, the closers of resources, the ends of scopes, the sink and  *)
(* observation operations, and the callers of Drain, Close and             *)
(* WaitPending.  The parts of the inductive invariant Inv are then kept by *)
(* the few steps that touch their variables; the theorems at the end read  *)
(* the safety properties of the registry off Inv.                          *)
(***************************************************************************)
EXTENDS ExecutionRegistry, FiniteSetTheorems, TLAPS

-----------------------------------------------------------------------------
(* Who changes what *)

ResourceStep(d) == Bind(d) \/ CloseResource(d)
SinkStep ==
    \/ \E s \in Sinks \union {NoSink} : SetReleaseSink(s)
    \/ \E r \in replays : ReplayRelease(r)
ObserverStep == FreezeInFlight \/ \E b \in 1..MaxBarrier : ObserveBarrier(b)
CallerStep(c) ==
    \/ DrainStart(c) \/ DrainStep(c) \/ DrainExpire(c)
    \/ CloseStart(c) \/ CloseStep(c)
    \/ WaitPendingStart(c) \/ WaitPendingStep(c) \/ WaitPendingExpire(c)

\* A step is one of a dispatch owner, a resource, a scope that ends, the sink, an
\* observer or a caller.
LEMMA Steps ==
    ASSUME [Next]_vars
    PROVE  \/ BeginDispatch
           \/ \E d \in Ids : DispatchOwner(d) \/ ResourceStep(d) \/ ScopeEnd(d)
           \/ SinkStep
           \/ ObserverStep
           \/ \E c \in Callers : CallerStep(c)
           \/ UNCHANGED vars
  BY DEF Next, ResourceStep, SinkStep, ObserverStep, CallerStep

\* BeginDispatch, Install and the End of a token.
LEMMA OwnersKeep ==
    ASSUME BeginDispatch \/ \E d \in Ids : DispatchOwner(d)
    PROVE  UNCHANGED <<state, resource, releaseVars, barrierVars, pc, drainVars,
                       closeVars>>
  BY DEF BeginDispatch, DispatchOwner, EndPending, Install

\* Bind, and a closeFn that returns: the resource only.
LEMMA ResourcesKeep ==
    ASSUME NEW d \in Ids, ResourceStep(d)
    PROVE  UNCHANGED <<state, dispatchVars, stage, releaseVars, barrierVars, pc,
                       drainVars, parked, closeVars>>
  BY DEF ResourceStep, Bind, CloseResource

\* EndWithRelease: the stage, and one thing more in some of its steps.
LEMMA EndsKeep ==
    ASSUME NEW d \in Ids, ScopeEnd(d)
    PROVE  /\ UNCHANGED <<state, next, pending, spec, barrierVars, pc, drainVars,
                          closeVars>>
           /\ \/ UNCHANGED <<scopes, parked>>
              \/ EndRemove(d)
           /\ \/ UNCHANGED releaseVars
              \/ EndMark(d) \/ EndReport(d)
           /\ UNCHANGED resource \/ EndStartClose(d)
  BY DEF ScopeEnd, EndDeactivate, EndStartClose, EndAwaitClose, EndMark, EndReport,
         EndRemove, dispatchVars, releaseVars

\* SetReleaseSink and the calls it owes.
LEMMA SinksKeep ==
    ASSUME SinkStep
    PROVE  UNCHANGED <<state, dispatchVars, resource, stage, report,
                       releaseSequences, barrierVars, pc, drainVars, parked,
                       closeVars>>
  BY DEF SinkStep, SetReleaseSink, ReplayRelease

\* ObserveBarrier and FreezeInFlight: nothing but barriers and snapshots.
LEMMA ObserversKeep ==
    ASSUME ObserverStep
    PROVE  UNCHANGED <<state, dispatchVars, resource, stage, releaseVars, pc,
                       drainVars, parked, closeVars>>
  BY DEF ObserverStep, ObserveBarrier, FreezeInFlight

\* Drain, Close and WaitPending: no dispatch, stage, release or barrier.
LEMMA CallersKeep ==
    ASSUME NEW c \in Callers, CallerStep(c)
    PROVE  UNCHANGED <<dispatchVars, stage, releaseVars, barrierVars>>
<1>1. CASE DrainStart(c) \/ DrainStep(c) \/ DrainExpire(c)
  BY <1>1 DEF DrainStart, DrainStep, DrainExpire, DrainSnapshot, DrainCancel,
              DrainCancelled, DrainCheck, DrainWake
<1>2. CASE CloseStart(c) \/ CloseStep(c)
  BY <1>2 DEF CloseStart, CloseStep, CloseSwap, CloseSnapshot, CloseNext,
              CloseAwait, CloseReturn, CloseJoined
<1>3. CASE WaitPendingStart(c) \/ WaitPendingStep(c) \/ WaitPendingExpire(c)
  BY <1>3 DEF WaitPendingStart, WaitPendingStep, WaitPendingExpire,
              WaitPendingCheck, WaitPendingWake
<1> QED
  BY <1>1, <1>2, <1>3 DEF CallerStep

\* A caller starts the close of a resource, or leaves the resources alone.
LEMMA CallersClose ==
    ASSUME NEW c \in Callers, CallerStep(c)
    PROVE  UNCHANGED resource \/ \E d \in Ids : StartBoundResourceClose(d)
<1>1. CASE DrainStart(c) \/ DrainStep(c) \/ DrainExpire(c)
  BY <1>1 DEF DrainStart, DrainStep, DrainExpire, DrainSnapshot, DrainCancel,
              DrainCancelled, DrainCheck, DrainWake
<1>2. CASE CloseStart(c) \/ CloseStep(c)
  BY <1>2 DEF CloseStart, CloseStep, CloseSwap, CloseSnapshot, CloseNext,
              CloseAwait, CloseReturn, CloseJoined
<1>3. CASE WaitPendingStart(c) \/ WaitPendingStep(c) \/ WaitPendingExpire(c)
  BY <1>3 DEF WaitPendingStart, WaitPendingStep, WaitPendingExpire,
              WaitPendingCheck, WaitPendingWake
<1> QED
  BY <1>1, <1>2, <1>3 DEF CallerStep

-----------------------------------------------------------------------------
(* Type correctness *)

\* The first close of a resource leaves it in one of its states.
LEMMA CloseTypes ==
    ASSUME NEW d \in Ids, StartBoundResourceClose(d), resource \in [Ids -> Resources]
    PROVE  resource' \in [Ids -> Resources]
  BY DEF StartBoundResourceClose, Resources

\* The dispatch fields keep their shapes.
LEMMA DispatchTypesStep ==
    ASSUME DispatchTypes, [Next]_vars
    PROVE  DispatchTypes'
<1>1. CASE BeginDispatch
  BY <1>1, BoundsAssumption DEF BeginDispatch, DispatchTypes, Ids
<1>2. ASSUME NEW d \in Ids, EndPending(d) PROVE DispatchTypes'
  BY <1>2 DEF EndPending, DispatchTypes
<1>3. ASSUME NEW d \in Ids, NEW sp \in Groups \union {Unaccounted}, Install(d, sp)
      PROVE  DispatchTypes'
  <2>1. UNCHANGED <<state, next, resource>> /\ pending' \subseteq pending
    BY <1>3 DEF Install
  <2>2. scopes' \subseteq Ids
    BY <1>3 DEF Install, DispatchTypes
  <2>3. spec' \in [Ids -> Groups \union {Unaccounted}]
    BY <1>3 DEF Install, DispatchTypes
  <2>4. stage' \in [Ids -> Stages]
    BY <1>3 DEF Install, DispatchTypes, Stages
  <2> QED
    BY <2>1, <2>2, <2>3, <2>4 DEF DispatchTypes
<1>4. ASSUME NEW d \in Ids, ResourceStep(d) PROVE DispatchTypes'
  <2>1. resource' \in [Ids -> Resources]
    BY <1>4 DEF ResourceStep, Bind, CloseResource, DispatchTypes, Resources
  <2> QED
    BY <1>4, <2>1, ResourcesKeep DEF DispatchTypes, dispatchVars
<1>5. ASSUME NEW d \in Ids, ScopeEnd(d) PROVE DispatchTypes'
  <2>1. stage' \in [Ids -> Stages]
    BY <1>5 DEF ScopeEnd, EndDeactivate, EndStartClose, EndAwaitClose, EndMark,
                EndReport, EndRemove, DispatchTypes, Stages
  <2>2. scopes' \subseteq scopes
    BY <1>5, EndsKeep DEF EndRemove
  <2>3. resource' \in [Ids -> Resources]
    BY <1>5, EndsKeep, CloseTypes DEF EndStartClose, DispatchTypes
  <2> QED
    BY <1>5, <2>1, <2>2, <2>3, EndsKeep DEF DispatchTypes
<1>6. ASSUME NEW c \in Callers, CallerStep(c) PROVE DispatchTypes'
  <2>1. state' \in {"accepting", "draining", "closed"}
    BY <1>6 DEF CallerStep, DrainStart, DrainStep, DrainExpire, DrainSnapshot,
         DrainCancel, DrainCancelled, DrainCheck, DrainWake, CloseStart, CloseStep,
         CloseSwap, CloseSnapshot, CloseNext, CloseAwait, CloseReturn, CloseJoined,
         WaitPendingStart, WaitPendingStep, WaitPendingExpire, WaitPendingCheck,
         WaitPendingWake, DispatchTypes
  <2>2. resource' \in [Ids -> Resources]
    BY <1>6, CallersClose, CloseTypes DEF DispatchTypes
  <2> QED
    BY <1>6, <2>1, <2>2, CallersKeep DEF DispatchTypes, dispatchVars
<1>7. CASE SinkStep \/ ObserverStep \/ UNCHANGED vars
  BY <1>7, SinksKeep, ObserversKeep DEF DispatchTypes, dispatchVars, vars
<1> QED
  BY <1>1, <1>2, <1>3, <1>4, <1>5, <1>6, <1>7, Steps DEF DispatchOwner

\* A call of a sink keeps the shape of what the sinks heard.
LEMMA HearTypes ==
    ASSUME NEW s, NEW g, NEW n \in Nat, Hear(s, g, n),
           heard \in [Sinks -> [Groups -> Nat]]
    PROVE  heard' \in [Sinks -> [Groups -> Nat]]
  BY DEF Hear, Larger

\* The release fields keep their shapes.
LEMMA ReleaseTypesStep ==
    ASSUME DispatchTypes, ReleaseTypes, [Next]_vars
    PROVE  ReleaseTypes'
<1>1. CASE BeginDispatch \/ \E d \in Ids : DispatchOwner(d)
  BY <1>1, OwnersKeep DEF ReleaseTypes, releaseVars
<1>2. ASSUME NEW d \in Ids, EndMark(d) PROVE ReleaseTypes'
  <2>1. CASE spec[d] = Unaccounted
    BY <1>2, <2>1 DEF EndMark, ReleaseTypes
  <2>2. CASE spec[d] # Unaccounted
    <3> DEFINE n == releaseSequences[spec[d]] + 1
    <3>1. spec[d] \in Groups /\ n \in Nat
      BY <2>2 DEF DispatchTypes, ReleaseTypes
    <3>2. /\ releaseSequences' = [releaseSequences EXCEPT ![spec[d]] = n]
          /\ report' = [report EXCEPT ![d] = [sink |-> releaseSink, seq |-> n]]
          /\ UNCHANGED <<releaseSink, replays, heard>>
      BY <1>2, <2>2 DEF EndMark
    <3> QED
      BY <3>1, <3>2 DEF ReleaseTypes
  <2> QED
    BY <2>1, <2>2
<1>3. ASSUME NEW d \in Ids, EndReport(d) PROVE ReleaseTypes'
  <2>1. report[d].seq \in Nat
    BY DEF ReleaseTypes
  <2>2. heard' \in [Sinks -> [Groups -> Nat]]
    BY <1>3, <2>1, HearTypes DEF EndReport, ReleaseTypes
  <2> QED
    BY <1>3, <2>2 DEF EndReport, ReleaseTypes
<1>4. ASSUME NEW d \in Ids, ResourceStep(d) \/ ScopeEnd(d) PROVE ReleaseTypes'
  BY <1>2, <1>3, <1>4, ResourcesKeep, EndsKeep DEF ReleaseTypes, releaseVars
<1>5. ASSUME NEW s \in Sinks \union {NoSink}, SetReleaseSink(s)
      PROVE  ReleaseTypes'
  <2>1. replays' \subseteq [sink : Sinks, group : Groups, seq : Nat]
    BY <1>5 DEF SetReleaseSink, ReleaseTypes
  <2> QED
    BY <1>5, <2>1 DEF SetReleaseSink, ReleaseTypes
<1>6. ASSUME NEW r \in replays, ReplayRelease(r) PROVE ReleaseTypes'
  <2>1. r.seq \in Nat
    BY DEF ReleaseTypes
  <2>2. heard' \in [Sinks -> [Groups -> Nat]]
    BY <1>6, <2>1, HearTypes DEF ReplayRelease, ReleaseTypes
  <2> QED
    BY <1>6, <2>2 DEF ReplayRelease, ReleaseTypes
<1>7. CASE ObserverStep \/ (\E c \in Callers : CallerStep(c)) \/ UNCHANGED vars
  BY <1>7, ObserversKeep, CallersKeep DEF ReleaseTypes, releaseVars, vars
<1> QED
  BY <1>1, <1>4, <1>5, <1>6, <1>7, Steps DEF SinkStep

\* The observation fields keep their shapes.
LEMMA BarrierTypesStep ==
    ASSUME DispatchTypes, BarrierTypes, [Next]_vars
    PROVE  BarrierTypes'
<1>1. ASSUME NEW b \in 1..MaxBarrier, ObserveBarrier(b) PROVE BarrierTypes'
  <2>1. b \in 0..MaxBarrier /\ next \in 0..MaxDispatches
    BY BoundsAssumption DEF DispatchTypes
  <2> QED
    BY <1>1, <2>1 DEF ObserveBarrier, BarrierTypes
<1>2. CASE FreezeInFlight
  <2>1. publishedBarrier' \in 0..MaxBarrier
    BY <1>2 DEF FreezeInFlight, BarrierTypes
  <2>2. freeze.revision + 1 \in 0..MaxFreezes
    <3>1. freeze.revision \in 0..MaxFreezes /\ freeze.revision < MaxFreezes
      BY <1>2 DEF FreezeInFlight, BarrierTypes
    <3> QED
      BY <3>1, BoundsAssumption
  <2>3. freeze' \in [revision : 0..MaxFreezes, barrier : 0..MaxBarrier,
                     executions : SUBSET Ids]
    BY <1>2, <2>1, <2>2 DEF FreezeInFlight, DispatchTypes
  <2> QED
    BY <1>2, <2>1, <2>3 DEF FreezeInFlight, BarrierTypes
<1>3. CASE UNCHANGED barrierVars
  BY <1>3 DEF barrierVars, BarrierTypes
<1>4. \/ ObserverStep
      \/ UNCHANGED barrierVars
  BY Steps, OwnersKeep, ResourcesKeep, EndsKeep, SinksKeep, CallersKeep DEF vars
<1> QED
  BY <1>1, <1>2, <1>3, <1>4 DEF ObserverStep

\* A caller's step keeps the shapes of the callers' fields.
LEMMA CallerStepTypes ==
    ASSUME NEW c \in Callers, CallerStep(c), DispatchTypes, CallerTypes
    PROVE  CallerTypes'
<1>1. pc' \in [Callers -> PCs]
  <2>1. \/ UNCHANGED pc
        \/ \E p \in PCs : pc' = [pc EXCEPT ![c] = p]
    <3>1. CASE DrainStart(c) \/ DrainStep(c) \/ DrainExpire(c)
      BY <3>1 DEF PCs, DrainStart, DrainStep, DrainExpire, DrainSnapshot, DrainCancel,
                  DrainCancelled, DrainCheck, DrainWake
    <3>2. CASE CloseStart(c) \/ CloseStep(c)
      BY <3>2 DEF PCs, CloseStart, CloseStep, CloseSwap, CloseSnapshot, CloseNext,
                  CloseAwait, CloseReturn, CloseJoined
    <3>3. CASE WaitPendingStart(c) \/ WaitPendingStep(c) \/ WaitPendingExpire(c)
      BY <3>3 DEF PCs, WaitPendingStart, WaitPendingStep, WaitPendingExpire,
                  WaitPendingCheck, WaitPendingWake
    <3> QED
      BY <3>1, <3>2, <3>3 DEF CallerStep
  <2> QED
    BY <2>1 DEF CallerTypes
<1>2. /\ drainLeft' \in [Callers -> SUBSET Ids]
      /\ parked' \subseteq Callers
      /\ closeStarted' \in BOOLEAN
      /\ closeLeft' \subseteq Ids
      /\ closeAt' \in Ids \union {0}
      /\ closeDone' \in BOOLEAN
  <2>1. CASE DrainStart(c) \/ DrainStep(c) \/ DrainExpire(c)
    BY <2>1 DEF DrainStart, DrainStep, DrainExpire, DrainSnapshot, DrainCancel,
                DrainCancelled, DrainCheck, DrainWake, DispatchTypes, CallerTypes,
                closeVars, drainVars
  <2>2. CASE CloseStart(c) \/ CloseStep(c)
    BY <2>2 DEF CloseStart, CloseStep, CloseSwap, CloseSnapshot, CloseNext,
                CloseAwait, CloseReturn, CloseJoined, DispatchTypes, CallerTypes,
                closeVars, drainVars
  <2>3. CASE WaitPendingStart(c) \/ WaitPendingStep(c) \/ WaitPendingExpire(c)
    BY <2>3 DEF WaitPendingStart, WaitPendingStep, WaitPendingExpire,
                WaitPendingCheck, WaitPendingWake, CallerTypes, closeVars, drainVars
  <2> QED
    BY <2>1, <2>2, <2>3 DEF CallerStep
<1> QED
  BY <1>1, <1>2 DEF CallerTypes

\* Nobody but a caller changes where the callers are, except that whoever
\* empties the registry may wake them all.
LEMMA OthersKeepCallers ==
    ASSUME [Next]_vars, ~\E c \in Callers : CallerStep(c)
    PROVE  /\ UNCHANGED <<state, pc, drainVars, closeVars>>
           /\ parked' \in {parked, {}}
<1>1. CASE BeginDispatch \/ \E d \in Ids : DispatchOwner(d)
  <2>1. parked' \in {parked, {}}
    BY <1>1 DEF BeginDispatch, DispatchOwner, EndPending, Install, SignalLocked
  <2> QED
    BY <1>1, <2>1, OwnersKeep
<1>2. ASSUME NEW d \in Ids, ScopeEnd(d)
      PROVE  parked' \in {parked, {}}
  BY <1>2, EndsKeep DEF EndRemove, SignalLocked
<1>3. CASE \E d \in Ids : ResourceStep(d) \/ ScopeEnd(d)
  BY <1>2, <1>3, ResourcesKeep, EndsKeep
<1>4. CASE SinkStep \/ ObserverStep \/ UNCHANGED vars
  BY <1>4, SinksKeep, ObserversKeep DEF vars
<1> QED
  BY <1>1, <1>3, <1>4, Steps

\* The callers' fields keep their shapes.
LEMMA CallerTypesStep ==
    ASSUME DispatchTypes, CallerTypes, [Next]_vars
    PROVE  CallerTypes'
<1>1. CASE \E c \in Callers : CallerStep(c)
  BY <1>1, CallerStepTypes
<1>2. CASE ~\E c \in Callers : CallerStep(c)
  BY <1>2, OthersKeepCallers DEF CallerTypes, drainVars, closeVars
<1> QED
  BY <1>1, <1>2

\* Every field of the registry and every goroutine position keeps its shape
\* (registry.go and observation.go, for any number of dispatches and callers).
THEOREM TypeCorrect == Spec => []TypeOK
<1>1. Init => TypeOK
  <2> SUFFICES ASSUME Init PROVE TypeOK
    OBVIOUS
  <2>1. DispatchTypes
    BY BoundsAssumption DEF Init, DispatchTypes, Ids, Stages, Resources
  <2>2. ReleaseTypes
    BY DEF Init, ReleaseTypes
  <2>3. BarrierTypes
    BY BoundsAssumption DEF Init, BarrierTypes
  <2>4. CallerTypes
    BY DEF Init, CallerTypes, PCs
  <2> QED
    BY <2>1, <2>2, <2>3, <2>4 DEF TypeOK
<1>2. TypeOK /\ [Next]_vars => TypeOK'
  BY DispatchTypesStep, ReleaseTypesStep, BarrierTypesStep, CallerTypesStep DEF TypeOK
<1> QED
  BY <1>1, <1>2, PTL DEF Spec

-----------------------------------------------------------------------------
(* The inductive invariant *)

\* A dispatch is pending before it has a stage, in r.scopes from its installation
\* until its removal, and its resource follows the stage of its end.
Lifecycle ==
    /\ \A d \in pending : d <= next /\ stage[d] = "none"
    /\ \A d \in Ids : /\ stage[d] # "none" => d <= next
                      /\ d \in scopes <=> stage[d] \notin {"none", "ended"}
                      /\ stage[d] = "none" => resource[d] = "unbound"
                      /\ stage[d] = "waiting" => resource[d] \in {"closing", "closed"}
                      /\ stage[d] = "quiet" => ResourceGone(d)
    /\ ClosedBeforeRelease

AllGone == \A d \in Ids : ResourceGone(d)
Closers == {c \in Callers : pc[c] \in {"closeSwap", "closeSnap", "closing"}}

\* One caller at most is the Close; past its snapshot, whatever is not closed is
\* still ahead of it.  The state word is closed by an empty Drain or by it.
Shutdown ==
    /\ \A c \in Callers : pc[c] = "drained" =>
         pending = {} /\ scopes = {} /\ state = "closed"
    /\ Closers # {} => closeStarted /\ ~closeDone
    /\ \A b, c \in Closers : b = c
    /\ \A c \in Callers : pc[c] \in {"closeSnap", "closing"} => state = "closed"
    /\ \A c \in Callers : pc[c] = "closing" =>
         \A d \in Ids : ResourceGone(d) \/ d \in closeLeft \/ d = closeAt
    /\ state = "closed" /\ ~closeStarted => AllGone
    /\ closeDone => closeStarted /\ state = "closed" /\ AllGone
    /\ \A c \in Callers : pc[c] = "closed" => state = "closed" /\ AllGone

\* The barrier a snapshot carries holds no pending dispatch back, and what it
\* had to contain is in the snapshot or finished.
Barriers ==
    /\ pendingBarrierSequence = begunAt[observedBarrier]
    /\ \A b \in 0..MaxBarrier : begunAt[b] <= next
    /\ publishedBarrier <= observedBarrier
    /\ freeze.barrier = publishedBarrier
    /\ \A d \in pending : d > begunAt[publishedBarrier]
    /\ BarrierComplete

\* A release was counted under a sequence of its group, and what a scope captured
\* for a sink has reached that sink when the scope moves on.
ReportOf(d) ==
    IF stage[d] \in Released /\ spec[d] # Unaccounted
    THEN /\ report[d].seq \in 1..releaseSequences[spec[d]]
         /\ stage[d] = "marked" => report[d].sink # NoSink
         /\ stage[d] # "marked" /\ report[d].sink # NoSink =>
              report[d].seq <= heard[report[d].sink][spec[d]]
    ELSE stage[d] # "marked" /\ report[d].sink = NoSink

\* No sink was or will be told of a release that did not happen.
Reports ==
    /\ \A d \in Ids : ReportOf(d)
    /\ \A r \in replays : r.seq <= releaseSequences[r.group]
    /\ \A s \in Sinks, g \in Groups : heard[s][g] <= releaseSequences[g]

\* A caller that starts the close of a resource leaves a closed one closed, an
\* unbound one unbound, and turns only bound ones into closing ones.
LEMMA CallersResources ==
    ASSUME NEW c \in Callers, CallerStep(c), DispatchTypes
    PROVE  /\ \A d \in Ids : resource[d] \in {"unbound", "closing", "closed"}
                               => resource'[d] = resource[d]
           /\ \A d \in Ids : resource[d] = "bound" => resource'[d] \in {"bound", "closing"}
<1>1. CASE UNCHANGED resource
  BY <1>1
<1>2. ASSUME NEW d \in Ids, StartBoundResourceClose(d)
      PROVE  \A e \in Ids : \/ resource'[e] = resource[e]
                            \/ resource[e] = "bound" /\ resource'[e] = "closing"
  BY <1>2 DEF StartBoundResourceClose, DispatchTypes
<1> QED
  BY <1>1, <1>2, CallersClose DEF DispatchTypes

\* Every step keeps stages, scopes and resources in step.
LEMMA LifecycleStep ==
    ASSUME TypeOK, Lifecycle, [Next]_vars
    PROVE  Lifecycle'
<1> USE DEF TypeOK, DispatchTypes, Lifecycle, ClosedBeforeRelease, ResourceGone
<1>1. CASE BeginDispatch
  BY <1>1, BoundsAssumption DEF BeginDispatch, Ids
<1>2. ASSUME NEW d \in Ids, EndPending(d) PROVE Lifecycle'
  BY <1>2 DEF EndPending
<1>3. ASSUME NEW d \in Ids, NEW sp \in Groups \union {Unaccounted}, Install(d, sp)
      PROVE  Lifecycle'
  BY <1>3 DEF Install, Released
<1>4. ASSUME NEW d \in Ids, ResourceStep(d) PROVE Lifecycle'
  BY <1>4 DEF ResourceStep, Bind, CloseResource, Released, dispatchVars
<1>5. ASSUME NEW d \in Ids, ScopeEnd(d) PROVE Lifecycle'
  <2>1. CASE EndDeactivate(d)
    BY <2>1 DEF EndDeactivate, Released, dispatchVars
  <2>2. CASE EndStartClose(d)
    BY <2>2 DEF EndStartClose, StartBoundResourceClose, HasCloseDone, Resources,
                Released, dispatchVars
  <2>3. CASE EndAwaitClose(d)
    BY <2>3 DEF EndAwaitClose, Released, dispatchVars
  <2>4. CASE EndMark(d)
    BY <2>4 DEF EndMark, Released, dispatchVars
  <2>5. CASE EndReport(d)
    BY <2>5 DEF EndReport, Released, dispatchVars
  <2>6. CASE EndRemove(d)
    BY <2>6 DEF EndRemove, Released
  <2> QED
    BY <1>5, <2>1, <2>2, <2>3, <2>4, <2>5, <2>6 DEF ScopeEnd
<1>6. ASSUME NEW c \in Callers, CallerStep(c) PROVE Lifecycle'
  <2>1. UNCHANGED <<next, pending, scopes, stage>>
    BY <1>6, CallersKeep DEF dispatchVars
  <2> QED
    BY <1>6, <2>1, CallersResources
<1>7. CASE SinkStep \/ ObserverStep \/ UNCHANGED vars
  BY <1>7, SinksKeep, ObserversKeep DEF dispatchVars, vars
<1> QED
  BY <1>1, <1>2, <1>3, <1>4, <1>5, <1>6, <1>7, Steps DEF DispatchOwner

\* Whoever empties what a caller waits on wakes it.
LEMMA WakeupStep ==
    ASSUME TypeOK, NoLostWakeup, [Next]_vars
    PROVE  NoLostWakeup'
<1>1. CASE BeginDispatch \/ \E d \in Ids : DispatchOwner(d)
  BY <1>1, OwnersKeep
     DEF BeginDispatch, DispatchOwner, EndPending, Install, SignalLocked, NoLostWakeup
<1>2. ASSUME NEW d \in Ids, ResourceStep(d) \/ ScopeEnd(d) PROVE NoLostWakeup'
  BY <1>2, ResourcesKeep, EndsKeep DEF EndRemove, SignalLocked, NoLostWakeup,
                                       dispatchVars
<1>3. ASSUME NEW c \in Callers, CallerStep(c) PROVE NoLostWakeup'
  <2>1. UNCHANGED <<pending, scopes>>
    BY <1>3, CallersKeep DEF dispatchVars
  <2>2. CASE UNCHANGED <<pc, parked>>
    BY <2>1, <2>2 DEF NoLostWakeup
  <2>3. CASE \E p \in PCs \ {"drainParked", "pendParked"} :
               pc' = [pc EXCEPT ![c] = p] /\ parked' \subseteq parked
    BY <2>1, <2>3 DEF NoLostWakeup, TypeOK, CallerTypes
  <2>4. CASE DrainCheck(c) \/ WaitPendingCheck(c)
    BY <2>1, <2>4 DEF DrainCheck, WaitPendingCheck, NoLostWakeup, TypeOK, CallerTypes
  <2>5. CASE DrainStart(c) \/ DrainExpire(c) \/ (DrainStep(c) /\ ~DrainCheck(c))
    BY <2>2, <2>3, <2>5 DEF DrainStart, DrainStep, DrainExpire, DrainSnapshot,
                            DrainCancel, DrainCancelled, DrainWake, PCs
  <2>6. CASE CloseStart(c) \/ CloseStep(c)
    BY <2>2, <2>3, <2>6 DEF CloseStart, CloseStep, CloseSwap, CloseSnapshot,
                            CloseNext, CloseAwait, CloseReturn, CloseJoined, PCs
  <2>7. CASE WaitPendingStart(c) \/ WaitPendingExpire(c) \/ WaitPendingWake(c)
    BY <2>2, <2>3, <2>7 DEF WaitPendingStart, WaitPendingExpire, WaitPendingWake, PCs
  <2> QED
    BY <1>3, <2>4, <2>5, <2>6, <2>7 DEF CallerStep, WaitPendingStep
<1>4. CASE SinkStep \/ ObserverStep \/ UNCHANGED vars
  BY <1>4, SinksKeep, ObserversKeep DEF NoLostWakeup, dispatchVars, vars
<1> QED
  BY <1>1, <1>2, <1>3, <1>4, Steps

\* What is gone stays gone once the registry is closed.
LEMMA GoneStays ==
    ASSUME TypeOK, state = "closed", [Next]_vars
    PROVE  \A d \in Ids : ResourceGone(d) => ResourceGone(d)'
<1> USE DEF ResourceGone
<1>1. CASE UNCHANGED resource
  BY <1>1
<1>2. ASSUME NEW d \in Ids, ResourceStep(d) PROVE \A e \in Ids : ResourceGone(e) => ResourceGone(e)'
  BY <1>2 DEF ResourceStep, Bind, CloseResource, TypeOK, DispatchTypes
<1>3. ASSUME NEW d \in Ids, ScopeEnd(d) PROVE \A e \in Ids : ResourceGone(e) => ResourceGone(e)'
  BY <1>1, <1>3, EndsKeep DEF EndStartClose, StartBoundResourceClose, TypeOK, DispatchTypes
<1>4. ASSUME NEW c \in Callers, CallerStep(c)
      PROVE  \A e \in Ids : ResourceGone(e) => ResourceGone(e)'
  BY <1>4, CallersResources DEF TypeOK
<1> QED
  BY <1>1, <1>2, <1>3, <1>4, Steps, OwnersKeep, SinksKeep, ObserversKeep DEF vars

\* Nothing is installed any more once the registry is closed, and what left it
\* does not come back.
LEMMA EmptyStays ==
    ASSUME TypeOK, pending = {}, scopes = {}, state = "closed", [Next]_vars
    PROVE  pending' = {} /\ scopes' = {}
<1>1. ~BeginDispatch /\ ~\E d \in Ids : DispatchOwner(d)
  BY DEF BeginDispatch, DispatchOwner, EndPending, Install
<1>2. ASSUME NEW d \in Ids, ResourceStep(d) \/ ScopeEnd(d)
      PROVE  pending' = {} /\ scopes' = {}
  BY <1>2, ResourcesKeep, EndsKeep DEF EndRemove, dispatchVars
<1> QED
  BY <1>1, <1>2, Steps, SinksKeep, ObserversKeep, CallersKeep DEF dispatchVars, vars

\* An empty registry has no resource left.
LEMMA EmptyIsGone ==
    ASSUME TypeOK, Lifecycle, scopes = {}
    PROVE  AllGone
  BY DEF Lifecycle, ClosedBeforeRelease, Released, ResourceGone, AllGone, TypeOK,
         DispatchTypes

\* Steps outside Drain, Close and WaitPending keep the accounts of Drain and Close.
LEMMA OthersKeepShutdown ==
    ASSUME TypeOK, Lifecycle, Shutdown, [Next]_vars, ~\E c \in Callers : CallerStep(c)
    PROVE  Shutdown'
<1>1. UNCHANGED <<state, pc, closeStarted, closeLeft, closeAt, closeDone>>
  BY OthersKeepCallers DEF closeVars
<1>2. UNCHANGED Closers
  BY <1>1 DEF Closers
<1>3. state = "closed" => \A d \in Ids : ResourceGone(d) => ResourceGone(d)'
  BY GoneStays
<1>4. state = "closed" /\ pending = {} /\ scopes = {} => pending' = {} /\ scopes' = {}
  BY EmptyStays
<1> QED
  BY <1>1, <1>2, <1>3, <1>4 DEF Shutdown, AllGone

\* A caller that moves between positions the accounts do not mention keeps them.
LEMMA PlainMoves ==
    ASSUME TypeOK, Shutdown, NEW c \in Callers, CallerStep(c),
           pc' = pc \/ \E p \in {"drainRefused", "drainSnap", "drainCancel", "drainCheck",
                                 "drainParked", "drainExpired", "closeJoin", "pendCheck",
                                 "pendParked", "pendClear", "pendExpired"} :
                         pc' = [pc EXCEPT ![c] = p],
           state' = state \/ (state # "closed" /\ state' # "closed"),
           UNCHANGED closeVars
    PROVE  Shutdown'
<1>1. UNCHANGED <<pending, scopes, closeStarted, closeLeft, closeAt, closeDone>>
  BY CallersKeep DEF dispatchVars, closeVars
<1>2. \A d \in Ids : ResourceGone(d) => ResourceGone(d)'
  BY CallersResources DEF TypeOK, ResourceGone
<1>3. \A x \in Callers : \/ pc'[x] = pc[x]
                         \/ pc'[x] \notin {"drained", "closeSwap", "closeSnap", "closing",
                                           "closed"}
  BY DEF TypeOK, CallerTypes
<1>4. Closers' \subseteq Closers
  BY <1>3 DEF Closers
<1>5. state' = "closed" <=> state = "closed"
  OBVIOUS
<1>6. /\ Closers' # {} => closeStarted' /\ ~closeDone'
      /\ \A b, e \in Closers' : b = e
  BY <1>1, <1>4 DEF Shutdown
<1>7. \A x \in Callers :
        /\ pc'[x] = "drained" => pending' = {} /\ scopes' = {} /\ state' = "closed"
        /\ pc'[x] \in {"closeSnap", "closing"} => state' = "closed"
        /\ pc'[x] = "closing" =>
             \A d \in Ids : ResourceGone(d)' \/ d \in closeLeft' \/ d = closeAt'
        /\ pc'[x] = "closed" => state' = "closed" /\ AllGone'
  BY <1>1, <1>2, <1>3, <1>5 DEF Shutdown, AllGone
<1> QED
  BY <1>1, <1>2, <1>5, <1>6, <1>7 DEF Shutdown, AllGone

\* Drain and WaitPending: only the check that finds the registry empty closes it.
LEMMA DrainsKeepShutdown ==
    ASSUME TypeOK, Lifecycle, Shutdown, NEW c \in Callers,
           \/ DrainStart(c) \/ DrainStep(c) \/ DrainExpire(c)
           \/ WaitPendingStart(c) \/ WaitPendingStep(c) \/ WaitPendingExpire(c)
    PROVE  Shutdown'
<1> USE DEF CallerStep
<1>1. CASE DrainStart(c)
  BY <1>1, PlainMoves DEF DrainStart
<1>2. CASE DrainCheck(c)
  <2>1. CASE pending = {} /\ scopes = {}
    <3>1. /\ state' = "closed"
          /\ pc' = [pc EXCEPT ![c] = "drained"]
          /\ UNCHANGED <<pending, scopes, resource, closeStarted, closeLeft, closeAt,
                         closeDone>>
      BY <1>2, <2>1 DEF DrainCheck, dispatchVars, closeVars
    <3>2. \A x \in Callers : pc'[x] = pc[x] \/ pc'[x] = "drained"
      BY <3>1 DEF TypeOK, CallerTypes
    <3>3. Closers' \subseteq Closers
      BY <3>2 DEF Closers
    <3>4. AllGone /\ UNCHANGED AllGone
      BY <2>1, <3>1, EmptyIsGone DEF AllGone, ResourceGone
    <3> QED
      BY <2>1, <3>1, <3>2, <3>3, <3>4 DEF Shutdown, AllGone
  <2>2. CASE ~(pending = {} /\ scopes = {})
    BY <1>2, <2>2, PlainMoves DEF DrainCheck, DrainStep
  <2> QED
    BY <2>1, <2>2
<1>3. CASE DrainSnapshot(c) \/ (\E d \in Ids : DrainCancel(c, d)) \/ DrainCancelled(c)
           \/ DrainWake(c) \/ DrainExpire(c)
  BY <1>3, PlainMoves DEF DrainStep, DrainSnapshot, DrainCancel, DrainCancelled,
                          DrainWake, DrainExpire
<1>4. CASE WaitPendingStart(c) \/ WaitPendingStep(c) \/ WaitPendingExpire(c)
  BY <1>4, PlainMoves DEF WaitPendingStart, WaitPendingStep, WaitPendingExpire,
                          WaitPendingCheck, WaitPendingWake
<1> QED
  BY <1>1, <1>2, <1>3, <1>4 DEF DrainStep

\* Close: the first caller becomes the Close, the others join it.
LEMMA CloseStartKeepsShutdown ==
    ASSUME TypeOK, Shutdown, NEW c \in Callers, CloseStart(c)
    PROVE  Shutdown'
<1>1. UNCHANGED <<state, pending, scopes, resource, closeLeft, closeAt, closeDone>>
  BY DEF CloseStart, dispatchVars
<1>2. UNCHANGED AllGone /\ \A d \in Ids : UNCHANGED ResourceGone(d)
  BY <1>1 DEF AllGone, ResourceGone
<1>3. CASE closeStarted
  <2>1. closeStarted' = closeStarted
    BY <1>3 DEF CloseStart, TypeOK, CallerTypes
  <2>2. UNCHANGED closeVars
    BY <1>1, <2>1 DEF closeVars
  <2>3. pc' = [pc EXCEPT ![c] = "closeJoin"]
    BY <1>3 DEF CloseStart
  <2> QED
    BY <1>1, <2>2, <2>3, PlainMoves DEF CallerStep
<1>4. CASE ~closeStarted /\ state = "closed"
  <2>1. pc' = [pc EXCEPT ![c] = "closed"] /\ ~closeStarted'
    BY <1>4 DEF CloseStart
  <2>2. \A x \in Callers : pc'[x] = pc[x] \/ pc'[x] = "closed"
    BY <2>1 DEF TypeOK, CallerTypes
  <2>3. Closers' \subseteq Closers
    BY <2>2 DEF Closers
  <2> QED
    BY <1>1, <1>2, <1>4, <2>1, <2>2, <2>3 DEF Shutdown
<1>5. CASE ~closeStarted /\ state # "closed"
  <2>1. pc' = [pc EXCEPT ![c] = "closeSwap"] /\ closeStarted' = TRUE
    BY <1>5 DEF CloseStart
  <2>2. Closers = {} /\ ~closeDone
    BY <1>5 DEF Shutdown
  <2>3. \A x \in Callers : x # c => pc'[x] = pc[x]
    BY <2>1 DEF TypeOK, CallerTypes
  <2>4. pc'[c] = "closeSwap"
    BY <2>1 DEF TypeOK, CallerTypes
  <2>5. Closers' \subseteq {c}
    BY <2>2, <2>3 DEF Closers
  <2> QED
    BY <1>1, <1>2, <1>5, <2>1, <2>2, <2>3, <2>4, <2>5 DEF Shutdown
<1> QED
  BY <1>3, <1>4, <1>5

\* Close, past its start: it works on what was installed when the registry closed.
LEMMA CloseKeepsShutdown ==
    ASSUME TypeOK, Lifecycle, Shutdown, NEW c \in Callers, CloseStep(c)
    PROVE  Shutdown'
<1>1. \A d \in Ids : ResourceGone(d) => ResourceGone(d)'
  BY CallersResources DEF CallerStep, TypeOK, ResourceGone
<1>2. UNCHANGED <<pending, scopes>>
  BY CallersKeep DEF CallerStep, dispatchVars
<1>3. AllGone => AllGone'
  BY <1>1 DEF AllGone
<1>4. CASE CloseSwap(c)
  <2>1. /\ pc' = [pc EXCEPT ![c] = "closeSnap"] /\ state' = "closed"
        /\ UNCHANGED <<closeStarted, closeLeft, closeAt, closeDone>>
    BY <1>4 DEF CloseSwap, closeVars
  <2>2. \A x \in Callers : pc'[x] = IF x = c THEN "closeSnap" ELSE pc[x]
    BY <2>1 DEF TypeOK, CallerTypes
  <2>3. Closers' = Closers /\ c \in Closers
    BY <1>4, <2>2 DEF Closers, CloseSwap
  <2> QED
    BY <1>1, <1>2, <1>3, <2>1, <2>2, <2>3 DEF Shutdown
<1>5. CASE CloseSnapshot(c)
  <2>1. /\ pc' = [pc EXCEPT ![c] = "closing"]
        /\ closeLeft' = scopes
        /\ UNCHANGED <<state, resource, closeStarted, closeAt, closeDone>>
    BY <1>5 DEF CloseSnapshot
  <2>2. \A x \in Callers : pc'[x] = IF x = c THEN "closing" ELSE pc[x]
    BY <2>1 DEF TypeOK, CallerTypes
  <2>3. Closers' = Closers /\ c \in Closers /\ state = "closed"
    BY <1>5, <2>2 DEF Closers, CloseSnapshot, Shutdown
  <2>4. \A d \in Ids : ResourceGone(d) \/ d \in scopes
    BY DEF Lifecycle, ClosedBeforeRelease, Released, ResourceGone, TypeOK, DispatchTypes
  <2>5. \A d \in Ids : ResourceGone(d)' \/ d \in closeLeft'
    BY <1>1, <2>1, <2>4
  <2> QED
    BY <1>1, <1>2, <1>3, <2>1, <2>2, <2>3, <2>5 DEF Shutdown
<1>6. ASSUME NEW d \in Ids, CloseNext(c, d) PROVE Shutdown'
  <2>1. UNCHANGED <<state, pc, closeStarted, closeDone>>
    BY <1>6 DEF CloseNext
  <2>2. Closers' = Closers /\ c \in Closers
    BY <1>6, <2>1 DEF Closers, CloseNext
  <2>3. \A e \in Ids : ResourceGone(e) \/ e \in closeLeft
    BY <1>6 DEF CloseNext, Shutdown, Ids
  <2>4. ResourceGone(d)' \/ closeAt' = d
    BY <1>6, <1>1 DEF CloseNext, HasCloseDone, ResourceGone, TypeOK, DispatchTypes
  <2>5. \A e \in Ids : ResourceGone(e)' \/ e \in closeLeft' \/ e = closeAt'
    BY <1>1, <1>6, <2>3, <2>4 DEF CloseNext
  <2> QED
    BY <1>1, <1>2, <1>3, <2>1, <2>2, <2>5 DEF Shutdown
<1>7. CASE CloseAwait(c)
  <2>1. UNCHANGED <<state, pc, resource, closeStarted, closeLeft, closeDone>>
    BY <1>7 DEF CloseAwait
  <2>2. Closers' = Closers
    BY <2>1 DEF Closers
  <2>3. closeAt \in Ids /\ ResourceGone(closeAt)
    BY <1>7 DEF CloseAwait, ResourceGone, TypeOK, CallerTypes
  <2>4. \A e \in Ids : ResourceGone(e)' \/ e \in closeLeft'
    BY <1>1, <1>7, <2>1, <2>3 DEF CloseAwait, Shutdown
  <2> QED
    BY <1>1, <1>2, <1>3, <2>1, <2>2, <2>4 DEF Shutdown
<1>8. CASE CloseReturn(c)
  <2>1. /\ pc' = [pc EXCEPT ![c] = "closed"] /\ closeDone' = TRUE
        /\ UNCHANGED <<state, resource, closeStarted, closeLeft, closeAt>>
    BY <1>8 DEF CloseReturn
  <2>2. \A x \in Callers : pc'[x] = IF x = c THEN "closed" ELSE pc[x]
    BY <2>1 DEF TypeOK, CallerTypes
  <2>3. c \in Closers /\ state = "closed" /\ closeStarted
    BY <1>8 DEF CloseReturn, Closers, Shutdown
  <2>4. AllGone
    BY <1>8 DEF CloseReturn, Shutdown, AllGone, Ids
  <2>5. Closers' = {}
    BY <2>2, <2>3 DEF Closers, Shutdown
  <2> QED
    BY <1>2, <1>3, <2>1, <2>2, <2>3, <2>4, <2>5 DEF Shutdown, Closers
<1>9. CASE CloseJoined(c)
  <2>1. /\ pc' = [pc EXCEPT ![c] = "closed"]
        /\ UNCHANGED <<state, resource, closeStarted, closeLeft, closeAt, closeDone>>
    BY <1>9 DEF CloseJoined, closeVars
  <2>2. \A x \in Callers : pc'[x] = IF x = c THEN "closed" ELSE pc[x]
    BY <2>1 DEF TypeOK, CallerTypes
  <2>3. state = "closed" /\ AllGone
    BY <1>9 DEF CloseJoined, Shutdown
  <2>4. Closers' \subseteq Closers
    BY <2>2 DEF Closers
  <2> QED
    BY <1>1, <1>2, <1>3, <2>1, <2>2, <2>3, <2>4 DEF Shutdown
<1> QED
  BY <1>4, <1>5, <1>6, <1>7, <1>8, <1>9 DEF CloseStep

\* Every step keeps the accounts of Drain and Close.
LEMMA ShutdownStep ==
    ASSUME TypeOK, Lifecycle, Shutdown, [Next]_vars
    PROVE  Shutdown'
<1>1. ASSUME NEW c \in Callers, CallerStep(c) PROVE Shutdown'
  BY <1>1, DrainsKeepShutdown, CloseStartKeepsShutdown, CloseKeepsShutdown DEF CallerStep
<1> QED
  BY <1>1, OthersKeepShutdown

\* Dispatches get ever larger ids, and only a new one becomes pending.
LEMMA PendingGrows ==
    ASSUME DispatchTypes, [Next]_vars
    PROVE  next <= next' /\ \A d \in pending' : d \in pending \/ d > next
<1>1. CASE BeginDispatch
  BY <1>1 DEF BeginDispatch, DispatchTypes
<1>2. CASE next' = next /\ pending' \subseteq pending
  BY <1>2 DEF DispatchTypes
<1>3. ASSUME NEW d \in Ids, DispatchOwner(d)
      PROVE  next' = next /\ pending' \subseteq pending
  BY <1>3 DEF DispatchOwner, EndPending, Install
<1> QED
  BY <1>1, <1>2, <1>3, Steps, ResourcesKeep, EndsKeep, SinksKeep, ObserversKeep,
     CallersKeep DEF dispatchVars, vars

\* What has finished stays finished.
LEMMA FinishedStays ==
    ASSUME DispatchTypes, [Next]_vars, NEW d \in Ids, d <= next, Finished(d)
    PROVE  Finished(d)'
<1>1. d \notin pending'
  BY PendingGrows DEF Finished, DispatchTypes, Ids
<1>2. stage'[d] = stage[d]
  <2>1. CASE UNCHANGED stage
    BY <2>1
  <2>2. ASSUME NEW e \in Ids, DispatchOwner(e) PROVE stage'[d] = stage[d]
    BY <2>2 DEF DispatchOwner, EndPending, Install, Finished, DispatchTypes
  <2>3. ASSUME NEW e \in Ids, ScopeEnd(e) PROVE stage'[d] = stage[d]
    BY <2>3 DEF ScopeEnd, EndDeactivate, EndStartClose, EndAwaitClose, EndMark,
                EndReport, EndRemove, Finished, DispatchTypes
  <2>4. BeginDispatch => UNCHANGED stage
    BY DEF BeginDispatch
  <2> QED
    BY <2>1, <2>2, <2>3, <2>4, Steps, ResourcesKeep, SinksKeep, ObserversKeep,
       CallersKeep DEF vars
<1> QED
  BY <1>1, <1>2 DEF Finished

\* Every step keeps the barriers complete.
LEMMA BarrierStep ==
    ASSUME TypeOK, Lifecycle, Barriers, [Next]_vars
    PROVE  Barriers'
<1>1. /\ next \in Nat /\ next' \in Nat
      /\ observedBarrier \in 0..MaxBarrier /\ publishedBarrier \in 0..MaxBarrier
      /\ begunAt \in [0..MaxBarrier -> 0..MaxDispatches]
  BY DispatchTypesStep DEF TypeOK, DispatchTypes, BarrierTypes
<1>2. CASE UNCHANGED barrierVars
  <2>1. UNCHANGED <<observedBarrier, pendingBarrierSequence, publishedBarrier, begunAt,
                    freeze>>
    BY <1>2 DEF barrierVars
  <2>2. \A b \in 0..MaxBarrier : begunAt'[b] <= next'
    BY <1>1, <2>1, PendingGrows DEF Barriers, TypeOK
  <2>3. \A d \in pending' : d > begunAt[publishedBarrier]
    <3>1. begunAt[publishedBarrier] <= next /\ begunAt[publishedBarrier] \in Nat
      BY <1>1 DEF Barriers
    <3>2. \A d \in pending' : d \in Nat /\ (d \in pending \/ d > next)
      BY PendingGrows, DispatchTypesStep DEF TypeOK, DispatchTypes, Ids
    <3> QED
      BY <1>1, <3>1, <3>2 DEF Barriers
  <2>4. BarrierComplete'
    <3> SUFFICES ASSUME NEW d \in 1..begunAt[freeze.barrier], d \notin freeze.executions
                 PROVE  Finished(d)'
      BY <2>1 DEF BarrierComplete
    <3>1. d \in Ids /\ d <= next
      BY <1>1, BoundsAssumption DEF Barriers, Ids
    <3> QED
      BY <3>1, FinishedStays DEF Barriers, BarrierComplete, TypeOK
  <2> QED
    BY <2>1, <2>2, <2>3, <2>4 DEF Barriers
<1>3. ASSUME NEW b \in 1..MaxBarrier, ObserveBarrier(b) PROVE Barriers'
  <2>1. /\ b > observedBarrier /\ observedBarrier' = b
        /\ pendingBarrierSequence' = next
        /\ begunAt' = [begunAt EXCEPT ![b] = next]
        /\ UNCHANGED <<next, pending, stage, publishedBarrier, freeze>>
    BY <1>3 DEF ObserveBarrier, dispatchVars
  <2>2. publishedBarrier # b /\ publishedBarrier <= b
    BY <1>1, <2>1 DEF Barriers
  <2>3. begunAt'[b] = next /\ \A e \in 0..MaxBarrier : e # b => begunAt'[e] = begunAt[e]
    BY <1>1, <2>1
  <2>4. BarrierComplete'
    BY <1>1, <2>1, <2>2, <2>3 DEF Barriers, BarrierComplete, Finished
  <2> QED
    BY <1>1, <2>1, <2>2, <2>3, <2>4 DEF Barriers
<1>4. CASE FreezeInFlight
  <2>1. /\ freeze'.barrier = publishedBarrier'
        /\ freeze'.executions = scopes
        /\ UNCHANGED <<next, pending, scopes, stage, observedBarrier,
                       pendingBarrierSequence, begunAt>>
    BY <1>4 DEF FreezeInFlight, dispatchVars
  <2>2. /\ publishedBarrier' \in {publishedBarrier, observedBarrier}
        /\ \A d \in pending : d > begunAt[publishedBarrier']
    <3>1. CASE publishedBarrier' = publishedBarrier
      BY <3>1 DEF Barriers
    <3>2. CASE publishedBarrier' # publishedBarrier
      BY <1>1, <1>4, <3>2 DEF FreezeInFlight, BarrierBlocked, Barriers, TypeOK,
                              DispatchTypes, BarrierTypes, Ids
    <3> QED
      BY <3>1, <3>2
  <2>3. BarrierComplete'
    <3> SUFFICES ASSUME NEW d \in 1..begunAt[publishedBarrier'], d \notin scopes
                 PROVE  Finished(d)
      BY <2>1 DEF BarrierComplete, Finished
    <3>1. d \in Ids /\ d \notin pending
      BY <1>1, <2>2, BoundsAssumption DEF Ids
    <3> QED
      BY <3>1 DEF Finished, Lifecycle
  <2> QED
    BY <1>1, <2>1, <2>2, <2>3 DEF Barriers
<1>5. ObserverStep \/ UNCHANGED barrierVars
  BY Steps, OwnersKeep, ResourcesKeep, EndsKeep, SinksKeep, CallersKeep DEF vars
<1> QED
  BY <1>2, <1>3, <1>4, <1>5 DEF ObserverStep

-----------------------------------------------------------------------------
(* Releases and the sinks that hear of them *)

\* A call of a sink raises one entry of what it heard, and no higher than told.
LEMMA HearIs ==
    ASSUME heard \in [Sinks -> [Groups -> Nat]],
           NEW s \in Sinks, NEW g \in Groups, NEW n \in Nat, Hear(s, g, n)
    PROVE  /\ heard'[s][g] >= n
           /\ \A t \in Sinks, h \in Groups :
                /\ heard'[t][h] >= heard[t][h]
                /\ heard'[t][h] \in {heard[t][h], n}
                /\ t # s \/ h # g => heard'[t][h] = heard[t][h]
  BY DEF Hear, Larger

\* Steps outside EndMark, EndReport and the sink operations leave the reports
\* alone: a scope is released, and accounted, after them if it was before.
LEMMA OthersKeepReports ==
    ASSUME TypeOK, Lifecycle, [Next]_vars,
           ~\E d \in Ids : EndMark(d) \/ EndReport(d), ~SinkStep
    PROVE  /\ UNCHANGED releaseVars
           /\ \A d \in Ids : /\ stage'[d] \in Released <=> stage[d] \in Released
                             /\ stage'[d] = "marked" <=> stage[d] = "marked"
                             /\ stage[d] \in Released => spec'[d] = spec[d]
<1>1. CASE BeginDispatch
  BY <1>1, OwnersKeep DEF BeginDispatch
<1>2. ASSUME NEW e \in Ids, DispatchOwner(e)
      PROVE  /\ UNCHANGED releaseVars
             /\ \A d \in Ids : /\ stage'[d] \in Released <=> stage[d] \in Released
                               /\ stage'[d] = "marked" <=> stage[d] = "marked"
                               /\ stage[d] \in Released => spec'[d] = spec[d]
  <2>1. stage[e] = "none"
    BY <1>2 DEF DispatchOwner, EndPending, Install, Lifecycle
  <2>2. \/ UNCHANGED <<stage, spec>>
        \/ \E sp : /\ stage' = [stage EXCEPT ![e] = "open"]
                   /\ spec' = [spec EXCEPT ![e] = sp]
    BY <1>2 DEF DispatchOwner, EndPending, Install
  <2>3. UNCHANGED releaseVars
    BY <1>2, OwnersKeep
  <2> QED
    BY <2>1, <2>2, <2>3 DEF Released, TypeOK, DispatchTypes
<1>3. ASSUME NEW e \in Ids, ScopeEnd(e)
      PROVE  /\ UNCHANGED <<releaseVars, spec>>
             /\ \A d \in Ids : /\ stage'[d] \in Released <=> stage[d] \in Released
                               /\ stage'[d] = "marked" <=> stage[d] = "marked"
  <2>1. UNCHANGED <<releaseVars, spec>>
    BY <1>3, EndsKeep
  <2> QED
    BY <1>3, <2>1 DEF ScopeEnd, EndDeactivate, EndStartClose, EndAwaitClose, EndRemove,
                      Released, TypeOK, DispatchTypes
<1>4. CASE \/ \E d \in Ids : ResourceStep(d)
           \/ ObserverStep
           \/ \E c \in Callers : CallerStep(c)
           \/ UNCHANGED vars
  BY <1>4, ResourcesKeep, ObserversKeep, CallersKeep DEF dispatchVars, vars
<1> QED
  BY <1>1, <1>2, <1>3, <1>4, Steps

\* EndMark on an accounted scope: the next sequence of its group is its own.
LEMMA MarkIs ==
    ASSUME TypeOK, NEW d \in Ids, EndMark(d), spec[d] # Unaccounted
    PROVE  /\ spec[d] \in Groups
           /\ releaseSequences' = [releaseSequences EXCEPT
                                     ![spec[d]] = releaseSequences[spec[d]] + 1]
           /\ report' = [report EXCEPT
                           ![d] = [sink |-> releaseSink,
                                   seq |-> releaseSequences[spec[d]] + 1]]
           /\ stage[d] = "quiet"
           /\ stage' = [stage EXCEPT ![d] = IF releaseSink = NoSink THEN "reported"
                                                                     ELSE "marked"]
           /\ UNCHANGED <<spec, releaseSink, replays, heard>>
  BY DEF EndMark, TypeOK, DispatchTypes, dispatchVars

\* EndMark on a scope Home does not account: nothing to report.
LEMMA MarkSkips ==
    ASSUME NEW d \in Ids, EndMark(d), spec[d] = Unaccounted
    PROVE  /\ stage[d] = "quiet"
           /\ stage' = [stage EXCEPT ![d] = "reported"]
           /\ UNCHANGED <<spec, releaseVars>>
  BY DEF EndMark, dispatchVars, releaseVars

\* The report of a marked scope goes to a sink, for a group.
LEMMA MarkedReports ==
    ASSUME TypeOK, Reports, NEW d \in Ids, stage[d] = "marked"
    PROVE  /\ report[d].sink \in Sinks /\ spec[d] \in Groups
           /\ report[d].seq \in Nat
           /\ report[d].seq <= releaseSequences[spec[d]]
<1>1. spec[d] # Unaccounted
  BY DEF Reports, ReportOf, Released
<1>2. spec[d] \in Groups /\ report[d] \in [sink : Sinks \union {NoSink}, seq : Nat]
  BY <1>1 DEF TypeOK, DispatchTypes, ReleaseTypes
<1>3. report[d].sink # NoSink /\ report[d].seq \in 1..releaseSequences[spec[d]]
  BY <1>1 DEF Reports, ReportOf, Released
<1> QED
  BY <1>2, <1>3 DEF TypeOK, ReleaseTypes

\* EndMark counts a release above all earlier ones of the group.
LEMMA MarkKeepsReports ==
    ASSUME TypeOK, Reports, NEW d \in Ids, EndMark(d)
    PROVE  Reports'
<1>1. CASE spec[d] = Unaccounted
  <2>1. /\ \A e \in Ids : stage'[e] = IF e = d THEN "reported" ELSE stage[e]
        /\ UNCHANGED <<spec, report, releaseSequences, replays, heard>>
    BY <1>1, MarkSkips DEF releaseVars, TypeOK, DispatchTypes
  <2>2. \A e \in Ids : ReportOf(e)'
    BY <1>1, <2>1 DEF Reports, ReportOf
  <2> QED
    BY <2>1, <2>2 DEF Reports
<1>2. CASE spec[d] # Unaccounted
  <2>1. \A g \in Groups : /\ releaseSequences[g] \in Nat /\ releaseSequences'[g] \in Nat
                          /\ releaseSequences[g] <= releaseSequences'[g]
    <3>1. releaseSequences \in [Groups -> Nat]
      BY DEF TypeOK, ReleaseTypes
    <3>2. releaseSequences' = [releaseSequences EXCEPT
                                 ![spec[d]] = releaseSequences[spec[d]] + 1]
      BY <1>2, MarkIs
    <3> QED
      BY <3>1, <3>2
  <2>2. UNCHANGED <<spec, heard, replays>>
    BY <1>2, MarkIs
  <2>3. ASSUME NEW e \in Ids, e # d PROVE ReportOf(e)'
    <3>1. stage'[e] = stage[e] /\ report'[e] = report[e]
      BY <1>2, <2>3, MarkIs DEF TypeOK, DispatchTypes, ReleaseTypes
    <3>2. spec[e] \in Groups \union {Unaccounted} /\ report[e].seq \in Nat
      BY DEF TypeOK, DispatchTypes, ReleaseTypes
    <3>3. spec[e] # Unaccounted /\ report[e].seq \in 1..releaseSequences[spec[e]]
            => report[e].seq \in 1..releaseSequences'[spec[e]]
      BY <2>1, <3>2
    <3> QED
      BY <2>2, <3>1, <3>3 DEF Reports, ReportOf
  <2>4. ReportOf(d)'
    <3>1. /\ stage'[d] \in Released
          /\ stage'[d] = "marked" <=> report'[d].sink # NoSink
          /\ report'[d].seq = releaseSequences[spec[d]] + 1
          /\ releaseSequences'[spec[d]] = releaseSequences[spec[d]] + 1
      BY <1>2, MarkIs DEF Released, TypeOK, DispatchTypes, ReleaseTypes
    <3> QED
      BY <1>2, <2>1, <2>2, <3>1, MarkIs DEF ReportOf
  <2>5. \A r \in replays : r.seq \in Nat /\ r.group \in Groups
    BY DEF TypeOK, ReleaseTypes
  <2>6. \A s \in Sinks, g \in Groups : heard[s][g] \in Nat
    BY DEF TypeOK, ReleaseTypes
  <2>7. \A r \in replays : r.seq <= releaseSequences'[r.group]
    BY <2>1, <2>5 DEF Reports
  <2>8. \A s \in Sinks, g \in Groups : heard[s][g] <= releaseSequences'[g]
    BY <2>1, <2>6 DEF Reports
  <2> QED
    BY <2>2, <2>3, <2>4, <2>7, <2>8 DEF Reports
<1> QED
  BY <1>1, <1>2

\* A call of a sink with a sequence of the group keeps what was reported heard.
LEMMA HearKeepsReports ==
    ASSUME TypeOK, Reports, NEW s \in Sinks, NEW g \in Groups, NEW n \in Nat,
           n <= releaseSequences[g], Hear(s, g, n),
           UNCHANGED <<spec, report, releaseSequences>>
    PROVE  /\ \A t \in Sinks, h \in Groups : heard'[t][h] <= releaseSequences'[h]
           /\ \A d \in Ids : stage'[d] = stage[d] => ReportOf(d)'
<1>1. /\ heard \in [Sinks -> [Groups -> Nat]] /\ heard' \in [Sinks -> [Groups -> Nat]]
      /\ \A t \in Sinks, h \in Groups : /\ heard'[t][h] >= heard[t][h]
                                        /\ heard'[t][h] \in {heard[t][h], n}
                                        /\ t # s \/ h # g => heard'[t][h] = heard[t][h]
  BY HearIs, HearTypes DEF TypeOK, ReleaseTypes
<1>2. ASSUME NEW t \in Sinks, NEW h \in Groups
      PROVE  heard'[t][h] <= releaseSequences[h]
  BY <1>1 DEF Reports
<1>3. ASSUME NEW d \in Ids, stage'[d] = stage[d] PROVE ReportOf(d)'
  <2>1. CASE stage[d] \in Released /\ spec[d] # Unaccounted /\ report[d].sink # NoSink
    <3>1. spec[d] \in Groups /\ report[d].sink \in Sinks /\ report[d].seq \in Nat
      BY <2>1 DEF TypeOK, DispatchTypes, ReleaseTypes
    <3>2. heard[report[d].sink][spec[d]] \in Nat /\ heard'[report[d].sink][spec[d]] \in Nat
          /\ heard'[report[d].sink][spec[d]] >= heard[report[d].sink][spec[d]]
      BY <1>1, <3>1
    <3> QED
      BY <1>3, <2>1, <3>1, <3>2 DEF Reports, ReportOf
  <2>2. CASE ~(stage[d] \in Released /\ spec[d] # Unaccounted /\ report[d].sink # NoSink)
    BY <1>3, <2>2 DEF Reports, ReportOf
  <2> QED
    BY <2>1, <2>2
<1> QED
  BY <1>2, <1>3

\* Every step keeps the reports below the sequences, and heard once reported.
LEMMA ReportsStep ==
    ASSUME TypeOK, Lifecycle, Reports, [Next]_vars
    PROVE  Reports'
<1>1. CASE (~\E d \in Ids : EndMark(d) \/ EndReport(d)) /\ ~SinkStep
  <2>1. \A d \in Ids : ReportOf(d)'
    BY <1>1, OthersKeepReports DEF Reports, ReportOf, releaseVars
  <2> QED
    BY <1>1, <2>1, OthersKeepReports DEF Reports, releaseVars
<1>2. ASSUME NEW d \in Ids, EndReport(d) PROVE Reports'
  <2>1. /\ stage[d] = "marked" /\ stage' = [stage EXCEPT ![d] = "reported"]
        /\ Hear(report[d].sink, spec[d], report[d].seq)
        /\ UNCHANGED <<spec, report, releaseSequences, replays>>
    BY <1>2 DEF EndReport, dispatchVars
  <2>2. /\ report[d].sink \in Sinks /\ spec[d] \in Groups
        /\ report[d].seq \in Nat
        /\ report[d].seq <= releaseSequences[spec[d]]
    BY <2>1, MarkedReports
  <2>3. /\ \A t \in Sinks, h \in Groups : heard'[t][h] <= releaseSequences'[h]
        /\ \A e \in Ids : stage'[e] = stage[e] => ReportOf(e)'
    BY <2>1, <2>2, HearKeepsReports
  <2>4. \A e \in Ids : e # d => stage'[e] = stage[e]
    BY <2>1 DEF TypeOK, DispatchTypes
  <2>5. ReportOf(d)'
    <3>1. stage'[d] = "reported" /\ spec[d] # Unaccounted
      BY <2>1, <2>2, SentinelAssumption DEF TypeOK, DispatchTypes
    <3>2. heard'[report[d].sink][spec[d]] >= report[d].seq
      BY <2>1, <2>2, HearIs DEF TypeOK, ReleaseTypes
    <3>4. heard'[report[d].sink][spec[d]] \in Nat
      BY <2>1, <2>2, HearTypes DEF TypeOK, ReleaseTypes
    <3>3. report[d].seq \in 1..releaseSequences[spec[d]]
      BY <2>1, <3>1 DEF Reports, ReportOf, Released
    <3> QED
      BY <2>1, <2>2, <3>1, <3>2, <3>3, <3>4 DEF ReportOf, Released
  <2> QED
    BY <2>1, <2>3, <2>4, <2>5 DEF Reports
<1>3. ASSUME NEW s \in Sinks \union {NoSink}, SetReleaseSink(s) PROVE Reports'
  <2>1. UNCHANGED <<spec, stage, report, releaseSequences, heard>>
    BY <1>3 DEF SetReleaseSink, dispatchVars
  <2>2. \A d \in Ids : ReportOf(d)'
    BY <2>1 DEF Reports, ReportOf
  <2>3. ASSUME NEW r \in replays' PROVE r.seq <= releaseSequences[r.group]
    <3>1. \A g \in Groups : releaseSequences[g] \in Nat
      BY DEF TypeOK, ReleaseTypes
    <3>2. r \in replays \/ \E g \in Groups : r = [sink |-> s, group |-> g,
                                                 seq |-> releaseSequences[g]]
      BY <1>3, <2>3 DEF SetReleaseSink
    <3> QED
      BY <3>1, <3>2 DEF Reports
  <2> QED
    BY <2>1, <2>2, <2>3 DEF Reports
<1>4. ASSUME NEW r \in replays, ReplayRelease(r) PROVE Reports'
  <2>1. /\ Hear(r.sink, r.group, r.seq) /\ replays' = replays \ {r}
        /\ UNCHANGED <<spec, stage, report, releaseSequences>>
    BY <1>4 DEF ReplayRelease, dispatchVars
  <2>2. /\ r.sink \in Sinks /\ r.group \in Groups /\ r.seq \in Nat
        /\ r.seq <= releaseSequences[r.group]
    BY DEF TypeOK, ReleaseTypes, Reports
  <2>3. /\ \A t \in Sinks, h \in Groups : heard'[t][h] <= releaseSequences'[h]
        /\ \A d \in Ids : ReportOf(d)'
    BY <2>1, <2>2, HearKeepsReports
  <2> QED
    BY <2>1, <2>3 DEF Reports
<1> QED
  BY <1>1, <1>2, <1>3, <1>4, MarkKeepsReports DEF SinkStep

\* What a sink has not heard of a group is on its way to it.
Owed(s, g) ==
    LET n == releaseSequences[g] IN
    \/ heard[s][g] = n
    \/ [sink |-> s, group |-> g, seq |-> n] \in replays
    \/ \E d \in Ids : /\ stage[d] = "marked" /\ spec[d] = g
                      /\ report[d] = [sink |-> s, seq |-> n]

\* A call of a sink with no more than the group's sequence leaves it owed what it
\* was owed, unless the call itself delivers it.
LEMMA HearKeepsOwed ==
    ASSUME TypeOK, Reports, NEW t \in Sinks, NEW h \in Groups, NEW n \in Nat,
           n <= releaseSequences[h], Hear(t, h, n),
           UNCHANGED <<spec, report, releaseSequences>>,
           NEW s \in Sinks, NEW g \in Groups, Owed(s, g),
           \A r \in replays : r \in replays' \/ r = [sink |-> t, group |-> h, seq |-> n],
           \A d \in Ids : stage[d] = "marked" =>
             \/ stage'[d] = "marked"
             \/ spec[d] = h /\ report[d] = [sink |-> t, seq |-> n]
    PROVE  Owed(s, g)'
<1>1. /\ heard'[t][h] >= n
      /\ heard'[s][g] >= heard[s][g]
      /\ heard'[s][g] \in {heard[s][g], n}
      /\ t # s \/ h # g => heard'[s][g] = heard[s][g]
  BY HearIs DEF TypeOK, ReleaseTypes
<1>2. heard[s][g] \in Nat /\ releaseSequences[g] \in Nat /\ heard[s][g] <= releaseSequences[g]
  BY DEF TypeOK, ReleaseTypes, Reports
<1>3. CASE heard[s][g] = releaseSequences[g]
  <2>1. heard'[s][g] = releaseSequences[g]
    BY <1>1, <1>2, <1>3
  <2> QED
    BY <2>1 DEF Owed
<1>4. CASE s = t /\ g = h /\ n = releaseSequences[g]
  <2>1. heard'[s][g] = releaseSequences[g]
    BY <1>1, <1>2, <1>4
  <2> QED
    BY <2>1 DEF Owed
<1>5. CASE /\ [sink |-> s, group |-> g, seq |-> releaseSequences[g]] \in replays
           /\ ~(s = t /\ g = h /\ n = releaseSequences[g])
  BY <1>5 DEF Owed
<1>6. ASSUME NEW d \in Ids, stage[d] = "marked", spec[d] = g,
             report[d] = [sink |-> s, seq |-> releaseSequences[g]],
             ~(s = t /\ g = h /\ n = releaseSequences[g])
      PROVE  Owed(s, g)'
  BY <1>6 DEF Owed
<1> QED
  BY <1>3, <1>4, <1>5, <1>6 DEF Owed

\* EndMark owes the installed sink the release it counts.
LEMMA MarkKeepsOwed ==
    ASSUME TypeOK, SinkOwed, NEW d \in Ids, EndMark(d)
    PROVE  SinkOwed'
<1>1. stage[d] = "quiet" /\ UNCHANGED <<spec, heard, replays, releaseSink>>
  BY MarkSkips, MarkIs DEF releaseVars
<1> SUFFICES ASSUME NEW s \in Sinks, s = releaseSink, s # NoSink, NEW g \in Groups
             PROVE  Owed(s, g)'
  BY <1>1 DEF SinkOwed, Owed, TypeOK, ReleaseTypes
<1>2. Owed(s, g)
  BY DEF SinkOwed, Owed
<1>3. CASE spec[d] = g
  <2>1. spec[d] # Unaccounted
    BY <1>3, SentinelAssumption
  <2>2. /\ stage'[d] = "marked"
        /\ report'[d] = [sink |-> s, seq |-> releaseSequences[g] + 1]
        /\ releaseSequences'[g] = releaseSequences[g] + 1
    BY <1>3, <2>1, MarkIs DEF TypeOK, DispatchTypes, ReleaseTypes
  <2> QED
    BY <1>1, <1>3, <2>2 DEF Owed
<1>4. CASE spec[d] # g
  <2>1. releaseSequences'[g] = releaseSequences[g]
    BY <1>4, MarkSkips, MarkIs DEF releaseVars, TypeOK, ReleaseTypes
  <2>2. \A e \in Ids : e # d => stage'[e] = stage[e] /\ report'[e] = report[e]
    BY MarkSkips, MarkIs DEF releaseVars, TypeOK, DispatchTypes, ReleaseTypes
  <2> QED
    BY <1>1, <1>2, <2>1, <2>2 DEF Owed
<1> QED
  BY <1>3, <1>4

\* Every step keeps what the installed sink is owed.
LEMMA SinkOwedStep ==
    ASSUME TypeOK, Lifecycle, Reports, SinkOwed, [Next]_vars
    PROVE  SinkOwed'
<1>1. CASE (~\E d \in Ids : EndMark(d) \/ EndReport(d)) /\ ~SinkStep
  <2>1. /\ UNCHANGED <<report, releaseSequences, releaseSink, replays, heard>>
        /\ \A d \in Ids : stage[d] = "marked" => stage'[d] = "marked" /\ spec'[d] = spec[d]
    BY <1>1, OthersKeepReports DEF releaseVars, Released
  <2> QED
    BY <2>1 DEF SinkOwed
<1>2. ASSUME NEW d \in Ids, EndReport(d) PROVE SinkOwed'
  <2>1. /\ stage[d] = "marked" /\ stage' = [stage EXCEPT ![d] = "reported"]
        /\ Hear(report[d].sink, spec[d], report[d].seq)
        /\ UNCHANGED <<spec, report, releaseSequences, releaseSink, replays>>
    BY <1>2 DEF EndReport, dispatchVars
  <2>2. /\ report[d].sink \in Sinks /\ spec[d] \in Groups
        /\ report[d].seq \in Nat
        /\ report[d].seq <= releaseSequences[spec[d]]
    BY <2>1, MarkedReports
  <2>3. report[d] = [sink |-> report[d].sink, seq |-> report[d].seq]
    BY DEF TypeOK, ReleaseTypes
  <2>4. \A e \in Ids : e # d => stage'[e] = stage[e]
    BY <2>1 DEF TypeOK, DispatchTypes
  <2>5. ASSUME NEW s \in Sinks, s = releaseSink, s # NoSink, NEW g \in Groups
        PROVE  Owed(s, g)'
    <3>1. Owed(s, g)
      BY <2>5 DEF SinkOwed, Owed
    <3> QED
      BY <2>1, <2>2, <2>3, <2>4, <3>1, HearKeepsOwed
  <2> QED
    BY <2>1, <2>5 DEF SinkOwed, Owed, TypeOK, ReleaseTypes
<1>3. ASSUME NEW s \in Sinks \union {NoSink}, SetReleaseSink(s) PROVE SinkOwed'
  <2>1. releaseSink' = s /\ UNCHANGED <<spec, stage, report, releaseSequences, heard>>
    BY <1>3 DEF SetReleaseSink, dispatchVars
  <2>2. ASSUME s # NoSink, NEW g \in Groups
        PROVE  \/ heard[s][g] = releaseSequences[g]
               \/ [sink |-> s, group |-> g, seq |-> releaseSequences[g]] \in replays'
    <3>1. heard[s][g] \in Nat /\ releaseSequences[g] \in Nat
          /\ heard[s][g] <= releaseSequences[g]
      BY <2>2 DEF TypeOK, ReleaseTypes, Reports
    <3>2. CASE releaseSequences[g] > 0
      BY <1>3, <2>2, <3>2 DEF SetReleaseSink
    <3> QED
      BY <3>1, <3>2
  <2> QED
    BY <2>1, <2>2 DEF SinkOwed
<1>4. ASSUME NEW r \in replays, ReplayRelease(r) PROVE SinkOwed'
  <2>1. /\ Hear(r.sink, r.group, r.seq) /\ replays' = replays \ {r}
        /\ UNCHANGED <<spec, stage, report, releaseSequences, releaseSink>>
    BY <1>4 DEF ReplayRelease, dispatchVars
  <2>2. /\ r.sink \in Sinks /\ r.group \in Groups /\ r.seq \in Nat
        /\ r.seq <= releaseSequences[r.group]
        /\ r = [sink |-> r.sink, group |-> r.group, seq |-> r.seq]
    BY DEF TypeOK, ReleaseTypes, Reports
  <2>3. ASSUME NEW s \in Sinks, s = releaseSink, s # NoSink, NEW g \in Groups
        PROVE  Owed(s, g)'
    <3>1. Owed(s, g)
      BY <2>3 DEF SinkOwed, Owed
    <3> QED
      BY <2>1, <2>2, <3>1, HearKeepsOwed
  <2> QED
    BY <2>1, <2>3 DEF SinkOwed, Owed, TypeOK, ReleaseTypes
<1> QED
  BY <1>1, <1>2, <1>3, <1>4, MarkKeepsOwed DEF SinkStep

\* The scopes counted for a group.
Counted(g) == {d \in Ids : spec[d] = g /\ stage[d] \in Released}

\* One more scope counted is one more in the set.
LEMMA CountOneMore ==
    ASSUME NEW g \in Groups, NEW d \in Ids, d \notin Counted(g),
           Counted(g)' = Counted(g) \union {d}
    PROVE  Cardinality(Counted(g)') = Cardinality(Counted(g)) + 1
<1>1. IsFiniteSet(Ids)
  BY FS_Interval, BoundsAssumption DEF Ids
<1>2. IsFiniteSet(Counted(g))
  BY <1>1, FS_Subset DEF Counted
<1> QED
  BY <1>2, FS_AddElement

\* Every step keeps each group's sequence equal to the releases counted for it.
LEMMA CountedStep ==
    ASSUME TypeOK, Lifecycle, Reports, CountedOnce, [Next]_vars
    PROVE  CountedOnce'
<1>1. CASE (~\E d \in Ids : EndMark(d) \/ EndReport(d)) /\ ~SinkStep
  <2>1. /\ UNCHANGED <<report, releaseSequences>>
        /\ \A d \in Ids : /\ stage'[d] \in Released <=> stage[d] \in Released
                          /\ stage[d] \in Released => spec'[d] = spec[d]
    BY <1>1, OthersKeepReports DEF releaseVars
  <2>2. \A g \in Groups : Counted(g)' = Counted(g)
    BY <2>1 DEF Counted
  <2> QED
    BY <2>1, <2>2 DEF CountedOnce, Counted
<1>2. CASE SinkStep \/ \E d \in Ids : EndReport(d)
  <2>1. /\ UNCHANGED <<spec, report, releaseSequences>>
        /\ \A d \in Ids : stage'[d] \in Released <=> stage[d] \in Released
    BY <1>2, SinksKeep DEF EndReport, Released, dispatchVars, TypeOK, DispatchTypes
  <2>2. \A g \in Groups : Counted(g)' = Counted(g)
    BY <2>1 DEF Counted
  <2> QED
    BY <2>1, <2>2 DEF CountedOnce, Counted
<1>3. ASSUME NEW d \in Ids, EndMark(d), spec[d] = Unaccounted PROVE CountedOnce'
  <2>1. /\ UNCHANGED <<spec, report, releaseSequences>>
        /\ \A e \in Ids : e # d => stage'[e] = stage[e]
    BY <1>3, MarkSkips DEF releaseVars, TypeOK, DispatchTypes
  <2>2. \A g \in Groups : Counted(g)' = Counted(g)
    BY <1>3, <2>1, SentinelAssumption, MarkSkips DEF Counted, Released
  <2> QED
    BY <1>3, <2>1, <2>2 DEF CountedOnce, Counted
<1>4. ASSUME NEW d \in Ids, EndMark(d), spec[d] # Unaccounted PROVE CountedOnce'
  <2> DEFINE h == spec[d]
             n == releaseSequences[h] + 1
  <2>1. /\ h \in Groups /\ spec' = spec
        /\ releaseSequences' = [releaseSequences EXCEPT ![h] = n]
        /\ stage[d] \notin Released /\ stage'[d] \in Released
        /\ report'[d].seq = n
        /\ \A e \in Ids : e # d => stage'[e] = stage[e] /\ report'[e] = report[e]
    BY <1>4, MarkIs DEF Released, TypeOK, DispatchTypes, ReleaseTypes
  <2>2. ASSUME NEW g \in Groups
        PROVE  releaseSequences'[g] = Cardinality(Counted(g)')
    <3>1. releaseSequences[g] = Cardinality(Counted(g))
      BY DEF CountedOnce, Counted
    <3>2. CASE g = h
      <4>1. Counted(g)' = Counted(g) \union {d} /\ d \notin Counted(g)
        BY <2>1, <3>2 DEF Counted
      <4>2. releaseSequences'[g] = releaseSequences[g] + 1
        BY <2>1, <3>2 DEF TypeOK, ReleaseTypes
      <4> QED
        BY <3>1, <4>1, <4>2, CountOneMore
    <3>3. CASE g # h
      <4>1. Counted(g)' = Counted(g)
        BY <2>1, <3>3 DEF Counted
      <4>2. releaseSequences'[g] = releaseSequences[g]
        BY <2>1, <3>3 DEF TypeOK, ReleaseTypes
      <4> QED
        BY <3>1, <4>1, <4>2
    <3> QED
      BY <3>2, <3>3
  <2>3. ASSUME NEW e \in Ids, e # d, spec[e] = h, stage[e] \in Released
        PROVE  report[e].seq # n
    <3>1. report[e].seq \in 1..releaseSequences[h] /\ releaseSequences[h] \in Nat
      BY <1>4, <2>1, <2>3 DEF Reports, ReportOf, TypeOK, ReleaseTypes
    <3> QED
      BY <3>1
  <2>4. ASSUME NEW a \in Ids, NEW b \in Ids, a # b, spec[a] = spec[b],
               spec[a] # Unaccounted, stage'[a] \in Released, stage'[b] \in Released
        PROVE  report'[a].seq # report'[b].seq
    BY <2>1, <2>3, <2>4 DEF CountedOnce
  <2> QED
    BY <2>1, <2>2, <2>4 DEF CountedOnce, Counted
<1> QED
  BY <1>1, <1>2, <1>3, <1>4

-----------------------------------------------------------------------------
(* The theorems *)

Inv == /\ TypeOK
       /\ Lifecycle
       /\ NoLostWakeup
       /\ Shutdown
       /\ Barriers
       /\ Reports
       /\ SinkOwed
       /\ CountedOnce

\* The invariant holds at New: nothing is begun, nothing was released.
LEMMA InitInv == Init => Lifecycle /\ NoLostWakeup /\ Shutdown /\ Barriers /\ Reports
                         /\ SinkOwed /\ CountedOnce
<1> SUFFICES ASSUME Init
             PROVE  Lifecycle /\ NoLostWakeup /\ Shutdown /\ Barriers /\ Reports
                    /\ SinkOwed /\ CountedOnce
  OBVIOUS
<1>1. Lifecycle
  BY DEF Init, Lifecycle, ClosedBeforeRelease, Released
<1>2. NoLostWakeup
  BY DEF Init, NoLostWakeup
<1>3. Shutdown
  BY DEF Init, Shutdown, Closers, AllGone, ResourceGone
<1>4. Barriers
  BY BoundsAssumption DEF Init, Barriers, BarrierComplete
<1>5. Reports
  BY DEF Init, Reports, ReportOf, Released
<1>6. SinkOwed
  BY DEF Init, SinkOwed
<1>7. CountedOnce
  <2>1. \A g \in Groups : Counted(g) = {}
    BY DEF Init, Counted, Released
  <2>2. \A d \in Ids : stage[d] \notin Released
    BY DEF Init, Released
  <2> QED
    BY <2>1, <2>2, FS_EmptySet DEF Init, CountedOnce, Counted
<1> QED
  BY <1>1, <1>2, <1>3, <1>4, <1>5, <1>6, <1>7

\* The invariant holds at New and is kept by every step.
THEOREM Invariance == Spec => []Inv
<1>1. Init => Lifecycle /\ NoLostWakeup /\ Shutdown /\ Barriers /\ Reports
              /\ SinkOwed /\ CountedOnce
  BY InitInv
<1>2. TypeOK /\ Inv /\ [Next]_vars => Lifecycle' /\ NoLostWakeup' /\ Shutdown'
        /\ Barriers' /\ Reports' /\ SinkOwed' /\ CountedOnce'
  BY LifecycleStep, WakeupStep, ShutdownStep, BarrierStep, ReportsStep, SinkOwedStep,
     CountedStep DEF Inv
<1>3. Spec => []TypeOK
  BY TypeCorrect
<1> QED
  BY <1>1, <1>2, <1>3, PTL DEF Spec, Inv

\* EndWithRelease: no execution is counted as released before its resource is
\* closed.
THEOREM ReleaseFollowsClose == Spec => []ClosedBeforeRelease
<1>1. Inv => ClosedBeforeRelease
  BY DEF Inv, Lifecycle
<1> QED
  BY <1>1, Invariance, PTL

\* signalLocked: no Drain or WaitPending sleeps through the event it waits for.
THEOREM NoWakeupIsLost == Spec => []NoLostWakeup
<1>1. Inv => NoLostWakeup
  BY DEF Inv
<1> QED
  BY <1>1, Invariance, PTL

\* Drain: after a nil return the registry is empty for good, and no resource is
\* open.
THEOREM DrainIsFinal == Spec => []DrainedIsFinal
<1>1. Inv => DrainedIsFinal
  BY EmptyIsGone DEF Inv, Shutdown, AllGone, DrainedIsFinal
<1> QED
  BY <1>1, Invariance, PTL

\* Close: after any of its returns no resource is open or can be bound.
THEOREM CloseIsFinal == Spec => []ClosedIsFinal
<1>1. Inv => ClosedIsFinal
  BY DEF Inv, Shutdown, AllGone, ClosedIsFinal
<1> QED
  BY <1>1, Invariance, PTL

\* ObserveBarrier and FreezeInFlight: a snapshot published under a barrier misses
\* no dispatch begun before the barrier.
THEOREM BarriersComplete == Spec => []BarrierComplete
<1>1. Inv => BarrierComplete
  BY DEF Inv, Barriers
<1> QED
  BY <1>1, Invariance, PTL

\* markReleasedLocked: each accounted scope is counted once, under a sequence of
\* its own.
THEOREM ReleasesAreCounted == Spec => []CountedOnce
<1>1. Inv => CountedOnce
  BY DEF Inv
<1> QED
  BY <1>1, Invariance, PTL

\* EndWithRelease: a scope is missing from the registry only after the sink it
\* was counted for heard of it.
THEOREM RemovalFollowsReport == Spec => []ReportedBeforeRemoved
<1>1. Inv => ReportedBeforeRemoved
  <2> SUFFICES ASSUME Inv, NEW d \in Ids, stage[d] # "none", d \notin scopes,
                      report[d].sink # NoSink
               PROVE  heard[report[d].sink][spec[d]] >= report[d].seq
    BY DEF Inv, Reports, ReportedBeforeRemoved
  <2>1. stage[d] = "ended"
    BY DEF Inv, Lifecycle
  <2>2. spec[d] # Unaccounted /\ report[d].seq <= heard[report[d].sink][spec[d]]
    BY <2>1 DEF Inv, Reports, ReportOf, Released
  <2>3. /\ report[d].sink \in Sinks /\ spec[d] \in Groups /\ report[d].seq \in Nat
        /\ heard[report[d].sink][spec[d]] \in Nat
    BY <2>2 DEF Inv, TypeOK, DispatchTypes, ReleaseTypes
  <2> QED
    BY <2>2, <2>3
<1> QED
  BY <1>1, Invariance, PTL

\* SetReleaseSink: replacing the sink while executions end loses no release.
THEOREM NoReleaseIsLost == Spec => []SinkOwed
<1>1. Inv => SinkOwed
  BY DEF Inv
<1> QED
  BY <1>1, Invariance, PTL
=============================================================================
