-------------------------- MODULE ExecutionRegistry --------------------------
(***************************************************************************)
(* The registry of Home-dispatched executions                              *)
(* (sdk/aps/executionregistry): one Registry owns every dispatch accepted  *)
(* during a Home subscriber lifetime.  A dispatch is reserved              *)
(* (BeginDispatch), then installed as a scope or abandoned; a scope may    *)
(* bind one closable resource; ending it closes the resource, counts the   *)
(* release, reports it to the release sink and only then leaves the        *)
(* registry.  Drain and Close shut the registry down around all of this.   *)
(*                                                                         *)
(* A step is one critical section of r.mu (or of s.mu, or one operation on *)
(* the atomic state word): between two steps of an operation any other     *)
(* goroutine may run.                                                      *)
(***************************************************************************)
EXTENDS Naturals, FiniteSets

CONSTANTS
    MaxDispatches,  \* bound on r.next
    Groups,         \* release groups: (credential, model) pairs
    Unaccounted,    \* the spec of a scope Home does not account
    Sinks,          \* release sinks that may be installed
    NoSink,         \* the nil sink
    Callers,        \* goroutines that call Drain, Close or WaitPending
    MaxBarrier,     \* bound on the observation barriers Home issues
    MaxFreezes      \* bound on r.snapshotRevision

ASSUME BoundsAssumption == /\ MaxDispatches \in Nat
                           /\ MaxBarrier \in Nat
                           /\ MaxFreezes \in Nat
ASSUME SentinelAssumption == /\ Unaccounted \notin Groups
                             /\ NoSink \notin Sinks

VARIABLES
    state,             \* the atomic lifecycle word
    next,              \* last dispatch id handed out
    pending,           \* ids in r.pending
    scopes,            \* ids in r.scopes
    spec,              \* ScopeSpec of an installed id: its group, or Unaccounted
    resource,          \* closeFn / closeDone of a scope
    stage,             \* how far the scope's EndWithRelease has gone
    report,            \* what markReleasedLocked returned: sink and sequence
    releaseSequences,  \* cumulative releases of a group
    releaseSink,       \* the installed sink
    replays,           \* sink calls SetReleaseSink still owes, outside the lock
    heard,             \* largest sequence a sink was called with, per group
    observedBarrier, pendingBarrierSequence, publishedBarrier,
    begunAt,           \* history: r.next when a barrier was observed
    freeze,            \* the last snapshot FreezeInFlight returned
    pc,                \* where a caller of Drain, Close or WaitPending is
    drainLeft,         \* scopes a Drain has snapshotted and not yet cancelled
    parked,            \* callers waiting on the current r.changed channel
    closeStarted,      \* the flag under closeMu
    closeLeft,         \* scopes Close has snapshotted and not yet closed
    closeAt,           \* the scope Close is waiting for (0: none)
    closeDone          \* Close has finished and released its joiners

dispatchVars == <<next, pending, scopes, spec>>
releaseVars  == <<report, releaseSequences, releaseSink, replays, heard>>
barrierVars  == <<observedBarrier, pendingBarrierSequence, publishedBarrier,
                  begunAt, freeze>>
drainVars    == <<drainLeft>>
closeVars    == <<closeStarted, closeLeft, closeAt, closeDone>>
vars == <<state, dispatchVars, resource, stage, releaseVars, barrierVars, pc,
          drainVars, parked, closeVars>>

Ids == 1..MaxDispatches

\* Where a scope's EndWithRelease stands.  "none": not installed; "open": the
\* scope is active; "ending": active was cleared; "waiting": blocked on
\* closeDone; "quiet": the resource is closed or there was none; "marked":
\* counted, the sink is being called; "reported": the sink returned;
\* "ended": the scope left the registry.
Stages == {"none", "open", "ending", "waiting", "quiet", "marked", "reported",
           "ended"}
Resources == {"unbound", "bound", "closing", "closed"}
PCs == {"idle",
        "drainSnap", "drainCancel", "drainCheck", "drainParked", "drained",
        "drainExpired", "drainRefused",
        "closeSwap", "closeSnap", "closing", "closeJoin", "closed",
        "pendCheck", "pendParked", "pendClear", "pendExpired"}

Larger(a, b) == IF a < b THEN b ELSE a

Init ==
    /\ state = "accepting"
    /\ next = 0
    /\ pending = {}
    /\ scopes = {}
    /\ spec = [d \in Ids |-> Unaccounted]
    /\ resource = [d \in Ids |-> "unbound"]
    /\ stage = [d \in Ids |-> "none"]
    /\ report = [d \in Ids |-> [sink |-> NoSink, seq |-> 0]]
    /\ releaseSequences = [g \in Groups |-> 0]
    /\ releaseSink = NoSink
    /\ replays = {}
    /\ heard = [s \in Sinks |-> [g \in Groups |-> 0]]
    /\ observedBarrier = 0
    /\ pendingBarrierSequence = 0
    /\ publishedBarrier = 0
    /\ begunAt = [b \in 0..MaxBarrier |-> 0]
    /\ freeze = [revision |-> 0, barrier |-> 0, executions |-> {}]
    /\ pc = [c \in Callers |-> "idle"]
    /\ drainLeft = [c \in Callers |-> {}]
    /\ parked = {}
    /\ closeStarted = FALSE
    /\ closeLeft = {}
    /\ closeAt = 0
    /\ closeDone = FALSE

\* Mutant: the change is recorded but nobody is woken.
SignalLocked_Silent == parked' = parked

\* signalLocked: closing r.changed wakes every caller waiting on it.
SignalLocked == parked' = {}

-----------------------------------------------------------------------------
(* Dispatches *)

BeginDispatch ==
    /\ state = "accepting"
    /\ next < MaxDispatches
    /\ next' = next + 1
    /\ pending' = pending \union {next'}
    /\ UNCHANGED <<state, scopes, spec, resource, stage, releaseVars,
                   barrierVars, pc, drainVars, parked, closeVars>>

\* End of a token that was not installed; on a consumed token it does nothing.
EndPending(d) ==
    /\ d \in pending
    /\ pending' = pending \ {d}
    /\ SignalLocked
    /\ UNCHANGED <<state, next, scopes, spec, resource, stage, releaseVars,
                   barrierVars, pc, drainVars, closeVars>>

\* Install consumes the token whether or not the registry still accepts.
Install(d, sp) ==
    /\ d \in pending
    /\ pending' = pending \ {d}
    /\ SignalLocked
    /\ IF state = "accepting"
       THEN /\ scopes' = scopes \union {d}
            /\ spec' = [spec EXCEPT ![d] = sp]
            /\ stage' = [stage EXCEPT ![d] = "open"]
       ELSE UNCHANGED <<scopes, spec, stage>>
    /\ UNCHANGED <<state, next, resource, releaseVars, barrierVars, pc,
                   drainVars, closeVars>>

\* Mutant: a resource may still be bound after the registry shut down.
Bind_Unchecked(d) ==
    /\ stage[d] = "open"
    /\ resource[d] = "unbound"
    /\ resource' = [resource EXCEPT ![d] = "bound"]
    /\ UNCHANGED <<state, dispatchVars, stage, releaseVars, barrierVars, pc,
                   drainVars, parked, closeVars>>

Bind(d) ==
    /\ state = "accepting"
    /\ stage[d] = "open"
    /\ resource[d] = "unbound"
    /\ resource' = [resource EXCEPT ![d] = "bound"]
    /\ UNCHANGED <<state, dispatchVars, stage, releaseVars, barrierVars, pc,
                   drainVars, parked, closeVars>>

-----------------------------------------------------------------------------
(* Closing a bound resource *)

\* startBoundResourceClose: the first caller starts the goroutine that runs
\* closeFn, later callers share its closeDone; without a resource it is nil.
StartBoundResourceClose(d) ==
    resource' = [resource EXCEPT ![d] = IF @ = "bound" THEN "closing" ELSE @]

\* Mutant: nobody waits for a resource.
HasCloseDone_Never(d) == FALSE

HasCloseDone(d) == resource[d] # "unbound"

\* The goroutine: closeFn returned (its error is only logged), closeDone closes.
CloseResource(d) ==
    /\ resource[d] = "closing"
    /\ resource' = [resource EXCEPT ![d] = "closed"]
    /\ UNCHANGED <<state, dispatchVars, stage, releaseVars, barrierVars, pc,
                   drainVars, parked, closeVars>>

-----------------------------------------------------------------------------
(* Scope.EndWithRelease: the body sync.Once lets run once, step by step *)

EndDeactivate(d) ==
    /\ stage[d] = "open"
    /\ stage' = [stage EXCEPT ![d] = "ending"]
    /\ UNCHANGED <<state, dispatchVars, resource, releaseVars, barrierVars, pc,
                   drainVars, parked, closeVars>>

EndStartClose(d) ==
    /\ stage[d] = "ending"
    /\ stage' = [stage EXCEPT ![d] = IF HasCloseDone(d) THEN "waiting"
                                                        ELSE "quiet"]
    /\ StartBoundResourceClose(d)
    /\ UNCHANGED <<state, dispatchVars, releaseVars, barrierVars, pc,
                   drainVars, parked, closeVars>>

EndAwaitClose(d) ==
    /\ stage[d] = "waiting"
    /\ resource[d] = "closed"
    /\ stage' = [stage EXCEPT ![d] = "quiet"]
    /\ UNCHANGED <<state, dispatchVars, resource, releaseVars, barrierVars, pc,
                   drainVars, parked, closeVars>>

\* Mutant: a release is counted only while there is a sink to tell.
EndMark_OnlyWithSink(d) ==
    /\ stage[d] = "quiet"
    /\ IF spec[d] = Unaccounted \/ releaseSink = NoSink
       THEN /\ stage' = [stage EXCEPT ![d] = "reported"]
            /\ UNCHANGED <<report, releaseSequences>>
       ELSE /\ releaseSequences' = [releaseSequences EXCEPT ![spec[d]] = @ + 1]
            /\ report' = [report EXCEPT
                            ![d] = [sink |-> releaseSink,
                                    seq |-> releaseSequences[spec[d]] + 1]]
            /\ stage' = [stage EXCEPT ![d] = "marked"]
    /\ UNCHANGED <<state, dispatchVars, resource, releaseSink, replays, heard,
                   barrierVars, pc, drainVars, parked, closeVars>>

\* markReleasedLocked: count the release and capture the sink under one lock.
EndMark(d) ==
    /\ stage[d] = "quiet"
    /\ IF spec[d] = Unaccounted
       THEN /\ stage' = [stage EXCEPT ![d] = "reported"]
            /\ UNCHANGED <<report, releaseSequences>>
       ELSE /\ releaseSequences' = [releaseSequences EXCEPT ![spec[d]] = @ + 1]
            /\ report' = [report EXCEPT
                            ![d] = [sink |-> releaseSink,
                                    seq |-> releaseSequences[spec[d]] + 1]]
            /\ stage' = [stage EXCEPT
                            ![d] = IF releaseSink = NoSink THEN "reported"
                                                           ELSE "marked"]
    /\ UNCHANGED <<state, dispatchVars, resource, releaseSink, replays, heard,
                   barrierVars, pc, drainVars, parked, closeVars>>

\* What a sink keeps of a call: it remembers the largest sequence only.
Hear(s, g, n) == heard' = [heard EXCEPT ![s][g] = Larger(@, n)]

\* releaseSink(group, sequence), called without the registry mutex.
EndReport(d) ==
    /\ stage[d] = "marked"
    /\ Hear(report[d].sink, spec[d], report[d].seq)
    /\ stage' = [stage EXCEPT ![d] = "reported"]
    /\ UNCHANGED <<state, dispatchVars, resource, report, releaseSequences,
                   releaseSink, replays, barrierVars, pc, drainVars, parked,
                   closeVars>>

\* Mutant: the scope leaves the registry before the sink was told.
EndRemove_BeforeReport(d) ==
    /\ stage[d] \in {"marked", "reported"}
    /\ scopes' = scopes \ {d}
    /\ stage' = [stage EXCEPT ![d] = "ended"]
    /\ SignalLocked
    /\ UNCHANGED <<state, next, pending, spec, resource, releaseVars,
                   barrierVars, pc, drainVars, closeVars>>

EndRemove(d) ==
    /\ stage[d] = "reported"
    /\ scopes' = scopes \ {d}
    /\ stage' = [stage EXCEPT ![d] = "ended"]
    /\ SignalLocked
    /\ UNCHANGED <<state, next, pending, spec, resource, releaseVars,
                   barrierVars, pc, drainVars, closeVars>>

-----------------------------------------------------------------------------
(* The release sink *)

\* Mutant: the new sink is not told what was released before it.
SetReleaseSink_NoReplay(s) ==
    /\ s # releaseSink
    /\ releaseSink' = s
    /\ UNCHANGED <<state, dispatchVars, resource, stage, report, replays,
                   releaseSequences, heard, barrierVars, pc, drainVars, parked,
                   closeVars>>

\* SetReleaseSink: swap the sink and copy the sequences under the lock, then
\* call the new sink once per known group without it (ReplayRelease).
SetReleaseSink(s) ==
    /\ s # releaseSink
    /\ releaseSink' = s
    /\ replays' = IF s = NoSink
                  THEN replays
                  ELSE replays \union
                         {[sink |-> s, group |-> g, seq |-> releaseSequences[g]]
                            : g \in {h \in Groups : releaseSequences[h] > 0}}
    /\ UNCHANGED <<state, dispatchVars, resource, stage, report,
                   releaseSequences, heard, barrierVars, pc, drainVars, parked,
                   closeVars>>

ReplayRelease(r) ==
    /\ r \in replays
    /\ replays' = replays \ {r}
    /\ Hear(r.sink, r.group, r.seq)
    /\ UNCHANGED <<state, dispatchVars, resource, stage, report,
                   releaseSequences, releaseSink, barrierVars, pc, drainVars,
                   parked, closeVars>>

-----------------------------------------------------------------------------
(* Observation barriers and snapshots *)

ObserveBarrier(b) ==
    /\ b > observedBarrier
    /\ observedBarrier' = b
    /\ pendingBarrierSequence' = next
    /\ begunAt' = [begunAt EXCEPT ![b] = next]
    /\ UNCHANGED <<state, dispatchVars, resource, stage, releaseVars,
                   publishedBarrier, freeze, pc, drainVars, parked, closeVars>>

\* Mutant: the last dispatch begun before the barrier does not hold it back.
BarrierBlocked_OffByOne == \E d \in pending : d < pendingBarrierSequence

BarrierBlocked == \E d \in pending : d <= pendingBarrierSequence

FreezeInFlight ==
    /\ freeze.revision < MaxFreezes
    /\ publishedBarrier' = IF observedBarrier > publishedBarrier /\ ~BarrierBlocked
                           THEN observedBarrier
                           ELSE publishedBarrier
    /\ freeze' = [revision |-> freeze.revision + 1,
                  barrier |-> publishedBarrier',
                  executions |-> scopes]
    /\ UNCHANGED <<state, dispatchVars, resource, stage, releaseVars,
                   observedBarrier, pendingBarrierSequence, begunAt, pc,
                   drainVars, parked, closeVars>>

-----------------------------------------------------------------------------
(* Drain *)

\* A goroutine outside every operation; one that was told the registry is
\* drained or closed stops here.
Free(c) == pc[c] \in {"idle", "drainExpired", "pendClear", "pendExpired"}

\* The compare-and-swap happens without r.mu.  A Drain whose context expired
\* leaves the registry draining and may be called again.
DrainStart(c) ==
    /\ Free(c)
    /\ IF state = "closed"
       THEN pc' = [pc EXCEPT ![c] = "drainRefused"] /\ UNCHANGED state
       ELSE pc' = [pc EXCEPT ![c] = "drainSnap"] /\ state' = "draining"
    /\ UNCHANGED <<dispatchVars, resource, stage, releaseVars, barrierVars,
                   drainVars, parked, closeVars>>

DrainSnapshot(c) ==
    /\ pc[c] = "drainSnap"
    /\ pc' = [pc EXCEPT ![c] = "drainCancel"]
    /\ drainLeft' = [drainLeft EXCEPT ![c] = scopes]
    /\ UNCHANGED <<state, dispatchVars, resource, stage, releaseVars,
                   barrierVars, parked, closeVars>>

\* Drain starts the close of every snapshotted scope without waiting for it.
DrainCancel(c, d) ==
    /\ pc[c] = "drainCancel"
    /\ d \in drainLeft[c]
    /\ drainLeft' = [drainLeft EXCEPT ![c] = @ \ {d}]
    /\ StartBoundResourceClose(d)
    /\ UNCHANGED <<state, dispatchVars, stage, releaseVars, barrierVars, pc,
                   parked, closeVars>>

DrainCancelled(c) ==
    /\ pc[c] = "drainCancel"
    /\ drainLeft[c] = {}
    /\ pc' = [pc EXCEPT ![c] = "drainCheck"]
    /\ UNCHANGED <<state, dispatchVars, resource, stage, releaseVars,
                   barrierVars, drainVars, parked, closeVars>>

\* Mutant: Drain looks at the installed scopes only.
DrainCheck_IgnoresPending(c) ==
    /\ pc[c] = "drainCheck"
    /\ IF scopes = {}
       THEN /\ state' = "closed"
            /\ pc' = [pc EXCEPT ![c] = "drained"]
            /\ UNCHANGED parked
       ELSE /\ pc' = [pc EXCEPT ![c] = "drainParked"]
            /\ parked' = parked \union {c}
            /\ UNCHANGED state
    /\ UNCHANGED <<dispatchVars, resource, stage, releaseVars, barrierVars,
                   drainVars, closeVars>>

\* Under r.mu: finish, or take the current r.changed and wait on it.
DrainCheck(c) ==
    /\ pc[c] = "drainCheck"
    /\ IF pending = {} /\ scopes = {}
       THEN /\ state' = "closed"
            /\ pc' = [pc EXCEPT ![c] = "drained"]
            /\ UNCHANGED parked
       ELSE /\ pc' = [pc EXCEPT ![c] = "drainParked"]
            /\ parked' = parked \union {c}
            /\ UNCHANGED state
    /\ UNCHANGED <<dispatchVars, resource, stage, releaseVars, barrierVars,
                   drainVars, closeVars>>

DrainWake(c) ==
    /\ pc[c] = "drainParked"
    /\ c \notin parked
    /\ pc' = [pc EXCEPT ![c] = "drainCheck"]
    /\ UNCHANGED <<state, dispatchVars, resource, stage, releaseVars,
                   barrierVars, drainVars, parked, closeVars>>

DrainExpire(c) ==
    /\ pc[c] = "drainParked"
    /\ pc' = [pc EXCEPT ![c] = "drainExpired"]
    /\ parked' = parked \ {c}
    /\ UNCHANGED <<state, dispatchVars, resource, stage, releaseVars,
                   barrierVars, drainVars, closeVars>>

-----------------------------------------------------------------------------
(* Close *)

\* The section under closeMu: join a running Close, return when a Drain has
\* already closed the registry, or become the Close.
CloseStart(c) ==
    /\ Free(c)
    /\ pc' = [pc EXCEPT ![c] = IF closeStarted THEN "closeJoin"
                               ELSE IF state = "closed" THEN "closed"
                               ELSE "closeSwap"]
    /\ closeStarted' = (closeStarted \/ state # "closed")
    /\ UNCHANGED <<state, dispatchVars, resource, stage, releaseVars,
                   barrierVars, drainVars, parked, closeLeft, closeAt, closeDone>>

CloseSwap(c) ==
    /\ pc[c] = "closeSwap"
    /\ pc' = [pc EXCEPT ![c] = "closeSnap"]
    /\ state' = "closed"
    /\ UNCHANGED <<dispatchVars, resource, stage, releaseVars, barrierVars,
                   drainVars, parked, closeVars>>

CloseSnapshot(c) ==
    /\ pc[c] = "closeSnap"
    /\ pc' = [pc EXCEPT ![c] = "closing"]
    /\ closeLeft' = scopes
    /\ UNCHANGED <<state, dispatchVars, resource, stage, releaseVars,
                   barrierVars, drainVars, parked, closeStarted, closeAt,
                   closeDone>>

\* waitForBoundResourceClose on the next snapshotted scope: start, then wait.
CloseNext(c, d) ==
    /\ pc[c] = "closing"
    /\ closeAt = 0
    /\ d \in closeLeft
    /\ closeLeft' = closeLeft \ {d}
    /\ closeAt' = IF HasCloseDone(d) THEN d ELSE 0
    /\ StartBoundResourceClose(d)
    /\ UNCHANGED <<state, dispatchVars, stage, releaseVars, barrierVars, pc,
                   drainVars, parked, closeStarted, closeDone>>

CloseAwait(c) ==
    /\ pc[c] = "closing"
    /\ closeAt # 0
    /\ resource[closeAt] = "closed"
    /\ closeAt' = 0
    /\ UNCHANGED <<state, dispatchVars, resource, stage, releaseVars,
                   barrierVars, pc, drainVars, parked, closeStarted, closeLeft,
                   closeDone>>

\* Mutant: the callers that joined are not released.
CloseReturn_KeepsJoiners(c) ==
    /\ pc[c] = "closing"
    /\ closeAt = 0
    /\ closeLeft = {}
    /\ pc' = [pc EXCEPT ![c] = "closed"]
    /\ UNCHANGED <<state, dispatchVars, resource, stage, releaseVars,
                   barrierVars, drainVars, parked, closeVars>>

\* close(closeDone) releases the callers that joined, now or later.
CloseReturn(c) ==
    /\ pc[c] = "closing"
    /\ closeAt = 0
    /\ closeLeft = {}
    /\ pc' = [pc EXCEPT ![c] = "closed"]
    /\ closeDone' = TRUE
    /\ UNCHANGED <<state, dispatchVars, resource, stage, releaseVars,
                   barrierVars, drainVars, parked, closeStarted, closeLeft,
                   closeAt>>

CloseJoined(c) ==
    /\ pc[c] = "closeJoin"
    /\ closeDone
    /\ pc' = [pc EXCEPT ![c] = "closed"]
    /\ UNCHANGED <<state, dispatchVars, resource, stage, releaseVars,
                   barrierVars, drainVars, parked, closeVars>>

-----------------------------------------------------------------------------
(* WaitPending *)

WaitPendingStart(c) ==
    /\ Free(c)
    /\ pc' = [pc EXCEPT ![c] = "pendCheck"]
    /\ UNCHANGED <<state, dispatchVars, resource, stage, releaseVars,
                   barrierVars, drainVars, parked, closeVars>>

WaitPendingCheck(c) ==
    /\ pc[c] = "pendCheck"
    /\ IF pending = {}
       THEN pc' = [pc EXCEPT ![c] = "pendClear"] /\ UNCHANGED parked
       ELSE /\ pc' = [pc EXCEPT ![c] = "pendParked"]
            /\ parked' = parked \union {c}
    /\ UNCHANGED <<state, dispatchVars, resource, stage, releaseVars,
                   barrierVars, drainVars, closeVars>>

WaitPendingWake(c) ==
    /\ pc[c] = "pendParked"
    /\ c \notin parked
    /\ pc' = [pc EXCEPT ![c] = "pendCheck"]
    /\ UNCHANGED <<state, dispatchVars, resource, stage, releaseVars,
                   barrierVars, drainVars, parked, closeVars>>

WaitPendingExpire(c) ==
    /\ pc[c] = "pendParked"
    /\ pc' = [pc EXCEPT ![c] = "pendExpired"]
    /\ parked' = parked \ {c}
    /\ UNCHANGED <<state, dispatchVars, resource, stage, releaseVars,
                   barrierVars, drainVars, closeVars>>

-----------------------------------------------------------------------------
DispatchOwner(d) == \/ EndPending(d)
                    \/ \E sp \in Groups \union {Unaccounted} : Install(d, sp)

ScopeEnd(d) == \/ EndDeactivate(d)
               \/ EndStartClose(d)
               \/ EndAwaitClose(d)
               \/ EndMark(d)
               \/ EndReport(d)
               \/ EndRemove(d)

DrainStep(c) == \/ DrainSnapshot(c)
                \/ \E d \in Ids : DrainCancel(c, d)
                \/ DrainCancelled(c)
                \/ DrainCheck(c)
                \/ DrainWake(c)

CloseStep(c) == \/ CloseSwap(c)
                \/ CloseSnapshot(c)
                \/ \E d \in Ids : CloseNext(c, d)
                \/ CloseAwait(c)
                \/ CloseReturn(c)
                \/ CloseJoined(c)

WaitPendingStep(c) == WaitPendingCheck(c) \/ WaitPendingWake(c)

Next ==
    \/ BeginDispatch
    \/ \E d \in Ids : DispatchOwner(d) \/ Bind(d) \/ CloseResource(d) \/ ScopeEnd(d)
    \/ \E s \in Sinks \union {NoSink} : SetReleaseSink(s)
    \/ \E r \in replays : ReplayRelease(r)
    \/ \E b \in 1..MaxBarrier : ObserveBarrier(b)
    \/ FreezeInFlight
    \/ \E c \in Callers :
         \/ DrainStart(c) \/ DrainStep(c) \/ DrainExpire(c)
         \/ CloseStart(c) \/ CloseStep(c)
         \/ WaitPendingStart(c) \/ WaitPendingStep(c) \/ WaitPendingExpire(c)

\* Every goroutine that is inside an operation keeps running; the owner of a
\* dispatch resolves it and the owner of a scope ends it (both defer the call);
\* closeFn returns.  Nothing obliges anyone to begin, bind, drain or close, and
\* a context may expire or not.
Fairness ==
    /\ \A d \in Ids : /\ WF_vars(DispatchOwner(d))
                      /\ WF_vars(ScopeEnd(d))
                      /\ WF_vars(CloseResource(d))
    /\ \A c \in Callers : /\ WF_vars(DrainStep(c))
                          /\ WF_vars(CloseStep(c))
                          /\ WF_vars(WaitPendingStep(c))
    /\ WF_vars(\E r \in replays : ReplayRelease(r))

Spec == Init /\ [][Next]_vars
FairSpec == Spec /\ Fairness

-----------------------------------------------------------------------------
(* Properties *)

\* The shapes of the registry's fields and of its goroutines' positions.
DispatchTypes ==
    /\ state \in {"accepting", "draining", "closed"}
    /\ next \in 0..MaxDispatches
    /\ pending \subseteq Ids
    /\ scopes \subseteq Ids
    /\ spec \in [Ids -> Groups \union {Unaccounted}]
    /\ resource \in [Ids -> Resources]
    /\ stage \in [Ids -> Stages]
ReleaseTypes ==
    /\ report \in [Ids -> [sink : Sinks \union {NoSink}, seq : Nat]]
    /\ releaseSequences \in [Groups -> Nat]
    /\ releaseSink \in Sinks \union {NoSink}
    /\ replays \subseteq [sink : Sinks, group : Groups, seq : Nat]
    /\ heard \in [Sinks -> [Groups -> Nat]]
BarrierTypes ==
    /\ observedBarrier \in 0..MaxBarrier
    /\ pendingBarrierSequence \in 0..MaxDispatches
    /\ publishedBarrier \in 0..MaxBarrier
    /\ begunAt \in [0..MaxBarrier -> 0..MaxDispatches]
    /\ freeze \in [revision : 0..MaxFreezes, barrier : 0..MaxBarrier,
                   executions : SUBSET Ids]
CallerTypes ==
    /\ pc \in [Callers -> PCs]
    /\ drainLeft \in [Callers -> SUBSET Ids]
    /\ parked \subseteq Callers
    /\ closeStarted \in BOOLEAN
    /\ closeLeft \subseteq Ids
    /\ closeAt \in Ids \union {0}
    /\ closeDone \in BOOLEAN
TypeOK == DispatchTypes /\ ReleaseTypes /\ BarrierTypes /\ CallerTypes

ResourceGone(d) == resource[d] \in {"unbound", "closed"}
Released == {"marked", "reported", "ended"}

\* An execution is counted as released only once its resource is closed: Home
\* never gets a slot back while the upstream connection of the execution that
\* held it is still open (EndWithRelease waits before markReleasedLocked).
ClosedBeforeRelease == \A d \in Ids : stage[d] \in Released => ResourceGone(d)

\* A caller waiting on r.changed has something to wait for: whoever empties the
\* registry signals, so no Drain or WaitPending sleeps through it.
NoLostWakeup ==
    \A c \in parked : /\ pc[c] = "drainParked" => pending \union scopes # {}
                      /\ pc[c] = "pendParked" => pending # {}

\* Once a Drain has returned nil nothing is pending or installed, ever again,
\* and no resource is left open, whatever Install, Bind, Close and other Drains
\* did meanwhile.
DrainedIsFinal ==
    (\E c \in Callers : pc[c] = "drained") =>
        pending = {} /\ scopes = {} /\ \A d \in Ids : ResourceGone(d)

\* Once a Close has returned (even one that only joined another, or found the
\* registry drained) no resource is open and none can be bound any more.
ClosedIsFinal ==
    (\E c \in Callers : pc[c] = "closed") => \A d \in Ids : ResourceGone(d)

\* Each accounted execution is counted exactly once in its group's cumulative
\* sequence, and no two executions are reported under one sequence number.
CountedOnce ==
    /\ \A g \in Groups :
         releaseSequences[g] =
           Cardinality({d \in Ids : spec[d] = g /\ stage[d] \in Released})
    /\ \A d, e \in Ids :
         /\ d # e /\ spec[d] = spec[e] /\ spec[d] # Unaccounted
         /\ stage[d] \in Released /\ stage[e] \in Released
         => report[d].seq # report[e].seq

\* A sink is never told of more releases than there were, and an execution that
\* is missing from r.scopes (so from every later snapshot) has been reported to
\* the sink that was installed when it was counted: Home, which adds the snapshot
\* to the releases it knows, never loses sight of a slot.
ReportedBeforeRemoved ==
    /\ \A s \in Sinks, g \in Groups : heard[s][g] <= releaseSequences[g]
    /\ \A d \in Ids :
         stage[d] # "none" /\ d \notin scopes /\ report[d].sink # NoSink
           => heard[report[d].sink][spec[d]] >= report[d].seq

\* Replacing the sink while executions end loses no release: whatever the
\* current sink has not heard is still owed to it by the SetReleaseSink that
\* installed it or by an EndWithRelease that captured it.
SinkOwed ==
    releaseSink # NoSink =>
      \A g \in Groups :
        LET n == releaseSequences[g] IN
        \/ heard[releaseSink][g] = n
        \/ [sink |-> releaseSink, group |-> g, seq |-> n] \in replays
        \/ \E d \in Ids : /\ stage[d] = "marked" /\ spec[d] = g
                          /\ report[d] = [sink |-> releaseSink, seq |-> n]

Finished(d) == d \notin pending /\ stage[d] \in {"none", "ended"}

\* A snapshot published under barrier b is complete for b: every dispatch begun
\* before b was observed is in the snapshot or has finished.  (A dispatch whose
\* Home response is unresolved holds the barrier back; later ones do not.)
BarrierComplete ==
    \A d \in 1..begunAt[freeze.barrier] : d \in freeze.executions \/ Finished(d)

Outside(c) == Free(c) \/ pc[c] \in {"drained", "drainRefused", "closed"}

\* Whoever is inside Drain, Close or WaitPending gets out of it, whatever other
\* callers do at the same time.  A Drain and a WaitPending do because owners resolve
\* and end, resources close and the last of them wakes everybody (or the context
\* expires first); the Close that runs because it waits for the resources only, which
\* another Drain, Close or EndWithRelease may be closing already; a Close that joined
\* because the one that runs releases it.
CallsReturn == \A c \in Callers : []<>Outside(c)

\* As long as a sink stays installed it eventually hears every release.
SinkCatchesUp ==
    \A s \in Sinks, g \in Groups :
      []<>(releaseSink # s \/ heard[s][g] = releaseSequences[g])
=============================================================================
