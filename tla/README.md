# TLA+ verification of AIProviderScheduling

AIProviderScheduling is a proxy that offers OpenAI-, Gemini-, Claude-, Codex- and
Grok-compatible APIs on top of many provider credentials.  Its own logic is the
*scheduling* of those credentials: which credential may serve which model now,
what a failed or a successful request does to it, how concurrent changes of a
credential reach the scheduler, and, when the process is a node of a larger
deployment ("Home"), how the executions Home dispatched to it are owned, released
and reported until every slot is given back.  This directory models that logic,
checks it with TLC, and proves the safety of every module with TLAPS.

Paths below are relative to `src/`.

## 1. The system

### 1.1 Components

Home-dispatched executions

| component | state it keeps | operations | properties that make it correct |
|---|---|---|---|
| Execution registry (`sdk/aps/executionregistry`) | lifecycle word, pending dispatches, scopes, one bound resource per scope, cumulative release sequences, release sink, barriers | BeginDispatch, Install, End, Bind, EndWithRelease, SetReleaseSink, ObserveBarrier, FreezeInFlight, Drain, Close, WaitPending | a slot is released only after its resource closed; each release is counted and reported once; Drain and Close are final and return; barriers are complete |
| Release flusher (`internal/home/concurrency_release.go`) | latest and acknowledged sequence per group, open tickets, sender, wake and force channels | MarkDirty, SetSender, Run, Flush | tickets and Flush tell the truth; nothing is stranded; one dead group does not block the others |
| Home dispatch and selection (`sdk/aps/auth/conductor_home*.go`, `home_selection.go`, `home_concurrency.go`) | selection leases, attempt cancels | dispatch, resolve, attach attempts, end | every dispatch ends in exactly one Install or End |
| In-flight publisher (`sdk/aps/auth/home_in_flight_publisher.go`) | last published revision | publish, retry | snapshots reach Home in revision order; it ends with its lifetime |
| Home lifetime (`sdk/aps/service_home.go`) | generation, supervisor, the published client and registry, the flusher shared by client lifetimes | start, replace, shut down; connect, lose, settle, drain, flush | one lifetime at a time; no commit of a replaced generation; no dispatch, execution or release left behind; a replacement returns |
| Home client (`internal/home/client.go`) | connection, certificate, request ids, fence and ambiguity flags | RESP requests, abort, close | a client that may have lost an answer sends no more |

Credentials and their scheduling (`sdk/aps/auth`)

| component | state it keeps | operations | properties that make it correct |
|---|---|---|---|
| Auth manager (`conductor*.go`) | `auths`, registration epochs, generations | Register, Update, Remove, Load, MarkResult, ResetQuota, reconcile, refresh | what the scheduler holds converges to what the manager holds |
| Scheduler (`scheduler.go`) | provider shards, model shards, ready views, versions and tombstones | upsert, tombstone, rebuild, pick | no stale or removed credential is picked, no enabled one is forgotten |
| Cooldown (`conductor_cooldown.go`, `quota_signals.go`, `selector.go`) | per-model and per-credential blocks, backoff levels | MarkResult, ResetQuota | a block covers what its failure says, and no more |
| Selection strategies (`scheduler.go`, `selector.go`, `weight.go`) | cursors, smooth-weighted credits | pick | proportional to weight, no starvation |
| Cooldown persistence (`cooldown_state.go`, `conductor_cooldown.go`) | one file per credential, `configCooldownMu` | save, load, restore, clear | a saved window survives a restart; a cleared one does not come back; files and memory agree at rest |
| Execution and retries (`conductor_execution.go`, `conductor_stream.go`) | tried set, rounds, model pool | execute, refresh, retry, fail over, forward | retries stay within the settings; a started stream is not restarted; every request returns |
| Session affinity (`session_cache.go`, `sdk/aps/session`) | session bindings | bind, look up, expire | a session keeps its credential while it is usable |
| Channel limits (`channel_connection.go`, `channel_group.go`) | an atomic connection counter per credential | hold, release, hand over to a stream | the counter equals the requests in flight; never above the cap |

Process-wide services

| component | state it keeps | properties that make it correct |
|---|---|---|
| Service assembly (`sdk/aps/service*.go`) | executors, registered models, update queue | the models registered for a credential follow its additions, changes and removals |
| Model registry (`internal/registry`) | models per client, reference counts, suspensions, cached listing | counts equal the registered clients; marks follow the manager's state; no stale listing |
| Watcher (`internal/watcher`) | pending updates, order | the last update of a credential wins |
| Usage (`sdk/aps/usage`, `internal/redisqueue`) | bounded queues | shutdown drains, retention bounds |
| Websocket relay (`internal/wsrelay`) | sessions, pending requests | a replaced session fails its requests once |
| Cluster (`internal/cluster`) | worker leases, config versions | workers converge to the master's config |
| Channel monitor, caches, stores | statistics, LRU caches, files | bounded, last write wins |
| Translators, executors, HTTP API, logging, configuration, TUI, commands | none that evolves across requests in a way the scheduling depends on | out of scope |

### 1.2 How they interact

* `conductor_home_execution.go` calls `BeginDispatch`, asks Home for a credential,
  then `Install`s the dispatch as a scope and `Bind`s the request's resource; it
  ends the scope with `EndWithRelease` when the request is over.
* `EndWithRelease` calls the release sink, which is the flusher's `MarkDirty`; the
  flusher's `Run` goroutine sends `concurrency_release` frames on the current Home
  client.
* `service_home.go` starts a `Run` per client lifetime, replaces the sender, and
  at the end drains the registry and then flushes the flusher.
* Home's observation requests call `ObserveBarrier`; the in-flight publisher calls
  `FreezeInFlight` and sends the snapshot.
* Every `Manager` operation changes `m.auths` under `m.mu`, copies the auth and,
  *after the unlock*, hands the copy to the scheduler, which has a mutex of its
  own.  Picks read the scheduler only.
* `MarkResult`, `ResetQuota` and `ReconcileRegistryModelStates` also hand the copy
  to the global model registry (`ApplyClientModelProjections`), with a
  registration epoch read after the unlock.  The service's queue and the catalogue
  callback change the same registration.
* A result that changes a cooldown is followed by `persistCooldownStates`, which
  saves a snapshot of all credentials under `configCooldownMu`; a configuration
  reload takes the same mutex.
* A request of a client runs through `conductor_execution.go`: it picks from the
  scheduler, holds a channel connection, calls the provider's executor and reports
  the result with `MarkResult`.

#### 1.3 What is hard

The registry and the flusher have no global lock around an operation: `Drain`,
`Close` and `EndWithRelease` are sequences of short critical sections with
callbacks, channel waits and closes of foreign resources between them.  The manager,
the scheduler and the model registry exchange copies without an order.  The Home
supervisor waits for goroutines that may want the mutex its own replacement holds.
A save of cooldowns is several file operations, any of which may be the last one.
Leases of channel connections change owner when a stream starts.  `PROJECT.json`
lists the hazards line by line with the properties that cover each.

## 2. Plan

A module is parameterised by CONSTANTS with named assumptions, has one action per
critical section of the code, and declares no RECURSIVE operator, so that theorems
can be stated about it.  Modules are ordered by how much depends on them and how
hard the code is to test.

| module | models | state |
|---|---|---|
| `ExecutionRegistry` | ownership, release and reporting of Home-dispatched executions | done; safety proved in `ExecutionRegistryProofs` |
| `ReleaseFlusher`, `ReleaseLedger` | delivery of cumulative releases, and what it promises | done; safety and the refinement proved in `ReleaseFlusherProofs` |
| `AuthScheduling` | the order in which copies of a credential reach the scheduler | done without picking; safety proved in `AuthSchedulingProofs` |
| `Cooldown` | what results do to the availability of a credential's models | done for one credential; safety proved in `CooldownProofs` |
| `RequestExecution` | a client request: rounds, credentials, model pool, streams, channel connections | done in local mode; safety proved in `RequestExecutionProofs` |
| `HomeLifetime` | generations and client lifetimes of the Home connection and the dispatches over it | done; safety proved in `HomeLifetimeProofs` |
| `CooldownPersistence` | saves, crashes, restores and config reloads of cooldowns | done; safety proved in `CooldownPersistenceProofs` |
| `ModelRegistry`, `RegistryProjection` | the model registry's bookkeeping, and how it follows the auth manager | done for one credential beside others; safety proved in `RegistryProjectionProofs` |
| `SmoothWeighted` | ready views, weighted credits and cursors against a reference distribution | open |
| `CredentialRefresh` | what refresh clones overwrite | open |
| `SessionAffinity`, `UsageQueue`, `RelaySession` | session bindings, bounded usage queues, websocket relay | open |

Every safety property that a run checks and that holds is also a theorem (section
6).  What is left to prove is the safety of the open modules once they are written,
and for one credential beside others what `RegistryProjection` leaves out
(section 8).

## 3. The modules and the code

### 3.1 ExecutionRegistry (`sdk/aps/executionregistry/registry.go`, `observation.go`)

Dispatch ids are `1..next`, as the registry allots them.  A dispatch is `pending`
from `BeginDispatch` until `Install` or `EndPending`; an installed one is in
`scopes` and has a `stage`, the place its end has reached.  `EndWithRelease` takes
`r.mu` and `s.resourceMu` one after the other and calls out in between, so it is
six actions: `EndDeactivate` (295-306), `EndStartClose` (307), `EndAwaitClose`
(308), `EndMark` (`markReleasedLocked`), `EndReport` (the sink call), `EndRemove`
(`delete(r.scopes)` and the signal).  `closeFn` runs on a goroutine of its own:
`CloseResource` is its end.

`changed` is a channel that is replaced whenever it is closed.  What matters is who
sleeps on the current one: `parked` is that set, and `SignalLocked` empties it.
`Drain`, `Close` and `WaitPending` are run by `Callers`, whose program counters name
the point between two critical sections; contexts may expire wherever the code
selects on them.  `heard[s][g]` is the largest sequence a sink was told of, which is
all the flusher keeps (`MarkDirty` takes maxima); `replays` are the calls a
`SetReleaseSink` still has to make after its unlock.  `begunAt` is history: how many
dispatches had begun when a barrier was observed.

### 3.2 ReleaseFlusher (`internal/home/concurrency_release.go`)

One `Run` goroutine: `select` on wake, timer and force; `BeginFlush` snapshots the
dirty groups and the sender; each send happens outside the lock and ends in `SendOK`
or `SendFail` (Home may have received a failed one); `RecordAck` takes the lock
again; `EndFlush` chooses between the interval and the backoff.  The wake and force
channels have capacity 1 and are booleans.  Durations are not modelled: an armed
timer may fire at any time.  `home` is external: the largest sequence Home received.
`wanted` is history: what was dirty when `Flush` was called.

`ReleaseLedger` is what the flusher promises, without queues, timers and retries: a
ticket is settled only when Home was told of a sequence that covers it, and a Flush
returns nil only when everything owed when it was called has been told.
`ReleaseFlusher` instantiates it with `owed <- latest`, `told <- home`, the open and
completed waiters and the Flush callers; `ImplementsLedger` is the refinement.

### 3.3 AuthScheduling (`sdk/aps/auth/conductor*.go`, `scheduler.go`)

A `worker` is a goroutine between its section under `m.mu` and its section under the
scheduler's mutex; it holds the copy it will hand over.  A credential is its
registration epoch, its generation, whether it is enabled and what kind of model
states it holds.  `Stale` is `isStaleScheduledAuth`, `Upserted` and `Recorded` are
`upsertAuthLocked` (shards and `authGenerations`), `Bury` is the removal tombstone,
`RebuildScheduler` is `rebuild`, which empties shards and keeps versions.  `Load`
replaces the registry of credentials, hands over tombstones one by one and then
rebuilds.  A refresh takes a clone (`TakeClone`), talks to the provider, and
hands the clone to `Update` (`UpdateClone`) or only bumps the generation
(`RefreshFails`).  Copies with equal epoch and generation are equal, so the
`UpdatedAt` tie-break never decides.

### 3.4 Cooldown (`sdk/aps/auth/conductor_cooldown.go`, `selector.go`, `scheduler.go`)

One credential: `models` is `ModelStates`, `auth` the same fields of the credential
with `Quota.Reason`, `shards` the scheduler's entry per model.  Times are numbers, 0
is the zero `time.Time`, which the code tests with `IsZero`.  A failure is a record
of the things `MarkResult` looks at: its kind, the provider's hint, whether it
concerns the whole credential, and whether cooling is on for it.  `Hit` has one case
per branch of `MarkResult`; `Lifted` is the clause after the branches; `Aggregated`
is `updateAggregatedAvailability`, its early return and its side effect on expired
states included.  `Blocked` and `BlockedUntil` are `isAuthBlockedForModel`;
`Entry`, `Upsert`, `Promoted` are `upsertEntryLocked` and `promoteExpiredLocked`.
`States`, `AuthStates` and `Entries` name the shapes of `ModelState`, of the
credential's own fields and of a scheduler entry.  Every result and every reset ends
in an upsert of all shards.  Messages, statuses,
recent-request counters, persistence and registry projections are left out here;
disabled models are not modelled.

### 3.5 RequestExecution (`conductor_execution.go`, `conductor_stream.go`, `channel_connection.go`)

A request's `pc` names the place in `Execute`/`ExecuteStream` and in the walk over
credentials: `loopTop` and `picking` are the loop of `executeMixedOnce`, `Hold` is
the compare-and-swap of `holdChannelConnection`, `Prepared` the executor's
preparation, `BeginCall` to `CallFails` one upstream call, and `Refresh`,
`RetrySame`, `StopRequest`, `NextModel` what `conductor_execution.go` and
`conductor_stream.go` do with its error.  `RetryAllowed` and `ClosestCooldownWait`
are the two critical sections that decide about another round.  A stream is
bootstrapped (`Bootstrapped`), forwards its payload (`Forward`) and ends, breaks or is
abandoned by its client (`StreamEnds`, `StreamCancelled`, `Drained`).  `conn` is the
atomic counter of a credential's channel, raised by `Hold` and lowered wherever the
code releases or hands over a lease.  Upstream is a choice; what other requests'
results do to the credentials is `Change`, at any time.  `calls` and `reached` are
history.

### 3.6 HomeLifetime (`service_home.go`, `conductor_home.go`, `internal/home/client.go`)

`call` is the call that holds `homeLifecycleMu` (`startHomeSubscriber` or the
shutdown) and `at` its place; `sup[g]` is the supervisor of generation `g` between
two steps, `worker[k]` the config worker of client lifetime `k`.  The supervisor's
loop is `NewLifetime`, then `Acknowledged`, `ConfigArrives` and `SubscriptionEnds`
while it is subscribed, then `Joined`, `Detach`, `Unbundle`, and `Retry` with the
same registry or `Settled`, `Replaced`, `Drained`, `Flushed` on the way to new ones; `TimedOut`
is every bounded wait that ran out.  `CommitCheck` and `Commit`, `PublishCheck` and
`Publish` are check and store of the two flags a cancellation races with, under
`homeConfigCommitMu` and `homeMu`.  `WorkerReturns` is every return of the worker: where its
contexts are checked, and also in an active lifetime when a configuration is rejected,
superseded or cannot be applied.  A request loads the bundle, begins a dispatch, sends
it, and gets an answer, no answer or one it cannot use; the last two fence the
client (`AbortAmbiguousDispatch`).  The registry and the flusher appear by what they
promise (3.1, 3.2).  The service calls `startHomeSubscriber` once
(`service_lifecycle.go:113`); that it may be called again, and replaces a running
supervisor, is in the code and its tests.  Left out: the usage and log forwarders,
the takeover flags, in-flight frames.

### 3.7 CooldownPersistence (`conductor_cooldown.go`, `cooldown_state.go`)

A credential has one window and one file.  `MarkFailure` and `ClearWindow` change the
window under `m.mu`; the same goroutine then saves (`Persist`, `SaveBegins`): the
snapshot is taken under `configCooldownMu`, then `WriteFile` and `RemoveStale` act
on one file each until `SaveDone`.  `SaveFails` may end a save between any two of them, `Crash` the
process.  `Main` starts the service (`Start`, `LoadFile`, `Restore`) and reloads the
configuration (`ReloadConfig`, `ClearDisabled`, `ApplyBegins`).  `safe`, `clearing`
and `forgotten` are history: windows a completed save covers, and windows whose
clearing was saved.

### 3.8 ModelRegistry and RegistryProjection (`internal/registry/model_registry.go` and its callers)

`ModelRegistry` has one action per operation under `r.mutex`.  `models[m]` is the
registration of a model (count, counts per provider, a mark per client), `clients[c]`
what the registry keeps of a client (how often it lists each model, provider, epoch,
projection generation), `availableModels` the cached listing.  `Copies(m, C)` are the
places of model `m` in the lists of the clients `C`; the counters are to be its
cardinality (`BookkeepingExact`).  `Reconciled` is the
step-by-step reconciliation of `RegisterClient` for one model: first the copies that
change provider leave the old one, then surplus copies go, new ones come, and last
the moved copies reach the new provider.

`RegistryProjection` runs these operations as the service does, for one credential.
Workers record a result or a reset under `m.mu` (`MarkResult`, `ResetQuota`), read the
registration (`ReadRegistration`) and project (`Project`), three critical sections.
The queue is `prepareCoreAuthForModelRegistration` up to `GetByID` (`TakeUpdate`),
`Register` or `Update`, `registerModelsForAuth` (`Bind`), `Reconcile`, `Project`; a
removal is `TakeRemoval` (`UnregisterClient`) and then `Remove`.  The registrar is
the catalogue callback, which looks at the credential again after its first pass
(`StartPass`, `LookAgain`, `Drop`), or the batch after a configuration change, which
does not.  `shown` and `overlap` are history: which registration of the credential
the last accepted projection came from, and whether a queue operation fell into a
pass that does not look again.  The two projection properties exclude exactly the
states those variables describe; without the exclusions TLC finds the three windows
listed under section 7.

## 4. The runs

| run | instance | distinct states | what it shows |
|---|---|---|---|
| `registry_shutdown` | 2 dispatches, 2 callers of Drain, Close and WaitPending, 2 barriers, 2 snapshots, fair | 169 k | `ClosedBeforeRelease`, `NoLostWakeup`, `DrainedIsFinal`, `ClosedIsFinal`, `BarrierComplete`, `CallsReturn`: shutdown from two sides loses no resource, no scope and no wake-up, a snapshot under a barrier misses nothing, and of two callers, one possibly joining the other's Close, neither hangs |
| `registry_release` | 2 dispatches, 1 group, 1 sink, 1 caller, fair | 184 k | `CountedOnce`, `ReportedBeforeRemoved`, `SinkOwed`, `SinkCatchesUp`: every release is counted once and told to the sink, while the registry is drained or closed |
| `flusher` | 2 groups, sequences up to 2, 1 sender that comes and goes, 1 Flush caller, fair | 314 k | `TicketsHonest`, `PromptWhenHealthy`, `ImplementsLedger`, `DeliveredDespiteOthers` |
| `auth_scheduling` | 1 credential, 3 workers, epochs and generations up to 3, 1 rebuild | 1.7 M | `ShardsHoldNewest`, `RemovedStaysUnscheduled`, `ScheduledIsCurrent`, `ScheduledUnlessRebuilt` |
| `auth_rebuild_race` | the same | | `EnabledIsScheduled` is violated: finding 7.1 |
| `cooldown` | 2 models, all six kinds of failures | 49 k | `EveryBlockEnds`, `SchedulerAgrees`, `FailuresStayLocal`, `CredentialWindowHolds`, `QuotaWindowsHold`, `BackoffOncePerWindow` |
| `cooldown_retry_hint` | 2 models; quota failures with a short and a long hint | | `RetryHintTakesEffect` is violated: finding 7.2 |
| `request_connections` | 2 requests, one of them a stream, a credential capped at 1 and an uncapped one, two rounds, waits longer than `maxWait` | 1.1 M | `ConnectionsExact`: no path leaks a lease or releases one twice |
| `request_retries` | 1 stream, 3 credentials with different limits, a pool of two models, at most 2 credentials per round, two rounds, waits within `maxWait`, fair | 327 k | `RetryBudget`, `NeverReplayed`, `EveryRequestReturns` |
| `home_lifetime` | 2 generations, 2 client lifetimes, 1 configuration queued, 1 request, fair | 146 k | `DispatchesSettled`, `OneLifetime`, `NothingLeftBehind`, `NoCommitAfterCancel`, `ReplacementReturns` |
| `cooldown_persistence` | 2 credentials (one blocked as a whole), 2 workers, clock up to 2 | 1.6 M | `SavedSurvives`, `DiskMatchesMemory`, `ForgottenStaysForgotten` |
| `registry_projection` | 1 model, 2 clients, 2 providers, 2 workers with 2 results, 3 queue operations, 1 pass of the registrar, 5 of these events together | 1.3 M | `BookkeepingExact`, `MarksFollowManager`, `RegistrationsMatchCredentials` |

The type invariants are proved for all values of the constants (section 6);
`home_lifetime` also checks that of `HomeLifetime`.  The shapes of the variables of
`Cooldown` and of the model registry modules are stated in their proof modules.

Bounds.  *Registry*: two executions suffice for one to end while another is begun,
counted or reported; two callers for every pair of Drain, Close, joined Close and
WaitPending, for the invariants and for `CallsReturn` alike (with one caller nothing
ever joins a Close); barriers and snapshots up to two so that a barrier can be observed
before, between and after dispatches and be overtaken by the next one.  Parts that
do not interact (callers, sinks, barriers) are switched off by empty sets and zero
bounds.  *Flusher*: sequence 2 can be marked while sequence 1 is in flight; a second
group makes failures partial.  *Scheduling*: ids do not interact, so one is enough;
three workers give two stale copies against one newer; epoch 3 allows a removal and
two registrations.  *Cooldown*: one known model and one sibling, known or not;
durations keep the order `Base = Transient = Medium < Top = CloudflareMin = Long`, so that
windows of different lengths overlap and the ladder has two rungs; a hint may equal
the top of the ladder.  The clock is not bounded in effect: the view `SinceNow`
identifies states that differ only in how long ago deadlines passed, and no path to
a new class of states is longer than 20 steps, far below `MaxTime`.  *Requests*: two
requests compete for a cap of one in every place of their walks; for the budget one
request is enough, because the credentials change freely under it.  One instance has
only blocks a round waits for, the other only blocks it does not.  *Home*: a second
generation replaces the first, a second client follows a lost one or belongs to it;
`MaxClients` and `MaxGen` are only reached at the end of a behaviour.  *Persistence*:
two files make a save partial, two workers race a reload; the clock needs one tick
for a window to end.  *Projection*: three queue operations allow an addition, a
removal and a second addition, or a change to disabled and back; one other client
suffices for the shared counters.  `MaxEvents` keeps all of them from happening in
one behaviour: after an addition there are four of results, resets, changes and
passes in any mixture.

Views.  Some MC modules define a view, under which TLC takes states for one that
agree in it.  A view leaves out what no later step and no property of its run reads:
how a call ended that may be followed by another one, returned
snapshots, barriers that hold back nothing (registry), deadlines that passed, a
credential's own block while its models decide (`Cooldown`), histories and the text
of errors (connections), epochs and registrations other than the current one
(projection), the fields of lifetimes, supervisors and requests that are over
(Home).  States that agree have the same steps up to the view, so the runs lose
nothing; a property that reads more would need another view.  The two models or
workers of an instance are interchangeable, and a set of what is kept of each
makes them so.  The views under a liveness property are those of the registry's
shutdown and of Home: they identify no two callers or processes and keep everything
their fairness conditions read.
(`TypeOK` of Home is read on one state of each class; for all states it is proved.)

`CHECK_DEADLOCK FALSE` is used where the system really stops: all dispatches
bounded by the instance are over (registry), no epoch or generation is left
(scheduling), or the service was shut down (Home).  The others never stop.

`PROJECT.json` lists for each property of each run a mutant: a plausible bug in a
definition, stated next to it in the module, under which TLC finds the property
violated.

## 5. Fairness

*Registry.*  Goroutines inside `Drain`, `Close`, `WaitPending` and `SetReleaseSink`
go on (weak fairness: every wait is a channel that stays closed).  The owner of a
pending dispatch resolves it and the owner of a scope ends it, because the callers
defer `End` and `EndWithRelease` (`conductor_home_execution.go`); a started closeFn
returns.  Nobody has to begin, bind, drain or close, and contexts need not expire,
so `CallsReturn` does not rest on time-outs.  It says of each of two callers that it
is outside every operation again and again, so each call it makes returns; a
joined Close does only because the Close it joined gets to `CloseReturn`.

*Flusher.*  `Run` goes on when it can; the timer, re-armed after every flush, fires;
Go's `select` takes a force that stays ready sometime.  A send ends, because the
code bounds it by a time-out.  For the group Home is reachable for, a send that is
attempted again and again succeeds sometime (strong fairness); nothing of the kind
is assumed of the other group.  The property itself presumes that `Run` stays up
with a sender: during a disconnect nothing can be delivered.

*Requests.*  Each request's goroutine goes on: a call to the executor returns with
an answer or because the context ended, a stream ends or its client leaves, a timer
fires.  Nothing is assumed of the credentials, which other requests may block
forever, or of upstream's answers.

*Home.*  Goroutines go on; a subscription whose context was cancelled returns; every
wait of the supervisor ends, by what it waits for or by its timeout.  The worker may
take the commit mutex again and again while a replacement waits for it; Go's mutex
hands over to a waiter after a millisecond, which is the strong fairness of
`CancelSupervisor`.  Nothing is assumed of Home, its connections or the requests.

*Scheduling, cooldown, persistence and projection* have safety properties only.

## 6. What is proved

Eight modules hold theorems: one for each module of section 3, that of
`RegistryProjection` for `ModelRegistry` as well, that of `ReleaseFlusher` with the
refinement of `ReleaseLedger`.  Each theorem holds for every value of the constants
and rests on the named assumptions of the module it extends (bounds are naturals,
markers are not members of the sets they mark, a credential's settings are naturals,
maps are finite).  Hardly any of the safety properties is inductive as it stands.
`PROJECT.json` lists the theorems with the properties they state.

`ExecutionRegistryProofs`.  `DrainedIsFinal`, for instance, needs to know that a
drained registry is closed, that nothing can be installed once it is, and that a
scope leaves `scopes` only after its resource closed.  The invariant is

    Inv == TypeOK /\ Lifecycle /\ NoLostWakeup /\ Shutdown /\ Barriers
           /\ Reports /\ SinkOwed /\ CountedOnce

* `Lifecycle` ties `pending`, `scopes`, `stage` and `resource` of a dispatch
  together; it contains `ClosedBeforeRelease`;
* `NoLostWakeup` is inductive given the types: whoever empties what a sleeper waits
  for signals in the same critical section;
* `Shutdown` says that at most one caller is *the* Close, that past its snapshot every
  resource not yet gone is still on its list, and what `closed` means for the rest;
* `Barriers` relates the barrier of the last snapshot, the dispatches begun before
  it and what is pending;
* `Reports` says of a scope that ends what it carries between its critical sections:
  its sequence was counted for its group, and past `EndReport` the sink it carries
  heard of it; no sink heard, and no replay carries, a sequence that was not
  counted;
* `SinkOwed` and `CountedOnce` are inductive given the others.  The first is kept by
  `SetReleaseSink` because it queues the replay of every sequence before its unlock, and by
  `EndMark` because the scope it marks carries the sink it read in the same section;
  the second by a count of the scopes beyond `markReleasedLocked`, which only
  `EndMark` changes, by one, together with the sequence.

From it follow `ReleaseFollowsClose`, `NoWakeupIsLost`, `DrainIsFinal`,
`CloseIsFinal`, `BarriersComplete`, `ReleasesAreCounted`, `RemovalFollowsReport` and
`NoReleaseIsLost`.

`ReleaseFlusherProofs`.  The argument is one chain per group: acknowledged is at most
what Home has received, which is at most what was marked.  What a flush carries
outside the lock lies below the end of the chain, an entry whose send returned nil
below what Home has, completed tickets below what was acknowledged, open ones above
it.  From it follow `TicketsAreHonest` and `OpenTicketsStayDirty`;
`NewsIsPrompt` needs in addition that a group marked during a flush is carried by it
or has left a wake token.  `FlusherImplementsLedger` is the refinement: the initial
state maps to the ledger's, `LedgerStep` maps every step to a ledger step or a
stutter.

`AuthSchedulingProofs`.  What travels between manager and scheduler has no order, so
the invariant speaks about what is still to come:

    IInv == Typed /\ ShardsHoldNewest /\ NothingNewer /\ RemovalTold /\ NewsArrives /\ NoSyncYet

no shard and no call under way carries anything newer than the manager has; a
removed credential's tombstone has arrived or is on its way; of a live credential the
newest copy has arrived, is on its way, or was lost to a rebuild that happened.
Every action has an effect per credential (the manager advanced it, a call was made,
a copy arrived), and the invariant is shown kept for effects instead of actions.
From it follow `VersionsMatchShards`, `RemovedStayAway`, `QuietShardsAreCurrent`,
`UpsertsLoseNothing` and the action property `VersionsNeverGoBack` (`VersionsOnlyGrow`).

`RequestExecutionProofs`.  `ConnectionsAreExact` counts: a step lets at most one
request begin or cease to occupy a credential, and raises or lowers that counter by
one exactly then (with the cardinality theorems of the library; the set of requests
is finite).  `LeasesAreBacked` follows: the release closure's early return at a
counter of zero is never taken, so it hides no second release, and an idle service
counts nothing.  `RetriesStayInBudget` compares the calls made with the position in the
nested loops: in a turn with a credential, the calls of this turn are at most what
the models left behind, the retries in place and the refresh allow; between turns a
credential has used at most one full turn per round, and rounds are bounded by its
retry limit.  `StreamsAreNeverReplayed` follows from where a stream may be after its
bootstrap.

`CooldownPersistenceProofs`.  The invariant adds to the types where goroutines can be
while the service is down, starting, up and reloading (`Phases`), that a load has
read what is on disk (`LoadedFromDisk`), that a save in progress changes only files
its snapshot differs in (`SaveInProgress`), that whatever a completed save covers is
on disk and in every later snapshot (`SafeKept`), that a forgotten window is in no
snapshot, file or load (`ForgottenGone`), and that somebody still has to save
whatever memory and files differ in (`MemorySaved`).

`HomeLifetimeProofs`.  The properties relate goroutines that outlive each other, so
the invariant says where everything of a lifetime may still be:

    HInv == Generations /\ Lifetimes /\ Attended /\ Fencing /\ Drains /\ Questions /\ Losses

only the latest generation has a supervisor that is not done (`Generations`), and it
attends to the latest lifetime (`Lifetimes`); worker, observer, published client and
open connection are those of that lifetime (`Attended`, `Fencing`); a registry is
shut, empty and flushed as far as its supervisor got (`Drains`); a question Home did
not answer belongs to the attended lifetime unless a timeout ended the service
(`Questions`); a lost slot is known as ambiguous, is about to be, or its registry is
shut (`Losses`).  From it follow `OneLifetimeAtATime`, `DispatchesAreSettled`,
`NothingIsLeftBehind`, `CancelStopsCommits` and, with the bounds of registries and
lifetimes, `TypeCorrect`.  `HandoverIsQuiet` puts them together: whenever a call has
waited for the supervisor before it, and for good after `Shutdown`, no client is
published, no worker or in-flight publisher runs, no client may send and, unless the
service's run was ended, no execution goes on.  It needs a queue with room for one configuration: the
acknowledgement of a subscription finds the first one queued, whatever the bound
(`BoundsAssumption`: `MaxConfigs` is not 0).

`RegistryProjectionProofs`.  Its first half is about counters.  `Recounted` says of a
registration that its count, its counts per provider and its marks are what a recount
of the clients' lists gives; the cardinality theorems of the library show that one
client's change moves a total by the difference of its own copies.  `RegisterClient`
is followed through its steps (copies that leave a provider, surplus copies, new ones,
copies that arrive), each with a recount of its own, until the last one is the recount
of the new list.  `BookkeepingIsExact` needs the clients to be finitely many
and an offer to name a model.  The second half is about goroutines with copies:

    Inv == Ground /\ Copied /\ Shown /\ Repaired

`Ground` holds the recount, the cached listing and where goroutines can be; `Copied`
says that a copy of the present registration with the present generation is the
credential itself, and that what was read of the registry is outdated or true;
`Shown` that the registry is in sync, shows another registration, or somebody is about
to show the latest state; `Repaired` that with the registrar at rest the client is
registered exactly when the credential is enabled, or the queue is about to see to
it.  `MarksFollowTheManager` and `RegistrationsMatch` are what is left when all are at
rest.

`CooldownProofs`.  Two facts carry the invariant.  A state is *sane*: what is blocked
has a deadline, and none is farther away than the longest cooldown (`Sane`).  An
entry of the scheduler *foretells*: its model is not blocked while it is ready, and
is blocked until the entry's next time while it is not (`Foretold`).

    Inv == Present /\ Good(models, auth, now) /\ Foreseen

`Good` is sanity of all models and of the credential, `Foreseen` the promise of all
entries.  The lemmas show per kind of failure, for the clause after the branches and
for the aggregation that a sane state is made sane, and that time alone blocks
nothing.  `BlocksEnd` and `SchedulerFollows` are read off the invariant;
`CredentialWindowIsKept`, `QuotaWindowsAreKept`, `BackoffIsOncePerWindow` and
`FailuresAreLocal` are about steps and need it because a window that is open is one
whose flag, deadline and reason agree.  The assumptions are that models and hints are
finitely many (a map and a 64-bit duration), so that a longest cooldown exists, and
that durations are positive.

Only model-checked: the liveness properties `CallsReturn`, `SinkCatchesUp`,
`DeliveredDespiteOthers`, `EveryRequestReturns` and `ReplacementReturns`, because
fairness and ENABLED are outside the prover's reach.  No module declares a RECURSIVE
operator, and no theorem says what a recursive definition computes: where a sum is
meant, as in the counters, the properties and proofs speak of the cardinality of the
set that is counted.  `EnabledIsScheduled` and `RetryHintTakesEffect` do not hold
(section 7).

## 7. Findings

1. **A rebuild can lose a credential** (`auth_rebuild_race`).  `syncScheduler` takes
   a snapshot under `m.mu` and calls `rebuild` later.  `rebuild` empties the shards
   but keeps `authGenerations` (`scheduler.go:196-206`).  If an upsert with a newer
   generation arrives in between, the snapshot's copy is stale and skipped, and the
   newer one is gone: a registered, enabled credential is in no shard until its
   next upsert or the next rebuild.  `scheduler.go:189` says the function
   "recreates the complete scheduler state from an auth snapshot".
2. **A retry hint does not always take effect** (`cooldown_retry_hint`).
   `cooldown_backoff_test.go:141` says "A provider supplied retry hint always takes
   effect, even in-window."  The code keeps an open quota window that ends later
   (`conductor_cooldown.go:838` and `:2032`), so a shorter hint has no effect; the
   test tries a longer one only.  `QuotaWindowsHold` shows the keeping is consistent.

Observed without a document that says otherwise (`PROJECT.json`, hazards without a
property or with a note):

* a refresh may overwrite model states recorded while it was under way, and clones the
  auth outside `m.mu`; `MarkResult` takes the outcome of an older registration's
  request; failures outside quota windows overwrite longer blocks; a quota failure
  without a model ends the credential-wide character of a window;
* a restore after a configuration reload loads its records before it takes `m.mu`: a
  window cleared in between comes back;
* a projection of an earlier registration of a credential is accepted if its epoch was
  read after the credential was added again, because a new registration starts its
  generations over;
* a removal unregisters the models before it removes the auth: a pass of the registrar
  in between registers them again, for a credential that is gone;
* the batch after a configuration change binds models from the copy it started with: a
  credential enabled or disabled meanwhile keeps the models of its earlier state.

## 8. Not modelled

The translators, executors, HTTP handlers, stores, configuration, TUI and commands
transform or move data and keep no state the scheduling depends on; they are the
larger part of the repository's lines.  The weighted selection, session affinity,
usage queues, websocket relay, cluster sync and watcher have logic of their own and
are open in section 2; `PROJECT.json` says of each component what is left out.

Inside the modelled components: revision numbers and identities in in-flight
snapshots beyond the set of executions; error texts and HTTP statuses beyond their
class; round-robin cursors, priorities and websocket preference of the scheduler;
persistence of the credentials themselves; the Postgres cooldown store and a swap of
stores (`resolveCooldownStateStore` always answers with the same one); the
Antigravity credits fallback after a request's last round; the Home walk of the
execution functions.  `HomeLifetime` rules out a `startHomeSubscriber` after
`Shutdown`: the function does not check for one, but its only caller, `Run`, calls it
before the `Shutdown` it has deferred (`service_lifecycle.go:113`, `:57`), and running a
service again that was shut down is not considered.

Left out of `RegistryProjection`:

* an enabled credential that offers no model: binding it unregisters the client
  (`service_models.go:206`, `222`, `240`, `262`; `model_registry.go:326-335`), which
  `OffersAssumption` excludes.  `RegistrationsMatchCredentials` says "exactly" of
  credentials that offer at least one model;
* results for the credential as a whole: a credential-wide 429
  (`conductor_cooldown.go:848-873`), results without a model (`894-901`) and the clause
  on `auth.Quota` in `clientModelProjectionForAuth` (`conductor_models.go:239-241`).
  They change more of one copy of the auth, under the same lock, with the same
  generation; what orders the copies is the same.  `Cooldown` models what these
  results do to a credential's states;
* a context that is cancelled between binding and reconciling (`service_auth.go:298-305`,
  `service_models.go:28`, `246-251`): a pass that was begun is finished;
* passes of the catalogue callback that overlap a configuration's batch: both run on
  goroutines of their own (`service_model_registration.go:195-233`,
  `service_config.go:190`), the model has one registrar that does either;
* the end of `ReconcileRegistryModelStates` after ten attempts during which the
  registration kept changing (`conductor_selection.go:185`);
* refreshes, quota windows that run out with time before a reconciliation looks,
  updates applied inline when the queue is full, restores and the management API's
  direct updates.
