---------------------------- MODULE AuthScheduling ----------------------------
(***************************************************************************)
(* How the auth Manager (sdk/aps/auth/conductor_*.go) keeps its scheduler  *)
(* (scheduler.go) in step with the credentials it owns.  Every Manager     *)
(* operation changes m.auths under m.mu, copies the auth, unlocks, and     *)
(* only then hands the copy to the scheduler, which has its own mutex: the *)
(* copies of concurrent operations reach it in any order.  Registration    *)
(* epochs, generations and removal tombstones decide which copy wins.      *)
(*                                                                         *)
(* A worker is a goroutine between its Manager section and its scheduler   *)
(* section.  An auth is abstracted to its version, whether it is enabled   *)
(* and what its ModelStates hold.  Copies with equal epoch and generation  *)
(* are equal, so the UpdatedAt tie-break of isStaleScheduledAuth never     *)
(* decides and is left out.                                                *)
(***************************************************************************)
EXTENDS Naturals, FiniteSets

CONSTANTS
    Auths,      \* credential ids
    Absent,     \* no such auth
    Workers,    \* goroutines that run Manager operations
    Idle,       \* a worker between operations
    MaxEpoch,   \* bound on registration epochs
    MaxGen,     \* bound on generations
    MaxSyncs    \* bound on scheduler rebuilds (SetSelector, pick retries, Load)

ASSUME BoundsAssumption == MaxEpoch \in Nat /\ MaxGen \in Nat \ {0} /\ MaxSyncs \in Nat

VARIABLES
    auths,      \* m.auths: the record of an id, or Absent
    authEpochs, \* m.authEpochs
    sched,      \* the auth the scheduler's provider shards hold, or Absent
    versions,   \* scheduler.authGenerations
    worker,     \* what a worker still has to do
    syncs       \* rebuilds so far

managerVars == <<auths, authEpochs>>
schedulerVars == <<sched, versions>>
vars == <<managerVars, schedulerVars, worker, syncs>>

\* What ModelStates hold: nothing, a state without cooldown, or an active one.
Contents == {"none", "clear", "cool"}
AuthRecord == [epoch : 1..MaxEpoch, gen : 1..MaxGen, enabled : BOOLEAN,
               states : Contents]
Version == [epoch : 0..MaxEpoch, gen : 0..MaxGen]

\* What a worker still has to do.
Calls == [op : {"upsert", "clone"}, id : Auths, auth : AuthRecord]
           \union [op : {"tombstone"}, id : Auths, epoch : 1..MaxEpoch]
           \union [op : {"load"}, tombs : SUBSET (Auths \X (1..MaxEpoch))]
           \union [op : {"sync"}]
           \union [op : {"rebuild"}, snap : [Auths -> AuthRecord \union {Absent}]]

ASSUME NamesAssumption == Absent \notin AuthRecord /\ Idle \notin Calls

Upsert(id, a) == [op |-> "upsert", id |-> id, auth |-> a]
Tombstone(id, e) == [op |-> "tombstone", id |-> id, epoch |-> e]
Clone(id, a) == [op |-> "clone", id |-> id, auth |-> a]
LoadRest(tombs) == [op |-> "load", tombs |-> tombs]
Sync == [op |-> "sync"]
Rebuild(snap) == [op |-> "rebuild", snap |-> snap]

Init ==
    /\ auths = [id \in Auths |-> Absent]
    /\ authEpochs = [id \in Auths |-> 0]
    /\ sched = [id \in Auths |-> Absent]
    /\ versions = [id \in Auths |-> [epoch |-> 0, gen |-> 0]]
    /\ worker = [w \in Workers |-> Idle]
    /\ syncs = 0

Live(id) == auths[id] # Absent
Doing(w, op) == worker[w] # Idle /\ worker[w].op = op
Then(w, call) == worker' = [worker EXCEPT ![w] = call]

\* Clearing the cooldown of a disabled auth (clearCooldownStateForAuth).
Settled(a) == [a EXCEPT !.states = IF ~a.enabled /\ @ = "cool" THEN "clear" ELSE @]

-----------------------------------------------------------------------------
(* The Manager section of each operation *)

\* Register also replaces a live auth; the epoch always grows.
Register(w, id, enabled) ==
    /\ worker[w] = Idle
    /\ authEpochs[id] < MaxEpoch
    /\ LET e == authEpochs[id] + 1
           a == [epoch |-> e, gen |-> 1, enabled |-> enabled, states |-> "none"]
       IN /\ authEpochs' = [authEpochs EXCEPT ![id] = e]
          /\ auths' = [auths EXCEPT ![id] = a]
          /\ Then(w, Upsert(id, a))
    /\ UNCHANGED <<schedulerVars, syncs>>

\* Update keeps the model states of an auth that stays enabled and brings none.
Updated(id, in) ==
    LET old == auths[id]
        keeps == old.enabled /\ in.enabled /\ in.states = "none"
    IN Settled([epoch |-> authEpochs[id],
                gen |-> IF in.gen <= old.gen THEN old.gen + 1 ELSE in.gen + 1,
                enabled |-> in.enabled,
                states |-> IF keeps THEN old.states ELSE in.states])

\* A version brought by the caller must be of the current registration.
StaleRegistration(id, in) == in.epoch # 0 /\ in.epoch < authEpochs[id]

ApplyUpdate(w, id, in) ==
    IF ~Live(id) \/ StaleRegistration(id, in)
    THEN Then(w, Idle) /\ UNCHANGED managerVars
    ELSE LET a == Updated(id, in) IN
         /\ a.gen <= MaxGen
         /\ auths' = [auths EXCEPT ![id] = a]
         /\ Then(w, Upsert(id, a))
         /\ UNCHANGED authEpochs

\* Update with an auth the caller built itself (a watcher, the management API).
UpdateFresh(w, id, enabled) ==
    /\ worker[w] = Idle
    /\ Live(id)
    /\ ApplyUpdate(w, id, [epoch |-> 0, gen |-> 0, enabled |-> enabled,
                           states |-> "none"])
    /\ UNCHANGED <<schedulerVars, syncs>>

\* A caller copies an auth and works on the copy without the lock: a refresh
\* talks to the provider meanwhile.
TakeClone(w, id) ==
    /\ worker[w] = Idle
    /\ Live(id)
    /\ Then(w, Clone(id, auths[id]))
    /\ UNCHANGED <<managerVars, schedulerVars, syncs>>

\* The copy comes back through Update, perhaps enabled or disabled meanwhile.
UpdateClone(w, enabled) ==
    /\ Doing(w, "clone")
    /\ ApplyUpdate(w, worker[w].id, [worker[w].auth EXCEPT !.enabled = enabled])
    /\ UNCHANGED <<schedulerVars, syncs>>

Remove(w, id) ==
    /\ worker[w] = Idle
    /\ Live(id)
    /\ authEpochs[id] < MaxEpoch
    /\ auths' = [auths EXCEPT ![id] = Absent]
    /\ authEpochs' = [authEpochs EXCEPT ![id] = @ + 1]
    /\ Then(w, Tombstone(id, authEpochs[id] + 1))
    /\ UNCHANGED <<schedulerVars, syncs>>

\* An operation on a live auth that keeps its registration: the new generation
\* is handed to the scheduler after the unlock.
Mutate(w, id, states) ==
    /\ worker[w] = Idle
    /\ Live(id)
    /\ auths[id].gen < MaxGen
    /\ LET a == [auths[id] EXCEPT !.gen = @ + 1, !.states = states] IN
       /\ auths' = [auths EXCEPT ![id] = a]
       /\ Then(w, Upsert(id, a))
    /\ UNCHANGED <<authEpochs, schedulerVars, syncs>>

\* The outcome of a request, possibly of one sent under an older registration:
\* MarkResult looks the auth up by id only.
MarkResult(w, id, success) == Mutate(w, id, IF success THEN "clear" ELSE "cool")

ResetQuota(w, id) ==
    Live(id) /\ Mutate(w, id, IF auths[id].states = "none" THEN "none" ELSE "clear")

\* ReconcileRegistryModelStates: states of models that disappeared are dropped.
Reconcile(w, id) ==
    /\ Live(id)
    /\ auths[id].states # "none"
    /\ Mutate(w, id, "none")

\* Bookkeeping that bumps the generation and tells the scheduler nothing
\* (recordAvailabilityNeutralResult, markRefreshPending).
BumpGeneration(id) ==
    /\ Live(id)
    /\ auths[id].gen < MaxGen
    /\ auths' = [auths EXCEPT ![id].gen = @ + 1]
    /\ UNCHANGED <<authEpochs, schedulerVars, worker, syncs>>

\* RefreshSchedulerEntry: hand the auth over again as it is.
RefreshSchedulerEntry(w, id) ==
    /\ worker[w] = Idle
    /\ Live(id)
    /\ Then(w, Upsert(id, auths[id]))
    /\ UNCHANGED <<managerVars, schedulerVars, syncs>>

\* Load replaces m.auths by the items the store lists, under new epochs, and
\* buries what it no longer lists.
Load(w) ==
    /\ worker[w] = Idle
    /\ syncs < MaxSyncs
    /\ syncs' = syncs + 1
    /\ \A id \in Auths : authEpochs[id] < MaxEpoch
    /\ \E items \in SUBSET Auths : \E enabled \in SUBSET items :
         LET gone == {id \in Auths \ items : Live(id)} IN
         /\ authEpochs' = [id \in Auths |-> IF id \in items \union gone
                                            THEN authEpochs[id] + 1
                                            ELSE authEpochs[id]]
         /\ auths' = [id \in Auths |->
                        IF id \in items
                        THEN [epoch |-> authEpochs'[id], gen |-> 1,
                              enabled |-> id \in enabled, states |-> "none"]
                        ELSE Absent]
         /\ Then(w, LoadRest({<<id, authEpochs'[id]>> : id \in gone}))
    /\ UNCHANGED schedulerVars

\* syncScheduler: SetSelector, or a pick that found nothing.
StartSync(w) ==
    /\ worker[w] = Idle
    /\ syncs < MaxSyncs
    /\ syncs' = syncs + 1
    /\ Then(w, Sync)
    /\ UNCHANGED <<managerVars, schedulerVars>>

\* snapshotAuths copies every auth under m.mu; rebuild comes later.
SnapshotAuths(w) ==
    /\ Doing(w, "sync")
    /\ Then(w, Rebuild(auths))
    /\ UNCHANGED <<managerVars, schedulerVars, syncs>>

-----------------------------------------------------------------------------
(* The scheduler section *)

\* Mutant: only the registration decides which copy is newer.
Stale_EpochOnly(id, a) == versions[id].epoch > a.epoch

\* isStaleScheduledAuth
Stale(id, a) ==
    \/ versions[id].epoch > a.epoch
    \/ versions[id].epoch = a.epoch /\ versions[id].gen > a.gen

\* upsertAuthLocked on top of what the shards hold: a stale copy changes nothing,
\* a disabled auth leaves the shards.
Upserted(id, held, a) == IF Stale(id, a) THEN held
                         ELSE IF a.enabled THEN a ELSE Absent
Recorded(id, a) == IF Stale(id, a) THEN versions[id]
                   ELSE [epoch |-> a.epoch, gen |-> a.gen]

UpsertAuth(w) ==
    /\ Doing(w, "upsert")
    /\ LET id == worker[w].id
           a == worker[w].auth
       IN /\ sched' = [sched EXCEPT ![id] = Upserted(id, @, a)]
          /\ versions' = [versions EXCEPT ![id] = Recorded(id, a)]
    /\ Then(w, Idle)
    /\ UNCHANGED <<managerVars, syncs>>

\* Mutants: the tombstone drops the shard entry and records nothing; it records
\* the version and forgets the entry; it also buries a newer registration.
Bury_NotRecorded(id, e) ==
    IF e < versions[id].epoch
    THEN UNCHANGED schedulerVars
    ELSE /\ sched' = [sched EXCEPT ![id] = Absent]
         /\ UNCHANGED versions
Bury_KeepsEntry(id, e) ==
    IF e < versions[id].epoch
    THEN UNCHANGED schedulerVars
    ELSE /\ versions' = [versions EXCEPT ![id] = [epoch |-> e, gen |-> 0]]
         /\ UNCHANGED sched
Bury_Newer(id, e) ==
    /\ sched' = [sched EXCEPT ![id] = Absent]
    /\ versions' = [versions EXCEPT ![id] =
                      IF e < @.epoch THEN @ ELSE [epoch |-> e, gen |-> 0]]

\* recordRemovalTombstoneLocked: an older tombstone is ignored.
Bury(id, e) ==
    IF e < versions[id].epoch
    THEN UNCHANGED schedulerVars
    ELSE /\ sched' = [sched EXCEPT ![id] = Absent]
         /\ versions' = [versions EXCEPT ![id] = [epoch |-> e, gen |-> 0]]

RecordRemovalTombstone(w) ==
    /\ Doing(w, "tombstone")
    /\ Bury(worker[w].id, worker[w].epoch)
    /\ Then(w, Idle)
    /\ UNCHANGED <<managerVars, syncs>>

\* Load's tombstones, one scheduler section each, then its syncScheduler.
LoadTombstone(w) ==
    /\ Doing(w, "load")
    /\ \E t \in worker[w].tombs :
         /\ Bury(t[1], t[2])
         /\ Then(w, LoadRest(worker[w].tombs \ {t}))
    /\ UNCHANGED <<managerVars, syncs>>

LoadSync(w) ==
    /\ Doing(w, "load")
    /\ worker[w].tombs = {}
    /\ Then(w, Sync)
    /\ UNCHANGED <<managerVars, schedulerVars, syncs>>

\* rebuild: empty shards, the recorded versions kept, every snapshotted auth
\* upserted.
RebuildScheduler(w) ==
    /\ Doing(w, "rebuild")
    /\ LET snap == worker[w].snap IN
       /\ sched' = [id \in Auths |-> IF snap[id] = Absent THEN Absent
                                     ELSE Upserted(id, Absent, snap[id])]
       /\ versions' = [id \in Auths |-> IF snap[id] = Absent THEN versions[id]
                                        ELSE Recorded(id, snap[id])]
    /\ Then(w, Idle)
    /\ UNCHANGED <<managerVars, syncs>>

\* A failed refresh bumps whatever registration is current and upserts it while
\* it still holds m.mu.
RefreshFails(w) ==
    /\ Doing(w, "clone")
    /\ LET id == worker[w].id IN
       IF ~Live(id)
       THEN UNCHANGED <<managerVars, schedulerVars>>
       ELSE LET a == [auths[id] EXCEPT !.gen = @ + 1] IN
            /\ a.gen <= MaxGen
            /\ auths' = [auths EXCEPT ![id] = a]
            /\ sched' = [sched EXCEPT ![id] = Upserted(id, @, a)]
            /\ versions' = [versions EXCEPT ![id] = Recorded(id, a)]
            /\ UNCHANGED authEpochs
    /\ Then(w, Idle)
    /\ UNCHANGED syncs

-----------------------------------------------------------------------------
ManagerStep(w) ==
    \/ \E id \in Auths :
         \/ \E enabled \in BOOLEAN : Register(w, id, enabled) \/ UpdateFresh(w, id, enabled)
         \/ TakeClone(w, id)
         \/ Remove(w, id)
         \/ \E success \in BOOLEAN : MarkResult(w, id, success)
         \/ ResetQuota(w, id)
         \/ Reconcile(w, id)
         \/ RefreshSchedulerEntry(w, id)
    \/ Load(w)
    \/ StartSync(w)

Continue(w) ==
    \/ \E enabled \in BOOLEAN : UpdateClone(w, enabled)
    \/ RefreshFails(w)
    \/ SnapshotAuths(w)
    \/ UpsertAuth(w)
    \/ RecordRemovalTombstone(w)
    \/ LoadTombstone(w) \/ LoadSync(w)
    \/ RebuildScheduler(w)

Next ==
    \/ \E w \in Workers : ManagerStep(w) \/ Continue(w)
    \/ \E id \in Auths : BumpGeneration(id)

Spec == Init /\ [][Next]_vars

-----------------------------------------------------------------------------
(* Properties *)

\* The shapes of the Manager's and the scheduler's maps.
TypeOK ==
    /\ auths \in [Auths -> AuthRecord \union {Absent}]
    /\ authEpochs \in [Auths -> 0..MaxEpoch]
    /\ sched \in [Auths -> AuthRecord \union {Absent}]
    /\ versions \in [Auths -> Version]
    /\ worker \in [Workers -> Calls \union {Idle}]
    /\ syncs \in 0..MaxSyncs

\* What the shards hold of an id is the copy of the recorded version, through
\* upserts, tombstones and rebuilds: staleness is always judged against what is
\* really scheduled.
ShardsHoldNewest ==
    \A id \in Auths : sched[id] # Absent =>
                        versions[id] = [epoch |-> sched[id].epoch, gen |-> sched[id].gen]

\* The recorded version of an id never goes back, in whatever order copies,
\* tombstones and rebuilds arrive; with ShardsHoldNewest, the shards hold the
\* newest copy that ever reached the scheduler.
VersionsNeverGoBack ==
    [][\A id \in Auths :
         \/ versions'[id].epoch > versions[id].epoch
         \/ /\ versions'[id].epoch = versions[id].epoch
            /\ versions'[id].gen >= versions[id].gen]_vars

\* A worker that still has to bury id.
Burying(id) ==
    \E w \in Workers :
      \/ Doing(w, "tombstone") /\ worker[w].id = id
      \/ Doing(w, "load") /\ \E t \in worker[w].tombs : t[1] = id

\* Once the tombstone of a removed credential has arrived, no copy still under
\* way (an upsert, a refresh, a rebuild from an old snapshot) brings it back.
RemovedStaysUnscheduled ==
    \A id \in Auths : ~Live(id) /\ ~Burying(id) => sched[id] = Absent

Quiet == \A w \in Workers : worker[w] = Idle

\* When nothing is under way, a scheduled credential is live, enabled, of the
\* current registration and in its current state: requests never go to a
\* disabled credential or past a cooldown because copies arrived out of order.
ScheduledIsCurrent ==
    Quiet => \A id \in Auths :
               sched[id] # Absent =>
                 /\ Live(id)
                 /\ sched[id] = [auths[id] EXCEPT !.gen = sched[id].gen]

\* When nothing is under way, every enabled credential is scheduled.
EnabledIsScheduled ==
    Quiet => \A id \in Auths :
               Live(id) /\ auths[id].enabled => sched[id] # Absent

\* Without a rebuild no order of upserts and tombstones loses an enabled
\* credential (upsertAuthLocked, recordRemovalTombstoneLocked).
ScheduledUnlessRebuilt == syncs = 0 => EnabledIsScheduled
=============================================================================
