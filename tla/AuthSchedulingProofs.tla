------------------------- MODULE AuthSchedulingProofs -------------------------
(***************************************************************************)
(* Safety of AuthScheduling for any credentials, workers and bounds.       *)
(***************************************************************************)
EXTENDS AuthScheduling, TLAPS

-----------------------------------------------------------------------------
(* The inductive invariant *)

\* A live auth carries the epoch of its registration.
Typed == TypeOK /\ \A id \in Auths : Live(id) => auths[id].epoch = authEpochs[id]

\* What a call x brings the shards: copy c of id, the removal of id under epoch e,
\* everything.
Is(x, op) == x # Idle /\ x.op = op
Carries(x, id, c) ==
    \/ Is(x, "upsert") /\ x.id = id /\ x.auth = c
    \/ Is(x, "rebuild") /\ x.snap[id] = c
Announces(x, id, e) ==
    \/ Is(x, "tombstone") /\ x.id = id /\ x.epoch = e
    \/ Is(x, "load") /\ <<id, e>> \in x.tombs
Resyncs(x) == Is(x, "load") \/ Is(x, "sync")

\* A copy the shards hold or will be given.
Copy(id, c) == sched[id] = c \/ \E w \in Workers : Carries(worker[w], id, c)

\* A removal the shards have still to hear of.
Removal(id, e) == \E w \in Workers : Announces(worker[w], id, e)

\* Nothing is newer than what the Manager has.
Past(id, v) ==
    /\ v.epoch <= authEpochs[id]
    /\ Live(id) /\ v.epoch = authEpochs[id] => v.gen <= auths[id].gen
NothingNewerOf(id) ==
    /\ Past(id, versions[id])
    /\ \A c \in AuthRecord :
         Copy(id, c) => Past(id, c) /\ (~Live(id) => c.epoch < authEpochs[id])
    /\ \A e \in 1..MaxEpoch :
         Removal(id, e) =>
           /\ e <= authEpochs[id] /\ (Live(id) => e < authEpochs[id])
           /\ versions[id].epoch = e => versions[id].gen = 0
           /\ \A c \in AuthRecord : Copy(id, c) => c.epoch # e
NothingNewer == \A id \in Auths : NothingNewerOf(id)

\* The tombstone of a removed auth has arrived or is under way.
RemovalTold ==
    \A id \in Auths : ~Live(id) =>
      versions[id].epoch = authEpochs[id] \/ Removal(id, authEpochs[id])

\* Version v is of the current registration and at least generation g.
AtLeast(id, v, g) == v.epoch = authEpochs[id] /\ v.gen >= g

\* A copy that is at least g is on its way to the shards.
Promised(id, g) ==
    \E w \in Workers :
      \/ Resyncs(worker[w])
      \/ \E c \in AuthRecord : Carries(worker[w], id, c) /\ AtLeast(id, c, g)

\* From generation g on every copy says what the Manager's auth says, and the
\* shards have such a copy or will get one.
Fresh(id, g) ==
    /\ g <= auths[id].gen
    /\ \A c \in AuthRecord :
         Copy(id, c) /\ AtLeast(id, c, g) => c = [auths[id] EXCEPT !.gen = c.gen]
    /\ AtLeast(id, versions[id], g) \/ Promised(id, g)
    /\ syncs = 0 /\ auths[id].enabled /\ AtLeast(id, versions[id], g) => sched[id] # Absent

NewsArrives == \A id \in Auths : Live(id) => \E g \in 1..MaxGen : Fresh(id, g)

\* Without a rebuild nobody is in one.
NoSyncYet == syncs = 0 => \A w \in Workers : ~Resyncs(worker[w]) /\ ~Is(worker[w], "rebuild")

IInv == Typed /\ ShardsHoldNewest /\ NothingNewer /\ RemovalTold /\ NewsArrives /\ NoSyncYet

-----------------------------------------------------------------------------
(* Types *)

\* What a call carries, by its kind.
LEMMA Shapes ==
    ASSUME TypeOK, NEW w \in Workers
    PROVE /\ Doing(w, "upsert") => worker[w].id \in Auths /\ worker[w].auth \in AuthRecord
          /\ Doing(w, "clone") => worker[w].id \in Auths /\ worker[w].auth \in AuthRecord
          /\ Doing(w, "tombstone") => worker[w].id \in Auths /\ worker[w].epoch \in 1..MaxEpoch
          /\ Doing(w, "load") => worker[w].tombs \in SUBSET (Auths \X (1..MaxEpoch))
          /\ Doing(w, "rebuild") => worker[w].snap \in [Auths -> AuthRecord \union {Absent}]
<1>1. worker[w] \in Calls \union {Idle}
  BY DEF TypeOK
<1>2. CASE worker[w] = Idle
  BY <1>2 DEF Doing
<1>3. CASE worker[w] \in [op : {"upsert", "clone"}, id : Auths, auth : AuthRecord]
  BY <1>3 DEF Doing
<1>4. CASE worker[w] \in [op : {"tombstone"}, id : Auths, epoch : 1..MaxEpoch]
  BY <1>4 DEF Doing
<1>5. CASE worker[w] \in [op : {"load"}, tombs : SUBSET (Auths \X (1..MaxEpoch))]
  BY <1>5 DEF Doing
<1>6. CASE worker[w] \in [op : {"sync"}]
  BY <1>6 DEF Doing
<1>7. CASE worker[w] \in [op : {"rebuild"}, snap : [Auths -> AuthRecord \union {Absent}]]
  BY <1>7 DEF Doing
<1> QED BY <1>1, <1>2, <1>3, <1>4, <1>5, <1>6, <1>7 DEF Calls

\* Every call the code makes is one of Calls.
LEMMA MadeCalls ==
    /\ \A id \in Auths, a \in AuthRecord : Upsert(id, a) \in Calls /\ Clone(id, a) \in Calls
    /\ \A id \in Auths, e \in 1..MaxEpoch : Tombstone(id, e) \in Calls
    /\ \A T \in SUBSET (Auths \X (1..MaxEpoch)) : LoadRest(T) \in Calls
    /\ Sync \in Calls
    /\ \A s \in [Auths -> AuthRecord \union {Absent}] : Rebuild(s) \in Calls
BY DEF Calls, Upsert, Clone, Tombstone, LoadRest, Sync, Rebuild

\* A copy of a credential is of some registration and some generation.
LEMMA Records ==
    ASSUME NEW a \in AuthRecord
    PROVE /\ a.epoch \in 1..MaxEpoch /\ a.gen \in 1..MaxGen /\ a.enabled \in BOOLEAN
          /\ a.states \in Contents
          /\ a.epoch \in Nat /\ a.gen \in Nat
          /\ a # Absent
          /\ [epoch |-> a.epoch, gen |-> a.gen] \in Version
<1>1. a.epoch \in 1..MaxEpoch /\ a.gen \in 1..MaxGen /\ a.enabled \in BOOLEAN /\ a.states \in Contents
  BY DEF AuthRecord
<1>2. a # Absent
  BY NamesAssumption
<1>3. a.epoch \in 0..MaxEpoch /\ a.gen \in 0..MaxGen /\ a.epoch \in Nat /\ a.gen \in Nat
  BY <1>1, BoundsAssumption
<1> QED BY <1>1, <1>2, <1>3 DEF Version

\* The Manager's record after a step that hands over a new copy of id.
Renewed(w, id, a) ==
    /\ a \in AuthRecord
    /\ auths' = [auths EXCEPT ![id] = a]
    /\ \/ /\ authEpochs' = [authEpochs EXCEPT ![id] = @ + 1]
          /\ authEpochs[id] < MaxEpoch
       \/ authEpochs' = authEpochs /\ Live(id) /\ a.gen > auths[id].gen
    /\ a.epoch = authEpochs'[id]
    /\ worker' = [worker EXCEPT ![w] = Upsert(id, a)]
    /\ UNCHANGED <<schedulerVars, syncs>>
    /\ ~Doing(w, "upsert") /\ ~Doing(w, "tombstone") /\ ~Doing(w, "load") /\ ~Doing(w, "sync")
    /\ ~Doing(w, "rebuild")

\* An update of a live credential is of the same registration and a later generation.
LEMMA UpdatedRecord ==
    ASSUME Typed, NEW id \in Auths, Live(id),
           NEW in \in [epoch : 0..MaxEpoch, gen : 0..MaxGen, enabled : BOOLEAN, states : Contents],
           Updated(id, in).gen <= MaxGen
    PROVE /\ Updated(id, in) \in AuthRecord
          /\ Updated(id, in).epoch = authEpochs[id] /\ Updated(id, in).gen > auths[id].gen
<1> DEFINE old == auths[id]
           g == IF in.gen <= old.gen THEN old.gen + 1 ELSE in.gen + 1
           keeps == old.enabled /\ in.enabled /\ in.states = "none"
           r == [epoch |-> authEpochs[id], gen |-> g, enabled |-> in.enabled,
                 states |-> IF keeps THEN old.states ELSE in.states]
<1>1. old \in AuthRecord /\ old.epoch = authEpochs[id]
  BY DEF Typed, TypeOK, Live
<1>2. authEpochs[id] \in 1..MaxEpoch /\ old.gen \in 1..MaxGen /\ old.states \in Contents
  BY <1>1, Records
<1>3. in.gen \in Nat /\ in.enabled \in BOOLEAN /\ in.states \in Contents
  BY BoundsAssumption
<1>4. Updated(id, in) = Settled(r)
  BY DEF Updated
<1>5. g \in Nat /\ g > old.gen /\ g >= 1
  BY <1>2, <1>3, BoundsAssumption
<1>6. \E s \in Contents : Settled(r) = [epoch |-> authEpochs[id], gen |-> g, enabled |-> in.enabled,
                                        states |-> s]
  <2>1. (IF keeps THEN old.states ELSE in.states) \in Contents
    BY <1>2, <1>3
  <2>2. \A s \in Contents : [r EXCEPT !.states = s] =
          [epoch |-> authEpochs[id], gen |-> g, enabled |-> in.enabled, states |-> s]
    OBVIOUS
  <2>3. \E s \in Contents : Settled(r) = [r EXCEPT !.states = s]
    BY <2>1 DEF Settled, Contents
  <2> QED BY <2>2, <2>3
<1>7. PICK s \in Contents : Updated(id, in) = [epoch |-> authEpochs[id], gen |-> g,
                                               enabled |-> in.enabled, states |-> s]
  BY <1>4, <1>6
<1>8. g \in 1..MaxGen
  BY <1>5, <1>7, BoundsAssumption
<1> QED BY <1>2, <1>3, <1>5, <1>7, <1>8 DEF AuthRecord

\* Update turned the copy away.
Dropped(w) ==
    /\ Doing(w, "clone")
    /\ worker' = [worker EXCEPT ![w] = Idle]
    /\ UNCHANGED <<managerVars, schedulerVars, syncs>>

Renewal(w) ==
    \/ \E id \in Auths :
         \/ \E enabled \in BOOLEAN : Register(w, id, enabled) \/ UpdateFresh(w, id, enabled)
         \/ \E success \in BOOLEAN : MarkResult(w, id, success)
         \/ ResetQuota(w, id)
         \/ Reconcile(w, id)
    \/ \E enabled \in BOOLEAN : UpdateClone(w, enabled)

\* A change of the model states renews the credential.
LEMMA MutateRenews ==
    ASSUME Typed, NEW w \in Workers, NEW id \in Auths, NEW s \in Contents, Mutate(w, id, s)
    PROVE \E a \in AuthRecord : Renewed(w, id, a)
<1> DEFINE a == [auths[id] EXCEPT !.gen = @ + 1, !.states = s]
<1>1. /\ auths[id] \in AuthRecord /\ auths[id].epoch = authEpochs[id] /\ auths[id].gen < MaxGen
      /\ worker[w] = Idle /\ Live(id)
  BY DEF Mutate, Typed, TypeOK, Live
<1>2. auths[id].gen + 1 \in 1..MaxGen /\ auths[id].gen + 1 > auths[id].gen
  <2>1. auths[id].gen \in 1..MaxGen
    BY <1>1, Records
  <2> QED BY <1>1, <2>1, BoundsAssumption
<1>3. a \in AuthRecord /\ a.gen = auths[id].gen + 1 /\ a.epoch = authEpochs[id]
  BY <1>1, <1>2 DEF AuthRecord
<1>4. /\ auths' = [auths EXCEPT ![id] = a] /\ authEpochs' = authEpochs
      /\ worker' = [worker EXCEPT ![w] = Upsert(id, a)]
      /\ UNCHANGED <<schedulerVars, syncs>>
  BY DEF Mutate, Then
<1> HIDE DEF a
<1> QED BY <1>1, <1>2, <1>3, <1>4 DEF Renewed, Doing

\* An update that is applied renews it too.
LEMMA UpdateRenews ==
    ASSUME Typed, NEW w \in Workers, NEW id \in Auths,
           NEW in \in [epoch : 0..MaxEpoch, gen : 0..MaxGen, enabled : BOOLEAN, states : Contents],
           ApplyUpdate(w, id, in), worker[w] = Idle \/ Doing(w, "clone"),
           UNCHANGED <<schedulerVars, syncs>>
    PROVE \/ \E a \in AuthRecord : Renewed(w, id, a)
          \/ /\ ~Live(id) \/ StaleRegistration(id, in)
             /\ worker' = [worker EXCEPT ![w] = Idle]
             /\ UNCHANGED managerVars
<1>1. CASE ~Live(id) \/ StaleRegistration(id, in)
  BY <1>1 DEF ApplyUpdate, Then
<1>2. CASE ~(~Live(id) \/ StaleRegistration(id, in))
  <2> DEFINE a == Updated(id, in)
  <2>1. /\ a.gen <= MaxGen /\ auths' = [auths EXCEPT ![id] = a]
        /\ worker' = [worker EXCEPT ![w] = Upsert(id, a)] /\ authEpochs' = authEpochs
        /\ Live(id)
    BY <1>2 DEF ApplyUpdate, Then
  <2>2. a \in AuthRecord /\ a.epoch = authEpochs[id] /\ a.gen > auths[id].gen
    BY <2>1, UpdatedRecord
  <2> HIDE DEF a
  <2> QED BY <2>1, <2>2 DEF Renewed, Doing
<1> QED BY <1>1, <1>2

\* Every change of a credential renews it, but for an update that comes too late.
LEMMA Renewals ==
    ASSUME Typed, NEW w \in Workers, Renewal(w)
    PROVE (\E id \in Auths, a \in AuthRecord : Renewed(w, id, a)) \/ Dropped(w)
<1>1. CASE \E id \in Auths, enabled \in BOOLEAN : Register(w, id, enabled)
  <2>1. PICK id \in Auths, enabled \in BOOLEAN : Register(w, id, enabled)
    BY <1>1
  <2> DEFINE a == [epoch |-> authEpochs[id] + 1, gen |-> 1, enabled |-> enabled, states |-> "none"]
  <2>2. authEpochs[id] + 1 \in 1..MaxEpoch
    BY <2>1, BoundsAssumption DEF Register, Typed, TypeOK
  <2>3. a \in AuthRecord /\ a.epoch = authEpochs[id] + 1
    BY <2>2, BoundsAssumption DEF AuthRecord, Contents
  <2>4. /\ auths' = [auths EXCEPT ![id] = a] /\ authEpochs' = [authEpochs EXCEPT ![id] = @ + 1]
        /\ authEpochs[id] < MaxEpoch
        /\ worker' = [worker EXCEPT ![w] = Upsert(id, a)]
        /\ UNCHANGED <<schedulerVars, syncs>> /\ worker[w] = Idle
    BY <2>1 DEF Register, Then
  <2>5. authEpochs'[id] = authEpochs[id] + 1
    BY <2>4 DEF Typed, TypeOK
  <2> HIDE DEF a
  <2> QED BY <2>3, <2>4, <2>5 DEF Renewed, Doing
<1>2. CASE \E id \in Auths, enabled \in BOOLEAN : UpdateFresh(w, id, enabled)
  <2>1. PICK id \in Auths, enabled \in BOOLEAN : UpdateFresh(w, id, enabled)
    BY <1>2
  <2> DEFINE in == [epoch |-> 0, gen |-> 0, enabled |-> enabled, states |-> "none"]
  <2>2. in \in [epoch : 0..MaxEpoch, gen : 0..MaxGen, enabled : BOOLEAN, states : Contents]
    BY BoundsAssumption DEF Contents
  <2>3. ApplyUpdate(w, id, in) /\ Live(id) /\ worker[w] = Idle /\ UNCHANGED <<schedulerVars, syncs>>
    BY <2>1 DEF UpdateFresh
  <2>4. ~StaleRegistration(id, in)
    BY DEF StaleRegistration
  <2> HIDE DEF in
  <2> QED BY <2>2, <2>3, <2>4, UpdateRenews
<1>3. CASE \E enabled \in BOOLEAN : UpdateClone(w, enabled)
  <2>1. PICK enabled \in BOOLEAN : UpdateClone(w, enabled)
    BY <1>3
  <2> DEFINE in == [worker[w].auth EXCEPT !.enabled = enabled]
             id == worker[w].id
  <2>2. id \in Auths /\ worker[w].auth \in AuthRecord
    BY <2>1, Shapes DEF UpdateClone, Typed
  <2>3. in \in [epoch : 0..MaxEpoch, gen : 0..MaxGen, enabled : BOOLEAN, states : Contents]
    <3>1. in \in AuthRecord
      BY <2>2 DEF AuthRecord
    <3> QED BY <3>1, BoundsAssumption DEF AuthRecord
  <2>4. ApplyUpdate(w, id, in) /\ Doing(w, "clone") /\ UNCHANGED <<schedulerVars, syncs>>
    BY <2>1 DEF UpdateClone
  <2> HIDE DEF in, id
  <2> QED BY <2>2, <2>3, <2>4, UpdateRenews DEF Dropped
<1>4. CASE \E id \in Auths : (\E success \in BOOLEAN : MarkResult(w, id, success))
             \/ ResetQuota(w, id) \/ Reconcile(w, id)
  BY <1>4, MutateRenews DEF MarkResult, ResetQuota, Reconcile, Contents
<1> QED BY <1>1, <1>2, <1>3, <1>4 DEF Renewal

\* Version v is not older than u.
NotOlder(v, u) == v.epoch > u.epoch \/ (v.epoch = u.epoch /\ v.gen >= u.gen)

\* What one upsert does to the entry of an id.
LEMMA UpsertOutcome ==
    ASSUME TypeOK, NEW id \in Auths, NEW a \in AuthRecord, NEW held \in AuthRecord \union {Absent}
    PROVE /\ Upserted(id, held, a) \in {held, a, Absent}
          /\ Upserted(id, held, a) \in AuthRecord \union {Absent}
          /\ Recorded(id, a) \in Version
          /\ NotOlder(Recorded(id, a), versions[id])
          /\ NotOlder(Recorded(id, a), a)
          /\ \/ Stale(id, a) /\ Recorded(id, a) = versions[id] /\ Upserted(id, held, a) = held
             \/ /\ NotOlder(a, versions[id])
                /\ Recorded(id, a) = [epoch |-> a.epoch, gen |-> a.gen]
                /\ Upserted(id, held, a) = IF a.enabled THEN a ELSE Absent
<1>1. versions[id] \in Version /\ versions[id].epoch \in Nat /\ versions[id].gen \in Nat
  BY BoundsAssumption DEF TypeOK, Version
<1>2. a.epoch \in Nat /\ a.gen \in Nat /\ [epoch |-> a.epoch, gen |-> a.gen] \in Version
  BY Records
<1>3. CASE Stale(id, a)
  BY <1>1, <1>2, <1>3 DEF Upserted, Recorded, NotOlder, Stale
<1>4. CASE ~Stale(id, a)
  BY <1>1, <1>2, <1>4 DEF Upserted, Recorded, NotOlder, Stale
<1> QED BY <1>3, <1>4

\* A live credential is a copy of the current registration.
LEMMA LiveTyped ==
    ASSUME Typed, NEW id \in Auths, Live(id)
    PROVE auths[id] \in AuthRecord /\ auths[id].epoch = authEpochs[id] /\ auths[id] # Absent
BY DEF Typed, TypeOK, Live

\* Steps that only move on to the next call.
LEMMA PassedTyped ==
    ASSUME Typed, NEW w \in Workers,
           \/ StartSync(w) \/ SnapshotAuths(w) \/ LoadSync(w) \/ Dropped(w)
           \/ \E id \in Auths : TakeClone(w, id) \/ RefreshSchedulerEntry(w, id)
    PROVE Typed' /\ UNCHANGED <<managerVars, schedulerVars>>
<1>1. UNCHANGED <<managerVars, schedulerVars>>
  BY DEF StartSync, SnapshotAuths, LoadSync, Dropped, TakeClone, RefreshSchedulerEntry
<1>2. syncs' \in 0..MaxSyncs
  BY BoundsAssumption DEF Typed, TypeOK, StartSync, SnapshotAuths, LoadSync, Dropped, TakeClone,
       RefreshSchedulerEntry
<1>3. \E c \in Calls \union {Idle} : worker' = [worker EXCEPT ![w] = c]
  <2>1. auths \in [Auths -> AuthRecord \union {Absent}]
    BY DEF Typed, TypeOK
  <2>2. CASE \E id \in Auths : TakeClone(w, id) \/ RefreshSchedulerEntry(w, id)
    BY <2>2, LiveTyped, MadeCalls DEF TakeClone, RefreshSchedulerEntry, Then
  <2>3. CASE StartSync(w) \/ LoadSync(w)
    BY <2>3, MadeCalls DEF StartSync, LoadSync, Then
  <2>4. CASE SnapshotAuths(w)
    BY <2>1, <2>4, MadeCalls DEF SnapshotAuths, Then
  <2>5. CASE Dropped(w)
    BY <2>5 DEF Dropped
  <2> QED BY <2>2, <2>3, <2>4, <2>5
<1>4. worker' \in [Workers -> Calls \union {Idle}]
  BY <1>3 DEF Typed, TypeOK
<1> QED BY <1>1, <1>2, <1>4 DEF Typed, TypeOK, managerVars, schedulerVars, Live

\* A renewed credential is of the registration it says it is.
LEMMA RenewedTyped ==
    ASSUME Typed, NEW w \in Workers, NEW id \in Auths, NEW a \in AuthRecord, Renewed(w, id, a)
    PROVE Typed'
<1>1. authEpochs' \in [Auths -> 0..MaxEpoch]
  BY BoundsAssumption DEF Renewed, Typed, TypeOK
<1>2. auths' \in [Auths -> AuthRecord \union {Absent}]
  BY DEF Renewed, Typed, TypeOK
<1>3. worker' \in [Workers -> Calls \union {Idle}]
  BY MadeCalls DEF Renewed, Typed, TypeOK
<1>4. \A i \in Auths : Live(i)' => auths'[i].epoch = authEpochs'[i]
  BY DEF Renewed, Typed, TypeOK, Live
<1> QED BY <1>1, <1>2, <1>3, <1>4 DEF Renewed, Typed, TypeOK, schedulerVars

\* Steps of the Manager alone.
LEMMA ManagerTyped ==
    ASSUME Typed,
           \/ \E w \in Workers : Load(w) \/ \E id \in Auths : Remove(w, id)
           \/ \E id \in Auths : BumpGeneration(id)
    PROVE Typed'
<1>0. /\ auths \in [Auths -> AuthRecord \union {Absent}]
      /\ authEpochs \in [Auths -> 0..MaxEpoch]
      /\ worker \in [Workers -> Calls \union {Idle}]
  BY DEF Typed, TypeOK
<1>1. CASE \E w \in Workers, id \in Auths : Remove(w, id)
  <2>1. PICK w \in Workers, id \in Auths : Remove(w, id)
    BY <1>1
  <2>2. authEpochs[id] + 1 \in 1..MaxEpoch /\ authEpochs[id] + 1 \in 0..MaxEpoch
    BY <1>0, <2>1, BoundsAssumption DEF Remove
  <2>3. Tombstone(id, authEpochs[id] + 1) \in Calls
    BY <2>2, MadeCalls
  <2>4. /\ auths' \in [Auths -> AuthRecord \union {Absent}]
        /\ authEpochs' \in [Auths -> 0..MaxEpoch]
        /\ worker' \in [Workers -> Calls \union {Idle}]
    BY <1>0, <2>1, <2>2, <2>3 DEF Remove, Then
  <2>5. \A i \in Auths : Live(i)' => auths'[i].epoch = authEpochs'[i]
    BY <1>0, <2>1 DEF Remove, Live, Typed
  <2> QED BY <2>1, <2>4, <2>5 DEF Remove, Typed, TypeOK, schedulerVars
<1>2. CASE \E id \in Auths : BumpGeneration(id)
  <2>1. PICK id \in Auths : BumpGeneration(id)
    BY <1>2
  <2>2. auths[id] \in AuthRecord /\ auths[id].gen < MaxGen /\ Live(id)
    BY <2>1, LiveTyped DEF BumpGeneration
  <2>3. auths[id].gen + 1 \in 1..MaxGen
    <3>1. auths[id].gen \in 1..MaxGen
      BY <2>2, Records
    <3> QED BY <2>2, <3>1, BoundsAssumption
  <2>4. [auths[id] EXCEPT !.gen = @ + 1] \in AuthRecord
          /\ [auths[id] EXCEPT !.gen = @ + 1].epoch = auths[id].epoch
    BY <2>2, <2>3 DEF AuthRecord
  <2>5. auths' = [auths EXCEPT ![id] = [auths[id] EXCEPT !.gen = @ + 1]]
    BY <1>0, <2>1 DEF BumpGeneration
  <2>6. auths' \in [Auths -> AuthRecord \union {Absent}]
    BY <1>0, <2>4, <2>5
  <2>7. \A i \in Auths : Live(i)' => auths'[i].epoch = authEpochs'[i]
    BY <1>0, <2>1, <2>2, <2>4, <2>5 DEF BumpGeneration, Live, Typed
  <2> QED BY <2>1, <2>6, <2>7 DEF BumpGeneration, Typed, TypeOK, schedulerVars
<1>3. CASE \E w \in Workers : Load(w)
  <2>0. PICK w \in Workers : Load(w)
    BY <1>3
  <2>1. PICK items \in SUBSET Auths, enabled \in SUBSET Auths :
          LET gone == {id \in Auths \ items : Live(id)} IN
          /\ authEpochs' = [id \in Auths |-> IF id \in items \union gone
                                             THEN authEpochs[id] + 1 ELSE authEpochs[id]]
          /\ auths' = [id \in Auths |->
                         IF id \in items
                         THEN [epoch |-> authEpochs'[id], gen |-> 1,
                               enabled |-> id \in enabled, states |-> "none"]
                         ELSE Absent]
          /\ Then(w, LoadRest({<<id, authEpochs'[id]>> : id \in gone}))
    BY <2>0 DEF Load
  <2> DEFINE gone == {id \in Auths \ items : Live(id)}
  <2>2. \A id \in Auths : authEpochs[id] + 1 \in 1..MaxEpoch /\ authEpochs[id] + 1 \in 0..MaxEpoch
    BY <1>0, <2>0, BoundsAssumption DEF Load
  <2>3. /\ authEpochs' \in [Auths -> 0..MaxEpoch]
        /\ \A id \in items \union gone : authEpochs'[id] \in 1..MaxEpoch
    BY <1>0, <2>1, <2>2
  <2>4. auths' \in [Auths -> AuthRecord \union {Absent}]
    <3>1. \A id \in items : [epoch |-> authEpochs'[id], gen |-> 1, enabled |-> id \in enabled,
                             states |-> "none"] \in AuthRecord
      BY <2>3, BoundsAssumption DEF AuthRecord, Contents
    <3> QED BY <2>1, <3>1
  <2>5. worker' \in [Workers -> Calls \union {Idle}]
    <3>1. {<<id, authEpochs'[id]>> : id \in gone} \in SUBSET (Auths \X (1..MaxEpoch))
      BY <2>3
    <3>2. LoadRest({<<id, authEpochs'[id]>> : id \in gone}) \in Calls
      BY <3>1, MadeCalls
    <3> QED BY <1>0, <2>1, <3>2 DEF Then
  <2>6. \A i \in Auths : Live(i)' => auths'[i].epoch = authEpochs'[i]
    BY <2>1 DEF Live
  <2>7. syncs' \in 0..MaxSyncs
    BY <2>0, BoundsAssumption DEF Load, Typed, TypeOK
  <2> QED BY <2>0, <2>3, <2>4, <2>5, <2>6, <2>7 DEF Load, Typed, TypeOK, schedulerVars
<1> QED BY <1>1, <1>2, <1>3

-----------------------------------------------------------------------------
(* The scheduler section *)

\* What a scheduler section does to the entries: upserts, or a tombstone.
Upserts(id, held, a) ==
    /\ sched'[id] = Upserted(id, held, a)
    /\ versions'[id] = Recorded(id, a)
Buries(id, e) ==
    \/ e < versions[id].epoch /\ sched'[id] = sched[id] /\ versions'[id] = versions[id]
    \/ e >= versions[id].epoch /\ sched'[id] = Absent /\ versions'[id] = [epoch |-> e, gen |-> 0]
Untouched(id) == sched'[id] = sched[id] /\ versions'[id] = versions[id]

\* A tombstone takes its credential out of the shards and touches no other.
LEMMA BuryEffect ==
    ASSUME TypeOK, NEW id \in Auths, NEW e \in 1..MaxEpoch, Bury(id, e)
    PROVE /\ sched' \in [Auths -> AuthRecord \union {Absent}] /\ versions' \in [Auths -> Version]
          /\ Buries(id, e)
          /\ \A i \in Auths : i # id => Untouched(i)
<1>1. versions[id].epoch \in Nat /\ e \in Nat /\ [epoch |-> e, gen |-> 0] \in Version
  BY BoundsAssumption DEF TypeOK, Version
<1>2. CASE e < versions[id].epoch
  BY <1>2 DEF Bury, Buries, Untouched, TypeOK, schedulerVars
<1>3. CASE ~(e < versions[id].epoch)
  BY <1>1, <1>3 DEF Bury, Buries, Untouched, TypeOK
<1> QED BY <1>2, <1>3

\* Steps of the scheduler, and what they do to the shards.
LEMMA SchedulerTyped ==
    ASSUME Typed, NEW w \in Workers,
           \/ UpsertAuth(w) \/ RecordRemovalTombstone(w) \/ LoadTombstone(w)
           \/ RebuildScheduler(w)
    PROVE /\ Typed'
          /\ UpsertAuth(w) =>
               /\ Upserts(worker[w].id, sched[worker[w].id], worker[w].auth)
               /\ \A i \in Auths : i # worker[w].id => Untouched(i)
          /\ RebuildScheduler(w) => \A i \in Auths :
               IF worker[w].snap[i] = Absent THEN sched'[i] = Absent /\ versions'[i] = versions[i]
                                             ELSE Upserts(i, Absent, worker[w].snap[i])
<1>0. /\ sched \in [Auths -> AuthRecord \union {Absent}] /\ versions \in [Auths -> Version]
      /\ TypeOK /\ worker \in [Workers -> Calls \union {Idle}]
  BY DEF Typed, TypeOK
<1>1. UNCHANGED <<managerVars, syncs>>
  BY DEF UpsertAuth, RecordRemovalTombstone, LoadTombstone, RebuildScheduler
<1>2. CASE UpsertAuth(w)
  <2>1. worker[w].id \in Auths /\ worker[w].auth \in AuthRecord
    BY <1>0, <1>2, Shapes DEF UpsertAuth
  <2>2. /\ sched' = [sched EXCEPT ![worker[w].id] = Upserted(worker[w].id, @, worker[w].auth)]
        /\ versions' = [versions EXCEPT ![worker[w].id] = Recorded(worker[w].id, worker[w].auth)]
        /\ worker' = [worker EXCEPT ![w] = Idle]
    BY <1>2 DEF UpsertAuth, Then
  <2>3. /\ sched' \in [Auths -> AuthRecord \union {Absent}] /\ versions' \in [Auths -> Version]
        /\ worker' \in [Workers -> Calls \union {Idle}]
    BY <1>0, <2>1, <2>2, UpsertOutcome
  <2>4. /\ Upserts(worker[w].id, sched[worker[w].id], worker[w].auth)
        /\ \A i \in Auths : i # worker[w].id => Untouched(i)
    BY <1>0, <2>1, <2>2 DEF Upserts, Untouched
  <2>5. ~RebuildScheduler(w)
    BY <1>2 DEF UpsertAuth, RebuildScheduler, Doing
  <2> QED BY <1>1, <2>3, <2>4, <2>5 DEF Typed, TypeOK, Live, managerVars
<1>3. CASE RecordRemovalTombstone(w) \/ LoadTombstone(w)
  <2>1. sched' \in [Auths -> AuthRecord \union {Absent}] /\ versions' \in [Auths -> Version]
    <3>1. CASE RecordRemovalTombstone(w)
      BY <1>0, <3>1, Shapes, BuryEffect DEF RecordRemovalTombstone
    <3>2. CASE LoadTombstone(w)
      <4>1. PICK t \in worker[w].tombs : Bury(t[1], t[2])
        BY <3>2 DEF LoadTombstone
      <4>2. t[1] \in Auths /\ t[2] \in 1..MaxEpoch
        BY <1>0, <3>2, <4>1, Shapes DEF LoadTombstone
      <4> QED BY <1>0, <4>1, <4>2, BuryEffect
    <3> QED BY <1>3, <3>1, <3>2
  <2>2. \E c \in Calls \union {Idle} : worker' = [worker EXCEPT ![w] = c]
    <3>1. CASE RecordRemovalTombstone(w)
      BY <3>1 DEF RecordRemovalTombstone, Then
    <3>2. CASE LoadTombstone(w)
      <4>1. PICK t \in worker[w].tombs : worker' = [worker EXCEPT ![w] = LoadRest(worker[w].tombs \ {t})]
        BY <3>2 DEF LoadTombstone, Then
      <4>2. worker[w].tombs \ {t} \in SUBSET (Auths \X (1..MaxEpoch))
        BY <1>0, <3>2, Shapes DEF LoadTombstone
      <4> QED BY <4>1, <4>2, MadeCalls
    <3> QED BY <1>3, <3>1, <3>2
  <2>3. worker' \in [Workers -> Calls \union {Idle}]
    BY <1>0, <2>2
  <2>4. ~UpsertAuth(w) /\ ~RebuildScheduler(w)
    BY <1>3 DEF RecordRemovalTombstone, LoadTombstone, UpsertAuth, RebuildScheduler, Doing
  <2> QED BY <1>1, <2>1, <2>3, <2>4 DEF Typed, TypeOK, Live, managerVars
<1>4. CASE RebuildScheduler(w)
  <2>1. worker[w].snap \in [Auths -> AuthRecord \union {Absent}]
    BY <1>0, <1>4, Shapes DEF RebuildScheduler
  <2>2. \A i \in Auths :
          IF worker[w].snap[i] = Absent THEN sched'[i] = Absent /\ versions'[i] = versions[i]
                                        ELSE Upserts(i, Absent, worker[w].snap[i])
    BY <1>4 DEF RebuildScheduler, Upserts
  <2>3. sched' \in [Auths -> AuthRecord \union {Absent}] /\ versions' \in [Auths -> Version]
    <3>1. \A i \in Auths : sched'[i] \in AuthRecord \union {Absent} /\ versions'[i] \in Version
      <4> TAKE i \in Auths
      <4>1. CASE worker[w].snap[i] = Absent
        BY <1>0, <2>2, <4>1
      <4>2. CASE worker[w].snap[i] # Absent
        BY <1>0, <2>1, <2>2, <4>2, UpsertOutcome DEF Upserts
      <4> QED BY <4>1, <4>2
    <3> QED BY <1>4, <3>1 DEF RebuildScheduler
  <2>4. worker' \in [Workers -> Calls \union {Idle}]
    BY <1>0, <1>4 DEF RebuildScheduler, Then
  <2>5. ~UpsertAuth(w)
    BY <1>4 DEF UpsertAuth, RebuildScheduler, Doing
  <2> QED BY <1>1, <2>2, <2>3, <2>4, <2>5 DEF Typed, TypeOK, Live, managerVars
<1> QED BY <1>2, <1>3, <1>4

\* A failed refresh of a live auth changes the Manager and the shards at once.
LEMMA RefreshTyped ==
    ASSUME Typed, NEW w \in Workers, RefreshFails(w)
    PROVE /\ Typed'
          /\ \/ UNCHANGED <<managerVars, schedulerVars>>
             \/ LET id == worker[w].id
                    a == auths'[id]
                IN /\ Live(id) /\ id \in Auths /\ a \in AuthRecord
                   /\ a = [auths[id] EXCEPT !.gen = a.gen] /\ a.gen > auths[id].gen
                   /\ auths' = [auths EXCEPT ![id] = a] /\ authEpochs' = authEpochs
                   /\ Upserts(id, sched[id], a)
                   /\ \A i \in Auths : i # id => Untouched(i)
          /\ Doing(w, "clone") /\ worker' = [worker EXCEPT ![w] = Idle] /\ syncs' = syncs
<1>0. /\ sched \in [Auths -> AuthRecord \union {Absent}] /\ versions \in [Auths -> Version]
      /\ TypeOK /\ worker \in [Workers -> Calls \union {Idle}]
      /\ auths \in [Auths -> AuthRecord \union {Absent}]
  BY DEF Typed, TypeOK
<1>1. Doing(w, "clone") /\ worker' = [worker EXCEPT ![w] = Idle] /\ syncs' = syncs
  BY DEF RefreshFails, Then
<1>2. worker' \in [Workers -> Calls \union {Idle}]
  BY <1>0, <1>1
<1>3. CASE ~Live(worker[w].id)
  <2>1. UNCHANGED <<managerVars, schedulerVars>>
    BY <1>3 DEF RefreshFails
  <2> QED BY <1>1, <1>2, <2>1 DEF Typed, TypeOK, Live, managerVars, schedulerVars
<1>4. CASE Live(worker[w].id)
  <2> DEFINE id == worker[w].id
             a == [auths[id] EXCEPT !.gen = @ + 1]
  <2>1. id \in Auths /\ auths[id] \in AuthRecord /\ auths[id].epoch = authEpochs[id]
    BY <1>0, <1>1, <1>4, Shapes, LiveTyped
  <2>2. /\ a.gen <= MaxGen /\ auths' = [auths EXCEPT ![id] = a]
        /\ sched' = [sched EXCEPT ![id] = Upserted(id, @, a)]
        /\ versions' = [versions EXCEPT ![id] = Recorded(id, a)]
        /\ authEpochs' = authEpochs
    BY <1>4 DEF RefreshFails
  <2>3. auths[id].gen \in 1..MaxGen /\ a.gen = auths[id].gen + 1 /\ a.epoch = auths[id].epoch
          /\ a.enabled = auths[id].enabled /\ a.states = auths[id].states
    BY <2>1 DEF AuthRecord
  <2>4. a.gen \in 1..MaxGen /\ a.gen > auths[id].gen
    BY <2>2, <2>3, BoundsAssumption
  <2>5. a \in AuthRecord /\ a = [auths[id] EXCEPT !.gen = a.gen]
    BY <2>1, <2>3, <2>4 DEF AuthRecord
  <2> HIDE DEF a
  <2>6. auths'[id] = a /\ auths' \in [Auths -> AuthRecord \union {Absent}]
    BY <1>0, <2>1, <2>2, <2>5
  <2>7. sched' \in [Auths -> AuthRecord \union {Absent}] /\ versions' \in [Auths -> Version]
    BY <1>0, <2>1, <2>2, <2>5, UpsertOutcome
  <2>8. Upserts(id, sched[id], a) /\ \A i \in Auths : i # id => Untouched(i)
    <3>1. Upserts(id, sched[id], a)
      BY <1>0, <2>1, <2>2 DEF Upserts
    <3>2. PICK u, v : sched' = [sched EXCEPT ![id] = u] /\ versions' = [versions EXCEPT ![id] = v]
      BY <2>2
    <3>3. \A i \in Auths : i # id => Untouched(i)
      BY <1>0, <2>1, <3>2 DEF Untouched
    <3> QED BY <3>1, <3>3
  <2>9. Typed'
    BY <1>0, <1>1, <1>2, <2>1, <2>2, <2>3, <2>6, <2>7 DEF Typed, TypeOK, Live, a
  <2> QED BY <1>1, <1>4, <2>1, <2>2, <2>4, <2>5, <2>6, <2>8, <2>9
<1> QED BY <1>3, <1>4

-----------------------------------------------------------------------------
(* Types and shards of every step *)

\* The kinds of steps: a new copy is handed over; a worker moves on; the Manager
\* changes alone; the shards change; both change.
Passing(w) ==
    \/ StartSync(w) \/ SnapshotAuths(w) \/ LoadSync(w) \/ Dropped(w)
    \/ \E id \in Auths : TakeClone(w, id) \/ RefreshSchedulerEntry(w, id)
ManagerOnly ==
    \/ \E w \in Workers : Load(w) \/ \E id \in Auths : Remove(w, id)
    \/ \E id \in Auths : BumpGeneration(id)
Scheduling(w) == UpsertAuth(w) \/ RecordRemovalTombstone(w) \/ LoadTombstone(w) \/ RebuildScheduler(w)

\* Every step renews a credential, moves on, reaches the scheduler or is the Manager's.
LEMMA Kinds ==
    ASSUME Typed, [Next]_vars
    PROVE \/ \E w \in Workers :
               \/ \E id \in Auths, a \in AuthRecord : Renewed(w, id, a)
               \/ Passing(w)
               \/ Scheduling(w)
               \/ RefreshFails(w)
          \/ ManagerOnly
          \/ UNCHANGED vars
<1>1. \/ \E w \in Workers : Renewal(w) \/ Passing(w) \/ Scheduling(w) \/ RefreshFails(w)
      \/ ManagerOnly
      \/ UNCHANGED vars
  BY DEF Next, ManagerStep, Continue, Renewal, Passing, Scheduling, ManagerOnly
<1>2. \A w \in Workers : Renewal(w) =>
        (\E id \in Auths, a \in AuthRecord : Renewed(w, id, a)) \/ Passing(w)
  BY Renewals DEF Passing
<1> QED BY <1>1, <1>2

\* The types are kept.
LEMMA TypedKept ==
    ASSUME Typed, [Next]_vars
    PROVE Typed'
<1>1. CASE UNCHANGED vars
  BY <1>1 DEF vars, managerVars, schedulerVars, Typed, TypeOK, Live
<1>2. CASE \E w \in Workers : Passing(w)
  BY <1>2, PassedTyped DEF Passing
<1>3. CASE \E w \in Workers : Scheduling(w)
  BY <1>3, SchedulerTyped DEF Scheduling
<1>4. CASE ManagerOnly
  BY <1>4, ManagerTyped DEF ManagerOnly
<1> QED BY <1>1, <1>2, <1>3, <1>4, Kinds, RenewedTyped, RefreshTyped

Match(id) == sched[id] # Absent =>
               versions[id] = [epoch |-> sched[id].epoch, gen |-> sched[id].gen]

\* What an upsert leaves in the shards is the version it records.
LEMMA UpsertsMatch ==
    ASSUME TypeOK, NEW id \in Auths, NEW a \in AuthRecord, NEW held \in AuthRecord \union {Absent},
           held = Absent \/ held = sched[id], Match(id), Upserts(id, held, a)
    PROVE Match(id)'
BY UpsertOutcome DEF Match, Upserts

\* The shards hold the newest version they were told of.
LEMMA ShardsKept ==
    ASSUME Typed, ShardsHoldNewest, [Next]_vars
    PROVE ShardsHoldNewest'
<1> SUFFICES ASSUME NEW id \in Auths PROVE Match(id)'
  BY DEF ShardsHoldNewest, Match
<1>0. Match(id) /\ TypeOK /\ sched[id] \in AuthRecord \union {Absent}
  BY DEF ShardsHoldNewest, Match, Typed, TypeOK
<1>1. CASE Untouched(id)
  BY <1>0, <1>1 DEF Match, Untouched
<1>2. CASE \E w \in Workers : Scheduling(w)
  <2>1. PICK w \in Workers : Scheduling(w)
    BY <1>2
  <2>2. CASE UpsertAuth(w)
    <3>1. worker[w].id \in Auths /\ worker[w].auth \in AuthRecord
      BY <1>0, <2>2, Shapes DEF UpsertAuth
    <3> QED BY <1>0, <1>1, <2>1, <2>2, <3>1, SchedulerTyped, UpsertsMatch DEF Scheduling
  <2>3. CASE RebuildScheduler(w)
    <3>1. worker[w].snap[id] \in AuthRecord \union {Absent}
      BY <1>0, <2>3, Shapes DEF RebuildScheduler
    <3>2. CASE worker[w].snap[id] = Absent
      BY <2>1, <2>3, <3>2, SchedulerTyped DEF Match, Scheduling
    <3>3. CASE worker[w].snap[id] # Absent
      <4>1. Upserts(id, Absent, worker[w].snap[id])
        BY <2>1, <2>3, <3>3, SchedulerTyped DEF Scheduling
      <4> QED BY <1>0, <3>1, <3>3, <4>1, UpsertsMatch
    <3> QED BY <3>2, <3>3
  <2>4. CASE RecordRemovalTombstone(w) \/ LoadTombstone(w)
    <3>1. \E i \in Auths, e \in 1..MaxEpoch : Bury(i, e)
      <4>1. CASE RecordRemovalTombstone(w)
        BY <1>0, <4>1, Shapes DEF RecordRemovalTombstone
      <4>2. CASE LoadTombstone(w)
        <5>1. PICK t \in worker[w].tombs : Bury(t[1], t[2])
          BY <4>2 DEF LoadTombstone
        <5>2. t[1] \in Auths /\ t[2] \in 1..MaxEpoch
          BY <1>0, <4>2, <5>1, Shapes DEF LoadTombstone
        <5> QED BY <5>1, <5>2
      <4> QED BY <2>4, <4>1, <4>2
    <3>2. PICK i \in Auths, e \in 1..MaxEpoch : Bury(i, e)
      BY <3>1
    <3>3. CASE i = id
      BY <1>0, <3>2, <3>3, BuryEffect DEF Buries, Match
    <3>4. CASE i # id
      BY <1>0, <1>1, <3>2, <3>4, BuryEffect
    <3> QED BY <3>3, <3>4
  <2> QED BY <2>1, <2>2, <2>3, <2>4 DEF Scheduling
<1>3. CASE \E w \in Workers : RefreshFails(w)
  <2>1. PICK w \in Workers : RefreshFails(w)
    BY <1>3
  <2>2. CASE UNCHANGED schedulerVars
    BY <1>1, <2>2 DEF Untouched, schedulerVars
  <2>3. CASE ~UNCHANGED schedulerVars
    <3>1. PICK i \in Auths, a \in AuthRecord :
            Upserts(i, sched[i], a) /\ \A j \in Auths : j # i => Untouched(j)
      BY <2>1, <2>3, RefreshTyped
    <3> QED BY <1>0, <1>1, <3>1, UpsertsMatch
  <2> QED BY <2>2, <2>3
<1>4. CASE UNCHANGED schedulerVars
  BY <1>1, <1>4 DEF Untouched, schedulerVars
<1>5. /\ UNCHANGED vars => UNCHANGED schedulerVars
      /\ ManagerOnly => UNCHANGED schedulerVars
      /\ \A w \in Workers : Passing(w) => UNCHANGED schedulerVars
      /\ \A w \in Workers, i \in Auths, a \in AuthRecord : Renewed(w, i, a) => UNCHANGED schedulerVars
  <2>1. UNCHANGED vars => UNCHANGED schedulerVars
    BY DEF vars
  <2>2. ManagerOnly => UNCHANGED schedulerVars
    BY DEF ManagerOnly, Load, Remove, BumpGeneration
  <2>3. \A w \in Workers : Passing(w) => UNCHANGED schedulerVars
    BY PassedTyped DEF Passing
  <2>4. \A w \in Workers, i \in Auths, a \in AuthRecord : Renewed(w, i, a) => UNCHANGED schedulerVars
    BY DEF Renewed
  <2> QED BY <2>1, <2>2, <2>3, <2>4
<1> QED BY <1>2, <1>3, <1>4, <1>5, Kinds

-----------------------------------------------------------------------------
(* What one step does to the registrations and copies of one credential *)

\* The Manager's record is replaced by a newer one or stays as it is.
Advanced(id) ==
    \/ authEpochs'[id] > authEpochs[id]
    \/ /\ authEpochs'[id] = authEpochs[id]
       /\ auths'[id] = auths[id] \/ (Live(id) /\ Live(id)' /\ auths'[id].gen > auths[id].gen)

\* New copies are what the Manager has now, new removals are of its last change.
Sourced(id) ==
    /\ \A w \in Workers, c \in AuthRecord :
         Carries(worker'[w], id, c) => Copy(id, c) \/ c = auths'[id]
    /\ \A w \in Workers, e \in 1..MaxEpoch :
         Announces(worker'[w], id, e) =>
           Removal(id, e) \/ (~Live(id)' /\ e = authEpochs'[id] /\ e > authEpochs[id])

\* The shards change by a copy, by a removal or, in a rebuild, by a credential
\* the snapshot does not have.
Arrived(id) ==
    \/ Untouched(id)
    \/ \E c \in AuthRecord, held \in AuthRecord \union {Absent} :
         /\ Copy(id, c) \/ c = auths'[id]
         /\ held = sched[id] \/ (held = Absent /\ \E w \in Workers : Doing(w, "rebuild"))
         /\ Upserts(id, held, c)
    \/ \E e \in 1..MaxEpoch : Removal(id, e) /\ Buries(id, e)
    \/ /\ \E w \in Workers : Doing(w, "rebuild")
       /\ sched'[id] = Absent /\ versions'[id] = versions[id]

\* Where a version of id comes from after a step.
LEMMA ArrivedVersions ==
    ASSUME TypeOK, TypeOK', NEW id \in Auths, NothingNewerOf(id), Arrived(id)
    PROVE /\ NotOlder(versions'[id], versions[id])
          /\ \/ versions'[id] = versions[id]
             \/ \E c \in AuthRecord : /\ Copy(id, c) \/ c = auths'[id]
                                      /\ versions'[id] = [epoch |-> c.epoch, gen |-> c.gen]
             \/ \E e \in 1..MaxEpoch : Removal(id, e) /\ versions'[id] = [epoch |-> e, gen |-> 0]
          /\ \A c \in AuthRecord : sched'[id] = c => Copy(id, c) \/ c = auths'[id]
<1>0. /\ versions[id].epoch \in Nat /\ versions[id].gen \in Nat
      /\ sched[id] \in AuthRecord \union {Absent}
  BY BoundsAssumption DEF TypeOK, Version
<1>1. \A c \in AuthRecord : sched[id] = c => Copy(id, c)
  BY Records DEF Copy
<1>2. CASE Untouched(id)
  BY <1>0, <1>1, <1>2 DEF Untouched, NotOlder
<1>3. CASE \E c \in AuthRecord, held \in AuthRecord \union {Absent} :
             /\ Copy(id, c) \/ c = auths'[id]
             /\ held = sched[id] \/ (held = Absent /\ \E w \in Workers : Doing(w, "rebuild"))
             /\ Upserts(id, held, c)
  <2>1. PICK c \in AuthRecord, held \in AuthRecord \union {Absent} :
             /\ Copy(id, c) \/ c = auths'[id]
             /\ held = sched[id] \/ held = Absent
             /\ Upserts(id, held, c)
    BY <1>3
  <2>2. /\ sched'[id] \in {held, c, Absent}
        /\ NotOlder(versions'[id], versions[id])
        /\ versions'[id] = versions[id] \/ versions'[id] = [epoch |-> c.epoch, gen |-> c.gen]
    BY <2>1, UpsertOutcome DEF Upserts
  <2> QED BY <1>0, <1>1, <2>1, <2>2, Records
<1>4. CASE \E e \in 1..MaxEpoch : Removal(id, e) /\ Buries(id, e)
  <2>1. PICK e \in 1..MaxEpoch : Removal(id, e) /\ Buries(id, e)
    BY <1>4
  <2>2. versions[id].epoch = e => versions[id].gen = 0
    BY <2>1 DEF NothingNewerOf
  <2>3. e \in Nat
    BY BoundsAssumption
  <2>4. CASE e < versions[id].epoch
    BY <1>0, <1>1, <2>1, <2>3, <2>4 DEF Buries, NotOlder
  <2>5. CASE ~(e < versions[id].epoch)
    <3>1. sched'[id] = Absent /\ versions'[id] = [epoch |-> e, gen |-> 0]
      BY <1>0, <2>1, <2>3, <2>5 DEF Buries
    <3>2. NotOlder(versions'[id], versions[id])
      BY <1>0, <2>2, <2>3, <2>5, <3>1 DEF NotOlder
    <3> QED BY <2>1, <3>1, <3>2, NamesAssumption
  <2> QED BY <2>4, <2>5
<1>5. CASE sched'[id] = Absent /\ versions'[id] = versions[id]
  BY <1>0, <1>5, NamesAssumption DEF NotOlder
<1> QED BY <1>2, <1>3, <1>4, <1>5 DEF Arrived

\* Nobody comes to have anything newer than the Manager.
LEMMA NothingNewerKept ==
    ASSUME Typed, Typed', NEW id \in Auths, NothingNewerOf(id),
           Advanced(id), Sourced(id), Arrived(id)
    PROVE NothingNewerOf(id)'
<1> DEFINE Reach(v) ==
             /\ v.epoch <= authEpochs'[id]
             /\ Live(id)' /\ v.epoch = authEpochs'[id] => v.gen <= auths'[id].gen
<1>0. /\ authEpochs[id] \in Nat /\ authEpochs'[id] \in Nat /\ TypeOK /\ TypeOK'
      /\ versions[id].epoch \in Nat /\ versions[id].gen \in Nat
      /\ auths[id] \in AuthRecord \union {Absent} /\ auths'[id] \in AuthRecord \union {Absent}
  BY BoundsAssumption DEF Typed, TypeOK, Version
<1>1. /\ Live(id) => auths[id] \in AuthRecord /\ auths[id].gen \in Nat /\ auths[id].epoch = authEpochs[id]
      /\ Live(id)' => auths'[id] \in AuthRecord /\ auths'[id].gen \in Nat /\ auths'[id].epoch = authEpochs'[id]
  BY <1>0, Records DEF Typed, Live
<1>2. \A v : v.epoch \in Nat /\ v.gen \in Nat /\ Past(id, v) => Reach(v)
  BY <1>0, <1>1 DEF Past, Advanced, Live
<1>3. \A c \in AuthRecord : c = auths'[id] => Reach(c) /\ Live(id)'
  <2> SUFFICES ASSUME NEW c \in AuthRecord, c = auths'[id] PROVE Reach(c) /\ Live(id)'
    OBVIOUS
  <2>1. Live(id)'
    BY NamesAssumption DEF Live
  <2> QED BY <1>0, <1>1, <2>1
<1>4. \A c \in AuthRecord : Copy(id, c)' => Copy(id, c) \/ c = auths'[id]
  <2> SUFFICES ASSUME NEW c \in AuthRecord, Copy(id, c)' PROVE Copy(id, c) \/ c = auths'[id]
    OBVIOUS
  <2>1. CASE sched'[id] = c
    BY <1>0, <2>1, ArrivedVersions
  <2>2. CASE \E w \in Workers : Carries(worker'[w], id, c)
    BY <2>2 DEF Sourced
  <2> QED BY <2>1, <2>2 DEF Copy
<1>5. \A e \in 1..MaxEpoch : Removal(id, e)' =>
        Removal(id, e) \/ (~Live(id)' /\ e = authEpochs'[id] /\ e > authEpochs[id])
  BY DEF Sourced, Removal
<1>6. \A c \in AuthRecord : Copy(id, c) => Past(id, c) /\ Reach(c) /\ (~Live(id) => c.epoch < authEpochs[id])
  BY <1>2, Records DEF NothingNewerOf
<1>7. \A e \in 1..MaxEpoch : Removal(id, e) =>
        /\ e \in Nat /\ e <= authEpochs[id] /\ (Live(id) => e < authEpochs[id])
        /\ \A c \in AuthRecord : Copy(id, c) => c.epoch # e
  BY BoundsAssumption DEF NothingNewerOf
<1>8. \A e \in 1..MaxEpoch : Removal(id, e) => e <= authEpochs'[id] /\ (Live(id)' => e < authEpochs'[id])
  BY <1>0, <1>7 DEF Advanced, Live
<1>v. \/ versions'[id] = versions[id]
      \/ \E c \in AuthRecord : /\ Copy(id, c) \/ c = auths'[id]
                               /\ versions'[id].epoch = c.epoch /\ versions'[id].gen = c.gen
      \/ \E e \in 1..MaxEpoch :
           Removal(id, e) /\ versions'[id].epoch = e /\ versions'[id].gen = 0
  <2>1. \A x, y : versions'[id] = [epoch |-> x, gen |-> y] =>
                   versions'[id].epoch = x /\ versions'[id].gen = y
    OBVIOUS
  <2>2. \/ versions'[id] = versions[id]
        \/ \E c \in AuthRecord : /\ Copy(id, c) \/ c = auths'[id]
                                 /\ versions'[id] = [epoch |-> c.epoch, gen |-> c.gen]
        \/ \E e \in 1..MaxEpoch : Removal(id, e) /\ versions'[id] = [epoch |-> e, gen |-> 0]
    BY <1>0, ArrivedVersions
  <2>3. CASE \E c \in AuthRecord : /\ Copy(id, c) \/ c = auths'[id]
                                   /\ versions'[id] = [epoch |-> c.epoch, gen |-> c.gen]
    <3>1. PICK c \in AuthRecord : /\ Copy(id, c) \/ c = auths'[id]
                                  /\ versions'[id] = [epoch |-> c.epoch, gen |-> c.gen]
      BY <2>3
    <3>2. versions'[id].epoch = c.epoch /\ versions'[id].gen = c.gen
      BY <2>1, <3>1
    <3> QED BY <3>1, <3>2
  <2>4. CASE \E e \in 1..MaxEpoch : Removal(id, e) /\ versions'[id] = [epoch |-> e, gen |-> 0]
    BY <2>1, <2>4, Zenon
  <2> QED BY <2>2, <2>3, <2>4
<1>9. Reach(versions'[id])
  <2>1. Reach(versions[id])
    BY <1>0, <1>2 DEF NothingNewerOf
  <2>2. \A c \in AuthRecord : Copy(id, c) \/ c = auths'[id] =>
          Reach([epoch |-> c.epoch, gen |-> c.gen])
    BY <1>3, <1>6 DEF Past
  <2>3. \A e \in 1..MaxEpoch : Removal(id, e) => Reach([epoch |-> e, gen |-> 0])
    BY <1>1, <1>8 DEF Past
  <2> QED BY <1>0, <2>1, <2>2, <2>3, ArrivedVersions
<1>10. \A c \in AuthRecord : Copy(id, c)' => Reach(c) /\ (~Live(id)' => c.epoch < authEpochs'[id])
  <2> SUFFICES ASSUME NEW c \in AuthRecord, Copy(id, c)'
               PROVE Reach(c) /\ (~Live(id)' => c.epoch < authEpochs'[id])
    OBVIOUS
  <2>1. CASE Copy(id, c)
    <3>1. c.epoch \in Nat /\ c.epoch <= authEpochs[id]
      BY <1>6, <2>1, Records DEF Past
    <3> QED BY <1>0, <1>6, <2>1, <3>1 DEF Advanced, Live
  <2>2. CASE c = auths'[id]
    BY <1>3, <2>2
  <2> QED BY <1>4, <2>1, <2>2
<1>11. ASSUME NEW e \in 1..MaxEpoch, Removal(id, e)'
       PROVE /\ e <= authEpochs'[id] /\ (Live(id)' => e < authEpochs'[id])
             /\ versions'[id].epoch = e => versions'[id].gen = 0
             /\ \A c \in AuthRecord : Copy(id, c)' => c.epoch # e
  <2>1. CASE Removal(id, e)
    <3>1. e <= authEpochs'[id] /\ (Live(id)' => e < authEpochs'[id])
      BY <1>8, <2>1
    <3>2. \A c \in AuthRecord : Copy(id, c) \/ c = auths'[id] => c.epoch # e
      BY <1>1, <1>3, <1>7, <2>1, <3>1, <1>0
    <3>3. versions[id].epoch = e => versions[id].gen = 0
      BY <2>1 DEF NothingNewerOf
    <3>4. versions'[id].epoch = e => versions'[id].gen = 0
      BY <3>2, <3>3, <1>v
    <3> QED BY <1>4, <3>1, <3>2, <3>4
  <2>2. CASE ~Live(id)' /\ e = authEpochs'[id] /\ e > authEpochs[id]
    <3>1. \A c \in AuthRecord : Copy(id, c)' => c.epoch # e
      <4>1. \A c \in AuthRecord : Copy(id, c)' => c.epoch < authEpochs'[id] /\ c.epoch \in Nat
        BY <1>10, <2>2, Records
      <4> QED BY <1>0, <2>2, <4>1
    <3>2. \A c \in AuthRecord : Copy(id, c) \/ c = auths'[id] => c.epoch <= authEpochs[id] /\ c.epoch \in Nat
      BY <1>3, <1>6, <2>2, Records DEF Past
    <3>3. versions'[id].epoch # e
      <4>1. versions[id].epoch <= authEpochs[id]
        BY DEF NothingNewerOf, Past
      <4>2. versions'[id].epoch <= authEpochs[id] /\ versions'[id].epoch \in Nat
        BY <1>0, <1>7, <3>2, <4>1, <1>v
      <4> QED BY <1>0, <2>2, <4>2
    <3> QED BY <1>0, <2>2, <3>1, <3>3
  <2> QED BY <1>5, <1>11, <2>1, <2>2
<1> QED
  <2>1. Past(id, versions[id])' /\ \A c \in AuthRecord : Copy(id, c)' => Past(id, c)'
    BY <1>9, <1>10 DEF Past
  <2> QED BY <1>10, <1>11, <2>1 DEF NothingNewerOf

\* What each call brings.
LEMMA CallFacts ==
    ASSUME NEW id \in Auths
    PROVE /\ \A c \in AuthRecord : ~Carries(Idle, id, c)
          /\ \A e \in 1..MaxEpoch : ~Announces(Idle, id, e)
          /\ ~Resyncs(Idle) /\ ~Is(Idle, "rebuild")
          /\ \A i \in Auths, a \in AuthRecord :
               /\ \A c \in AuthRecord : Carries(Upsert(i, a), id, c) <=> id = i /\ c = a
               /\ \A c \in AuthRecord : ~Carries(Clone(i, a), id, c)
               /\ \A e \in 1..MaxEpoch : ~Announces(Upsert(i, a), id, e) /\ ~Announces(Clone(i, a), id, e)
               /\ ~Resyncs(Upsert(i, a)) /\ ~Resyncs(Clone(i, a))
               /\ ~Is(Upsert(i, a), "rebuild") /\ ~Is(Clone(i, a), "rebuild")
          /\ \A i \in Auths, d \in 1..MaxEpoch :
               /\ \A c \in AuthRecord : ~Carries(Tombstone(i, d), id, c)
               /\ \A e \in 1..MaxEpoch : Announces(Tombstone(i, d), id, e) <=> id = i /\ e = d
               /\ ~Resyncs(Tombstone(i, d)) /\ ~Is(Tombstone(i, d), "rebuild")
          /\ \A T \in SUBSET (Auths \X (1..MaxEpoch)) :
               /\ \A c \in AuthRecord : ~Carries(LoadRest(T), id, c)
               /\ \A e \in 1..MaxEpoch : Announces(LoadRest(T), id, e) <=> <<id, e>> \in T
               /\ Resyncs(LoadRest(T)) /\ ~Is(LoadRest(T), "rebuild")
          /\ \A c \in AuthRecord : ~Carries(Sync, id, c)
          /\ \A e \in 1..MaxEpoch : ~Announces(Sync, id, e)
          /\ Resyncs(Sync) /\ ~Is(Sync, "rebuild")
          /\ \A s \in [Auths -> AuthRecord \union {Absent}] :
               /\ \A c \in AuthRecord : Carries(Rebuild(s), id, c) <=> s[id] = c
               /\ \A e \in 1..MaxEpoch : ~Announces(Rebuild(s), id, e)
               /\ ~Resyncs(Rebuild(s)) /\ Is(Rebuild(s), "rebuild")
<1> USE DEF Is, Carries, Announces, Resyncs
<1>1. Idle \notin Calls
  BY NamesAssumption
<1>2. /\ \A c \in AuthRecord : ~Carries(Idle, id, c)
      /\ \A e \in 1..MaxEpoch : ~Announces(Idle, id, e)
      /\ ~Resyncs(Idle) /\ ~Is(Idle, "rebuild")
  OBVIOUS
<1>3. ASSUME NEW i \in Auths, NEW a \in AuthRecord
      PROVE /\ \A c \in AuthRecord : Carries(Upsert(i, a), id, c) <=> id = i /\ c = a
            /\ \A c \in AuthRecord : ~Carries(Clone(i, a), id, c)
            /\ \A e \in 1..MaxEpoch : ~Announces(Upsert(i, a), id, e) /\ ~Announces(Clone(i, a), id, e)
            /\ ~Resyncs(Upsert(i, a)) /\ ~Resyncs(Clone(i, a))
            /\ ~Is(Upsert(i, a), "rebuild") /\ ~Is(Clone(i, a), "rebuild")
  <2>1. Upsert(i, a) # Idle /\ Clone(i, a) # Idle
    BY <1>1, MadeCalls
  <2> QED BY <2>1 DEF Upsert, Clone
<1>4. ASSUME NEW i \in Auths, NEW d \in 1..MaxEpoch
      PROVE /\ \A c \in AuthRecord : ~Carries(Tombstone(i, d), id, c)
            /\ \A e \in 1..MaxEpoch : Announces(Tombstone(i, d), id, e) <=> id = i /\ e = d
            /\ ~Resyncs(Tombstone(i, d)) /\ ~Is(Tombstone(i, d), "rebuild")
  <2>1. Tombstone(i, d) # Idle
    BY <1>1, MadeCalls
  <2> QED BY <2>1 DEF Tombstone
<1>5. ASSUME NEW T \in SUBSET (Auths \X (1..MaxEpoch))
      PROVE /\ \A c \in AuthRecord : ~Carries(LoadRest(T), id, c)
            /\ \A e \in 1..MaxEpoch : Announces(LoadRest(T), id, e) <=> <<id, e>> \in T
            /\ Resyncs(LoadRest(T)) /\ ~Is(LoadRest(T), "rebuild")
  <2>1. LoadRest(T) # Idle
    BY <1>1, MadeCalls
  <2> QED BY <2>1 DEF LoadRest
<1>6. /\ \A c \in AuthRecord : ~Carries(Sync, id, c)
      /\ \A e \in 1..MaxEpoch : ~Announces(Sync, id, e)
      /\ Resyncs(Sync) /\ ~Is(Sync, "rebuild")
  <2>1. Sync # Idle
    BY <1>1, MadeCalls
  <2> QED BY <2>1 DEF Sync
<1>7. ASSUME NEW s \in [Auths -> AuthRecord \union {Absent}]
      PROVE /\ \A c \in AuthRecord : Carries(Rebuild(s), id, c) <=> s[id] = c
            /\ \A e \in 1..MaxEpoch : ~Announces(Rebuild(s), id, e)
            /\ ~Resyncs(Rebuild(s)) /\ Is(Rebuild(s), "rebuild")
  <2>1. Rebuild(s) # Idle
    BY <1>1, MadeCalls
  <2> QED BY <2>1 DEF Rebuild
<1> QED BY <1>2, <1>3, <1>4, <1>5, <1>6, <1>7

\* A removed registration is announced until its tombstone has arrived.
Told(id) ==
    ~Live(id)' =>
      /\ authEpochs'[id] # authEpochs[id] => Removal(id, authEpochs[id])'
      /\ authEpochs'[id] = authEpochs[id] /\ Removal(id, authEpochs[id]) =>
           Removal(id, authEpochs[id])' \/ versions'[id].epoch = authEpochs[id]

\* The Manager's record is newer, or only its generation moved.
Newer(id) == authEpochs'[id] > authEpochs[id] \/ (Live(id) /\ auths'[id].gen > auths[id].gen)
Same(id) ==
    /\ authEpochs'[id] = authEpochs[id] /\ Live(id)
    /\ auths'[id] = [auths[id] EXCEPT !.gen = auths'[id].gen]

\* A new record is promised to the shards; a promise is passed on or fulfilled.
Delivered(id) ==
    Live(id)' =>
      \/ Newer(id) /\ Untouched(id) /\ Promised(id, auths[id].gen)'
      \/ /\ Same(id)
         /\ \A g \in 1..MaxGen : g <= auths[id].gen /\ Promised(id, g) =>
              \/ \E w \in Workers : \/ Resyncs(worker'[w])
                                    \/ \E c \in AuthRecord : /\ Carries(worker'[w], id, c)
                                                             /\ AtLeast(id, c, g)
              \/ \E c \in AuthRecord : AtLeast(id, c, g) /\ NotOlder(versions'[id], c)

Effect(id) == Advanced(id) /\ Sourced(id) /\ Arrived(id) /\ Told(id) /\ Delivered(id)

\* What the call x that w goes on to has to bring for that.
Handed(id, w, x) ==
    /\ \A c \in AuthRecord : Carries(x, id, c) => c = auths'[id]
    /\ \A e \in 1..MaxEpoch : Announces(x, id, e) =>
         Announces(worker[w], id, e) \/ (~Live(id)' /\ e = authEpochs'[id] /\ e > authEpochs[id])
    /\ ~Live(id)' =>
         /\ authEpochs'[id] # authEpochs[id] => Announces(x, id, authEpochs'[id])
         /\ authEpochs'[id] = authEpochs[id] /\ Announces(worker[w], id, authEpochs[id]) =>
              Announces(x, id, authEpochs[id]) \/ versions'[id].epoch = authEpochs[id]
    /\ Live(id)' =>
         \/ Newer(id) /\ Untouched(id) /\ (Resyncs(x) \/ Carries(x, id, auths'[id]))
         \/ /\ Same(id)
            /\ Resyncs(worker[w]) => Resyncs(x) \/ Carries(x, id, auths'[id])
            /\ \A c \in AuthRecord : Carries(worker[w], id, c) => NotOlder(versions'[id], c)

\* A step of one worker has its effect if the call it goes on to does.
LEMMA HandedOver ==
    ASSUME Typed, Typed', NEW id \in Auths, NEW w \in Workers, NEW x,
           worker' = [worker EXCEPT ![w] = x], Handed(id, w, x), Advanced(id), Arrived(id)
    PROVE Effect(id)
<1>1. worker'[w] = x /\ \A v \in Workers : v # w => worker'[v] = worker[v]
  BY DEF Typed, TypeOK
<1>2. /\ authEpochs[id] \in Nat /\ authEpochs'[id] \in Nat
      /\ auths[id] \in AuthRecord \union {Absent} /\ auths'[id] \in AuthRecord \union {Absent}
  BY BoundsAssumption DEF Typed, TypeOK
<1>3. /\ Live(id)' => /\ auths'[id] \in AuthRecord /\ auths'[id].epoch = authEpochs'[id]
                      /\ auths'[id].gen \in Nat
      /\ Live(id) => auths[id] \in AuthRecord /\ auths[id].gen \in Nat
  BY <1>2, Records DEF Live, Typed
<1>4. Sourced(id)
  <2>1. \A v \in Workers, c \in AuthRecord : Carries(worker'[v], id, c) => Copy(id, c) \/ c = auths'[id]
    BY <1>1 DEF Handed, Copy
  <2>2. \A v \in Workers, e \in 1..MaxEpoch : Announces(worker'[v], id, e) =>
          Removal(id, e) \/ (~Live(id)' /\ e = authEpochs'[id] /\ e > authEpochs[id])
    BY <1>1 DEF Handed, Removal
  <2> QED BY <2>1, <2>2 DEF Sourced
<1>5. Told(id)
  <2> SUFFICES ASSUME ~Live(id)'
               PROVE /\ authEpochs'[id] # authEpochs[id] => Removal(id, authEpochs[id])'
                     /\ authEpochs'[id] = authEpochs[id] /\ Removal(id, authEpochs[id]) =>
                          Removal(id, authEpochs[id])' \/ versions'[id].epoch = authEpochs[id]
    BY DEF Told
  <2> QED BY <1>1 DEF Handed, Removal
<1>6. Delivered(id)
  <2> SUFFICES ASSUME Live(id)' PROVE Delivered(id)
    BY DEF Delivered
  <2>1. CASE Newer(id) /\ Untouched(id) /\ (Resyncs(x) \/ Carries(x, id, auths'[id]))
    <3>1. AtLeast(id, auths[id], auths[id].gen)'
      BY <1>2, <1>3 DEF AtLeast
    <3>2. Promised(id, auths[id].gen)'
      <4>1. CASE Resyncs(x)
        BY <1>1, <4>1 DEF Promised
      <4>2. CASE Carries(x, id, auths'[id])
        BY <1>1, <1>3, <3>1, <4>2 DEF Promised, AtLeast
      <4> QED BY <2>1, <4>1, <4>2
    <3> QED BY <2>1, <3>2 DEF Delivered
  <2>2. CASE /\ Same(id)
             /\ Resyncs(worker[w]) => Resyncs(x) \/ Carries(x, id, auths'[id])
             /\ \A c \in AuthRecord : Carries(worker[w], id, c) => NotOlder(versions'[id], c)
    <3>1. ASSUME NEW g \in 1..MaxGen, g <= auths[id].gen, Promised(id, g)
          PROVE \/ \E v \in Workers : \/ Resyncs(worker'[v])
                                      \/ \E c \in AuthRecord : /\ Carries(worker'[v], id, c)
                                                               /\ AtLeast(id, c, g)
                \/ \E c \in AuthRecord : AtLeast(id, c, g) /\ NotOlder(versions'[id], c)
      <4>1. AtLeast(id, auths'[id], g)
        <5>1. auths'[id].gen >= auths[id].gen /\ g \in Nat
          BY <1>2, <1>3, <2>2, BoundsAssumption DEF Advanced, Same
        <5> QED BY <1>2, <1>3, <2>2, <3>1, <5>1 DEF AtLeast, Same
      <4>2. PICK v \in Workers : \/ Resyncs(worker[v])
                                 \/ \E c \in AuthRecord : Carries(worker[v], id, c) /\ AtLeast(id, c, g)
        BY <3>1 DEF Promised
      <4>3. CASE v # w
        BY <1>1, <4>2, <4>3
      <4>4. CASE v = w
        BY <1>1, <1>3, <2>2, <4>1, <4>2, <4>4
      <4> QED BY <4>3, <4>4
    <3> QED BY <2>2, <3>1 DEF Delivered
  <2> QED BY <2>1, <2>2 DEF Handed
<1> QED BY <1>4, <1>5, <1>6 DEF Effect

\* No worker moves and at most a generation does.
LEMMA NobodyMoved ==
    ASSUME Typed, Typed', NEW id \in Auths, worker' = worker, Advanced(id), Untouched(id),
           authEpochs'[id] = authEpochs[id], Live(id)' => Same(id)
    PROVE Effect(id)
<1>1. Sourced(id) /\ Arrived(id)
  BY DEF Sourced, Copy, Removal, Arrived
<1>2. Told(id)
  BY DEF Told, Removal
<1>3. Delivered(id)
  BY DEF Delivered, Promised
<1> QED BY <1>1, <1>2, <1>3 DEF Effect

\* A worker between operations, at a new registration or at a copy of its own
\* owes the shards nothing.
LEMMA OwesNothing ==
    ASSUME NEW w \in Workers, NEW id \in Auths,
           worker[w] = Idle \/ Doing(w, "clone")
    PROVE /\ \A c \in AuthRecord : ~Carries(worker[w], id, c)
          /\ \A e : ~Announces(worker[w], id, e)
          /\ ~Resyncs(worker[w])
BY DEF Carries, Announces, Resyncs, Is, Doing

\* The effect of a change.
LEMMA RenewedEffect ==
    ASSUME Typed, Typed', NEW w \in Workers, NEW i \in Auths, NEW a \in AuthRecord,
           Renewed(w, i, a), NEW id \in Auths
    PROVE Effect(id)
<1>0. /\ authEpochs \in [Auths -> 0..MaxEpoch] /\ auths \in [Auths -> AuthRecord \union {Absent}]
      /\ authEpochs[id] \in Nat
  BY BoundsAssumption DEF Typed, TypeOK
<1>1. /\ \A c \in AuthRecord : ~Carries(worker[w], id, c)
      /\ \A e : ~Announces(worker[w], id, e)
      /\ ~Resyncs(worker[w])
  BY DEF Renewed, Carries, Announces, Resyncs, Is, Doing
<1>2. /\ \A c \in AuthRecord : Carries(Upsert(i, a), id, c) <=> id = i /\ c = a
      /\ \A e \in 1..MaxEpoch : ~Announces(Upsert(i, a), id, e)
  BY CallFacts
<1>3. worker' = [worker EXCEPT ![w] = Upsert(i, a)] /\ Untouched(id)
  BY DEF Renewed, Untouched, schedulerVars
<1>4. CASE i = id
  <2>1. auths'[id] = a /\ Live(id)'
    BY <1>0, <1>4, Records DEF Renewed, Live
  <2>2. \/ authEpochs'[id] = authEpochs[id] + 1
        \/ authEpochs'[id] = authEpochs[id] /\ Live(id) /\ a.gen > auths[id].gen
    BY <1>0, <1>4 DEF Renewed
  <2>3. Newer(id) /\ Advanced(id)
    BY <1>0, <2>1, <2>2 DEF Newer, Advanced
  <2>4. Handed(id, w, Upsert(i, a))
    BY <1>1, <1>2, <1>3, <1>4, <2>1, <2>3 DEF Handed
  <2> QED BY <1>3, <2>3, <2>4, HandedOver DEF Arrived
<1>5. CASE i # id
  <2>1. auths'[id] = auths[id] /\ authEpochs'[id] = authEpochs[id]
    BY <1>0, <1>5 DEF Renewed
  <2>2. Live(id)' => Same(id)
    BY <1>0, <2>1 DEF Same, Live, AuthRecord
  <2>3. Handed(id, w, Upsert(i, a))
    <3>1. /\ ~Live(id)' => authEpochs'[id] = authEpochs[id] /\ ~Announces(worker[w], id, authEpochs[id])
          /\ Live(id)' => /\ Same(id) /\ ~Resyncs(worker[w])
                          /\ \A c \in AuthRecord : ~Carries(worker[w], id, c)
      BY <1>1, <2>1, <2>2
    <3> QED BY <1>2, <1>5, <3>1 DEF Handed
  <2> QED BY <1>3, <2>1, <2>3, HandedOver DEF Arrived, Advanced
<1> QED BY <1>4, <1>5

\* The effect of moving on.
LEMMA PassingEffect ==
    ASSUME Typed, Typed', NEW w \in Workers, Passing(w), NEW id \in Auths
    PROVE Effect(id)
<1>0. auths[id] \in AuthRecord \union {Absent} /\ auths \in [Auths -> AuthRecord \union {Absent}]
  BY DEF Typed, TypeOK
<1>1. UNCHANGED <<managerVars, schedulerVars>>
  BY PassedTyped DEF Passing
<1>2. /\ auths'[id] = auths[id] /\ authEpochs'[id] = authEpochs[id] /\ Untouched(id)
      /\ Advanced(id) /\ Arrived(id) /\ Live(id)' = Live(id)
  BY <1>1 DEF managerVars, schedulerVars, Untouched, Advanced, Arrived, Live
<1>3. Live(id)' => Same(id)
  BY <1>0, <1>2 DEF Same, Live, AuthRecord
<1>4. ASSUME NEW x, worker' = [worker EXCEPT ![w] = x],
             \A c \in AuthRecord : Carries(x, id, c) => c = auths[id],
             \A e \in 1..MaxEpoch : ~Announces(x, id, e),
             \A c \in AuthRecord : ~Carries(worker[w], id, c),
             \A e \in 1..MaxEpoch : ~Announces(worker[w], id, e),
             Live(id) /\ Resyncs(worker[w]) => Resyncs(x) \/ Carries(x, id, auths[id])
      PROVE Effect(id)
  <2>1. ~Announces(worker[w], id, authEpochs[id])
    <3>1. authEpochs[id] \in 1..MaxEpoch \/ authEpochs[id] = 0
      BY BoundsAssumption DEF Typed, TypeOK
    <3>2. \A e : Announces(worker[w], id, e) => e \in 1..MaxEpoch
      <4> SUFFICES ASSUME NEW e, Announces(worker[w], id, e) PROVE e \in 1..MaxEpoch
        OBVIOUS
      <4>1. TypeOK
        BY DEF Typed
      <4>2. CASE Doing(w, "tombstone") /\ worker[w].epoch = e
        BY <4>1, <4>2, Shapes
      <4>3. CASE Doing(w, "load") /\ <<id, e>> \in worker[w].tombs
        BY <4>1, <4>3, Shapes
      <4> QED BY <4>2, <4>3 DEF Announces, Is, Doing
    <3> QED BY <1>4, <3>2
  <2>2. Handed(id, w, x)
    BY <1>2, <1>3, <1>4, <2>1 DEF Handed
  <2> QED BY <1>2, <1>4, <2>2, HandedOver
<1>5. CASE StartSync(w)
  <2>1. worker[w] = Idle /\ worker' = [worker EXCEPT ![w] = Sync]
    BY <1>5 DEF StartSync, Then
  <2> QED BY <1>4, <2>1, OwesNothing, CallFacts
<1>6. CASE SnapshotAuths(w)
  <2>1. Doing(w, "sync") /\ worker' = [worker EXCEPT ![w] = Rebuild(auths)]
    BY <1>6 DEF SnapshotAuths, Then
  <2>2. /\ \A c \in AuthRecord : ~Carries(worker[w], id, c)
        /\ \A e \in 1..MaxEpoch : ~Announces(worker[w], id, e)
    BY <2>1 DEF Carries, Announces, Is, Doing
  <2>3. /\ \A c \in AuthRecord : Carries(Rebuild(auths), id, c) <=> auths[id] = c
        /\ \A e \in 1..MaxEpoch : ~Announces(Rebuild(auths), id, e)
    BY <1>0, CallFacts
  <2>4. Live(id) => Carries(Rebuild(auths), id, auths[id])
    BY <1>0, <2>3 DEF Live
  <2> HIDE DEF Rebuild
  <2> QED BY <1>4, <2>1, <2>2, <2>3, <2>4
<1>7. CASE LoadSync(w)
  <2>1. Doing(w, "load") /\ worker[w].tombs = {} /\ worker' = [worker EXCEPT ![w] = Sync]
    BY <1>7 DEF LoadSync, Then
  <2>2. /\ \A c \in AuthRecord : ~Carries(worker[w], id, c)
        /\ \A e \in 1..MaxEpoch : ~Announces(worker[w], id, e)
    BY <2>1 DEF Carries, Announces, Is, Doing
  <2> QED BY <1>4, <2>1, <2>2, CallFacts
<1>8. CASE Dropped(w)
  <2>1. Doing(w, "clone") /\ worker' = [worker EXCEPT ![w] = Idle]
    BY <1>8 DEF Dropped
  <2> QED BY <1>4, <2>1, OwesNothing, CallFacts
<1>9. CASE \E i \in Auths : TakeClone(w, i) \/ RefreshSchedulerEntry(w, i)
  <2>1. PICK i \in Auths : TakeClone(w, i) \/ RefreshSchedulerEntry(w, i)
    BY <1>9
  <2>2. worker[w] = Idle /\ auths[i] \in AuthRecord
    BY <2>1, LiveTyped DEF TakeClone, RefreshSchedulerEntry
  <2>3. CASE worker' = [worker EXCEPT ![w] = Clone(i, auths[i])]
    <3>1. /\ \A c \in AuthRecord : ~Carries(Clone(i, auths[i]), id, c)
          /\ \A e \in 1..MaxEpoch : ~Announces(Clone(i, auths[i]), id, e)
      BY <2>2, CallFacts
    <3> QED BY <1>4, <2>2, <2>3, <3>1, OwesNothing
  <2>4. CASE worker' = [worker EXCEPT ![w] = Upsert(i, auths[i])]
    <3>1. /\ \A c \in AuthRecord : Carries(Upsert(i, auths[i]), id, c) <=> id = i /\ c = auths[i]
          /\ \A e \in 1..MaxEpoch : ~Announces(Upsert(i, auths[i]), id, e)
      BY <2>2, CallFacts
    <3> QED BY <1>4, <2>2, <2>4, <3>1, OwesNothing
  <2> QED BY <2>1, <2>3, <2>4 DEF TakeClone, RefreshSchedulerEntry, Then
<1> QED BY <1>5, <1>6, <1>7, <1>8, <1>9 DEF Passing

\* A removal is announced for a credential, under an epoch it had.
LEMMA AnnouncedTyped ==
    ASSUME TypeOK, NEW w \in Workers, NEW id, NEW e, Announces(worker[w], id, e)
    PROVE id \in Auths /\ e \in 1..MaxEpoch
<1>1. CASE Doing(w, "tombstone") /\ worker[w].id = id /\ worker[w].epoch = e
  BY <1>1, Shapes
<1>2. CASE Doing(w, "load") /\ <<id, e>> \in worker[w].tombs
  BY <1>2, Shapes
<1> QED BY <1>1, <1>2 DEF Announces, Is, Doing

\* The effect of a removal.
LEMMA RemoveEffect ==
    ASSUME Typed, Typed', NEW w \in Workers, NEW i \in Auths, Remove(w, i), NEW id \in Auths
    PROVE Effect(id)
<1>0. /\ authEpochs \in [Auths -> 0..MaxEpoch] /\ auths \in [Auths -> AuthRecord \union {Absent}]
      /\ authEpochs[id] \in Nat /\ authEpochs[i] + 1 \in 1..MaxEpoch
  BY BoundsAssumption DEF Typed, TypeOK, Remove
<1>1. /\ worker[w] = Idle
      /\ worker' = [worker EXCEPT ![w] = Tombstone(i, authEpochs[i] + 1)]
      /\ auths' = [auths EXCEPT ![i] = Absent]
      /\ authEpochs' = [authEpochs EXCEPT ![i] = @ + 1]
      /\ Untouched(id)
  BY DEF Remove, Then, Untouched, schedulerVars
<1>2. /\ \A c \in AuthRecord : ~Carries(Tombstone(i, authEpochs[i] + 1), id, c)
      /\ \A e \in 1..MaxEpoch :
           Announces(Tombstone(i, authEpochs[i] + 1), id, e) <=> id = i /\ e = authEpochs[i] + 1
  BY <1>0, CallFacts
<1>3. /\ \A c \in AuthRecord : ~Carries(worker[w], id, c)
      /\ \A e : ~Announces(worker[w], id, e)
      /\ ~Resyncs(worker[w])
  BY <1>1, OwesNothing
<1> DEFINE x == Tombstone(i, authEpochs[i] + 1)
<1>4. CASE i = id
  <2>1. ~Live(id)' /\ authEpochs'[id] = authEpochs[id] + 1 /\ authEpochs'[id] > authEpochs[id]
    BY <1>0, <1>1, <1>4 DEF Live
  <2>2. Announces(x, id, authEpochs'[id])
    BY <1>0, <1>2, <1>4, <2>1
  <2>3. Handed(id, w, x)
    BY <1>2, <1>3, <1>4, <2>1, <2>2 DEF Handed
  <2> HIDE DEF x
  <2> QED BY <1>1, <2>1, <2>3, HandedOver DEF Advanced, Arrived, x
<1>5. CASE i # id
  <2>1. auths'[id] = auths[id] /\ authEpochs'[id] = authEpochs[id]
    BY <1>0, <1>1, <1>5
  <2>2. Live(id)' => Same(id)
    BY <1>0, <2>1 DEF Same, Live, AuthRecord
  <2>3. Handed(id, w, x)
    BY <1>2, <1>3, <1>5, <2>1, <2>2 DEF Handed
  <2> HIDE DEF x
  <2> QED BY <1>1, <2>1, <2>3, HandedOver DEF Advanced, Arrived, x
<1> QED BY <1>4, <1>5

\* The effect of a new generation of an unchanged credential.
LEMMA BumpEffect ==
    ASSUME Typed, Typed', NEW i \in Auths, BumpGeneration(i), NEW id \in Auths
    PROVE Effect(id)
<1>0. auths[id] \in AuthRecord \union {Absent} /\ auths \in [Auths -> AuthRecord \union {Absent}]
  BY DEF Typed, TypeOK
<1>1. /\ auths' = [auths EXCEPT ![i].gen = @ + 1] /\ authEpochs' = authEpochs /\ worker' = worker
      /\ Untouched(id) /\ Live(i)
  BY DEF BumpGeneration, Untouched, schedulerVars
<1>2. CASE i = id
  <2>1. auths[id] \in AuthRecord /\ auths[id].gen \in Nat
    BY <1>1, <1>2, LiveTyped, Records
  <2>2. auths'[id] = [auths[id] EXCEPT !.gen = auths[id].gen + 1]
    BY <1>0, <1>1, <1>2
  <2>3. auths'[id].gen = auths[id].gen + 1
    BY <2>1, <2>2 DEF AuthRecord
  <2>4. Advanced(id)
    <3>1. Live(id)'
      <4>1. auths'[id] \in AuthRecord \union {Absent} /\ auths'[id].gen # auths[id].gen
        BY <2>1, <2>3 DEF Typed, TypeOK
      <4>2. auths[id].gen + 1 \in 1..MaxGen
        BY <1>1, <1>2, <2>1, BoundsAssumption DEF BumpGeneration
      <4>3. auths'[id] \in AuthRecord
        BY <2>1, <2>2, <4>2 DEF AuthRecord
      <4> QED BY <4>3, NamesAssumption DEF Live
    <3> QED BY <1>1, <1>2, <2>1, <2>3, <3>1 DEF Advanced
  <2>5. Same(id)
    BY <1>1, <1>2, <2>2, <2>3 DEF Same
  <2> QED BY <1>1, <2>4, <2>5, NobodyMoved
<1>3. CASE i # id
  <2>1. auths'[id] = auths[id]
    BY <1>0, <1>1, <1>3
  <2>2. Live(id)' => Same(id)
    BY <1>0, <1>1, <2>1 DEF Same, Live, AuthRecord
  <2> QED BY <1>1, <2>1, <2>2, NobodyMoved DEF Advanced
<1> QED BY <1>2, <1>3

\* The effect of a load: all the shards will be rebuilt.
LEMMA LoadEffect ==
    ASSUME Typed, Typed', NEW w \in Workers, Load(w), NEW id \in Auths
    PROVE Effect(id)
<1>0. /\ authEpochs \in [Auths -> 0..MaxEpoch] /\ auths \in [Auths -> AuthRecord \union {Absent}]
      /\ authEpochs' \in [Auths -> 0..MaxEpoch]
      /\ authEpochs[id] \in Nat
  BY BoundsAssumption DEF Typed, TypeOK
<1>1. PICK items \in SUBSET Auths, enabled \in SUBSET Auths :
        LET gone == {j \in Auths \ items : Live(j)} IN
        /\ authEpochs' = [j \in Auths |-> IF j \in items \union gone
                                          THEN authEpochs[j] + 1 ELSE authEpochs[j]]
        /\ auths' = [j \in Auths |->
                       IF j \in items
                       THEN [epoch |-> authEpochs'[j], gen |-> 1,
                             enabled |-> j \in enabled, states |-> "none"]
                       ELSE Absent]
        /\ Then(w, LoadRest({<<j, authEpochs'[j]>> : j \in gone}))
  BY DEF Load
<1> DEFINE gone == {j \in Auths \ items : Live(j)}
           T == {<<j, authEpochs'[j]>> : j \in gone}
           x == LoadRest(T)
<1>2. worker[w] = Idle /\ worker' = [worker EXCEPT ![w] = x] /\ Untouched(id)
  BY <1>1 DEF Load, Then, Untouched, schedulerVars
<1>3. T \in SUBSET (Auths \X (1..MaxEpoch))
  <2>1. \A j \in gone : authEpochs'[j] \in 1..MaxEpoch
    BY <1>0, <1>1, BoundsAssumption DEF Typed, TypeOK
  <2> QED BY <2>1
<1>4. /\ \A c \in AuthRecord : ~Carries(x, id, c)
      /\ \A e \in 1..MaxEpoch : Announces(x, id, e) <=> <<id, e>> \in T
      /\ Resyncs(x)
  <2>1. \A S \in SUBSET (Auths \X (1..MaxEpoch)) :
          /\ \A c \in AuthRecord : ~Carries(LoadRest(S), id, c)
          /\ \A e \in 1..MaxEpoch : Announces(LoadRest(S), id, e) <=> <<id, e>> \in S
          /\ Resyncs(LoadRest(S))
    BY CallFacts
  <2> HIDE DEF T
  <2> QED BY <1>3, <2>1
<1>5. \A e : <<id, e>> \in T <=> id \in gone /\ e = authEpochs'[id]
  OBVIOUS
<1>6. /\ \A c \in AuthRecord : ~Carries(worker[w], id, c)
      /\ \A e : ~Announces(worker[w], id, e)
      /\ ~Resyncs(worker[w])
  BY <1>2, OwesNothing
<1>7. /\ id \in items => authEpochs'[id] = authEpochs[id] + 1 /\ Live(id)'
      /\ id \in gone => authEpochs'[id] = authEpochs[id] + 1 /\ ~Live(id)' /\ authEpochs'[id] \in 1..MaxEpoch
      /\ id \notin items \union gone =>
           authEpochs'[id] = authEpochs[id] /\ ~Live(id)' /\ ~Live(id) /\ auths'[id] = auths[id]
  <2>1. CASE id \in items
    <3>1. auths'[id] = [epoch |-> authEpochs'[id], gen |-> 1, enabled |-> id \in enabled, states |-> "none"]
      BY <1>1, <2>1
    <3>2. authEpochs'[id] = authEpochs[id] + 1 /\ authEpochs'[id] \in 1..MaxEpoch
      BY <1>0, <1>1, <2>1, BoundsAssumption
    <3>3. auths'[id] \in AuthRecord
      BY <3>1, <3>2, BoundsAssumption DEF AuthRecord, Contents
    <3> QED BY <2>1, <3>2, <3>3, NamesAssumption DEF Live
  <2>2. CASE id \in gone
    BY <1>0, <1>1, <2>2, BoundsAssumption DEF Live
  <2>3. CASE id \notin items \union gone
    BY <1>0, <1>1, <2>3 DEF Live
  <2> QED BY <2>1, <2>2, <2>3
<1>10. id \in items => id \notin gone
  OBVIOUS
<1> HIDE DEF T, x, gone
<1>8. Advanced(id)
  BY <1>0, <1>7 DEF Advanced
<1>9. Handed(id, w, x)
  <2>1. CASE id \in items
    <3>1. Newer(id) /\ Live(id)'
      BY <1>0, <1>7, <2>1 DEF Newer
    <3>2. \A e \in 1..MaxEpoch : ~Announces(x, id, e)
      BY <1>4, <1>5, <1>10, <2>1
    <3> QED BY <1>2, <1>4, <3>1, <3>2 DEF Handed
  <2>2. CASE id \in gone
    <3>1. ~Live(id)' /\ authEpochs'[id] > authEpochs[id] /\ Announces(x, id, authEpochs'[id])
      <4>1. authEpochs'[id] = authEpochs[id] + 1 /\ ~Live(id)' /\ authEpochs'[id] \in 1..MaxEpoch
        BY <1>7, <2>2
      <4>2. <<id, authEpochs'[id]>> \in T
        BY <1>5, <2>2
      <4>3. Announces(x, id, authEpochs'[id])
        BY <1>4, <4>1, <4>2
      <4> QED BY <1>0, <4>1, <4>3
    <3>2. \A e \in 1..MaxEpoch : Announces(x, id, e) => e = authEpochs'[id]
      BY <1>4, <1>5
    <3> QED BY <1>0, <1>4, <1>6, <3>1, <3>2 DEF Handed
  <2>3. CASE id \notin items \union gone
    BY <1>4, <1>5, <1>6, <1>7, <2>3 DEF Handed
  <2> QED BY <2>1, <2>2, <2>3
<1> QED BY <1>2, <1>8, <1>9, HandedOver DEF Arrived

\* What a worker in a scheduler section hands over is what that section does.
LEMMA WorkersBring ==
    ASSUME TypeOK, NEW w \in Workers, NEW id \in Auths
    PROVE /\ Doing(w, "upsert") =>
               /\ \A c \in AuthRecord : Carries(worker[w], id, c) <=> id = worker[w].id /\ c = worker[w].auth
               /\ \A e : ~Announces(worker[w], id, e)
               /\ ~Resyncs(worker[w])
          /\ Doing(w, "tombstone") =>
               /\ \A c \in AuthRecord : ~Carries(worker[w], id, c)
               /\ \A e : Announces(worker[w], id, e) <=> id = worker[w].id /\ e = worker[w].epoch
               /\ ~Resyncs(worker[w])
          /\ Doing(w, "load") =>
               /\ \A c \in AuthRecord : ~Carries(worker[w], id, c)
               /\ \A e : Announces(worker[w], id, e) <=> <<id, e>> \in worker[w].tombs
          /\ Doing(w, "rebuild") =>
               /\ \A c \in AuthRecord : Carries(worker[w], id, c) <=> worker[w].snap[id] = c
               /\ \A e : ~Announces(worker[w], id, e)
               /\ ~Resyncs(worker[w])
BY DEF Doing, Is, Carries, Announces, Resyncs

\* The Manager's part of a step that leaves it alone.
LEMMA ManagerAlone ==
    ASSUME Typed, UNCHANGED managerVars, NEW id \in Auths
    PROVE /\ Advanced(id) /\ authEpochs'[id] = authEpochs[id] /\ Live(id)' = Live(id)
          /\ auths'[id] = auths[id]
          /\ Live(id)' => Same(id)
<1>1. auths'[id] = auths[id] /\ authEpochs'[id] = authEpochs[id] /\ Live(id)' = Live(id)
  BY DEF managerVars, Live
<1>2. Live(id)' => Same(id)
  BY <1>1, LiveTyped DEF Same, AuthRecord
<1> QED BY <1>1, <1>2 DEF Advanced

\* The effect of an upsert.
LEMMA UpsertEffect ==
    ASSUME Typed, Typed', NEW w \in Workers, UpsertAuth(w), NEW id \in Auths
    PROVE Effect(id)
<1> DEFINE i == worker[w].id
           a == worker[w].auth
<1>0. /\ TypeOK /\ sched[id] \in AuthRecord \union {Absent} /\ i \in Auths /\ a \in AuthRecord
      /\ UNCHANGED managerVars
  BY Shapes DEF Typed, TypeOK, UpsertAuth
<1>1. Doing(w, "upsert") /\ worker' = [worker EXCEPT ![w] = Idle]
  BY DEF UpsertAuth, Then
<1>2. /\ Upserts(i, sched[i], a)
      /\ \A j \in Auths : j # i => Untouched(j)
  BY SchedulerTyped DEF Scheduling
<1>3. /\ \A c \in AuthRecord : Carries(worker[w], id, c) <=> id = i /\ c = a
      /\ \A e : ~Announces(worker[w], id, e)
      /\ ~Resyncs(worker[w])
  BY <1>0, <1>1, WorkersBring
<1>4. /\ \A c \in AuthRecord : ~Carries(Idle, id, c)
      /\ \A e \in 1..MaxEpoch : ~Announces(Idle, id, e)
  BY CallFacts
<1> HIDE DEF i, a
<1>5. Arrived(id)
  <2>1. CASE id = i
    <3>1. Copy(id, a)
      BY <1>0, <1>3, <2>1 DEF Copy
    <3> QED BY <1>0, <1>2, <2>1, <3>1 DEF Arrived
  <2>2. CASE id # i
    BY <1>2, <2>2 DEF Arrived
  <2> QED BY <2>1, <2>2
<1>6. \A c \in AuthRecord : Carries(worker[w], id, c) => NotOlder(versions'[id], c)
  BY <1>0, <1>2, <1>3, UpsertOutcome DEF Upserts
<1>7. Handed(id, w, Idle)
  BY <1>0, <1>3, <1>4, <1>6, ManagerAlone DEF Handed
<1> QED BY <1>0, <1>1, <1>5, <1>7, HandedOver, ManagerAlone

\* The effect of a tombstone.
LEMMA BuryingEffect ==
    ASSUME Typed, Typed', NothingNewer, NEW w \in Workers,
           RecordRemovalTombstone(w) \/ LoadTombstone(w), NEW id \in Auths
    PROVE Effect(id)
<1>0. /\ TypeOK /\ UNCHANGED managerVars /\ versions[id].epoch \in Nat /\ authEpochs[id] \in Nat
      /\ versions[id].epoch <= authEpochs[id]
  BY BoundsAssumption DEF Typed, TypeOK, Version, RecordRemovalTombstone, LoadTombstone, NothingNewer,
       NothingNewerOf, Past
<1>1. PICK i \in Auths, e \in 1..MaxEpoch, x \in Calls \union {Idle} :
        /\ Bury(i, e) /\ worker' = [worker EXCEPT ![w] = x]
        /\ Announces(worker[w], i, e)
        /\ \A c \in AuthRecord : ~Carries(x, id, c) /\ ~Carries(worker[w], id, c)
        /\ \A d \in 1..MaxEpoch : Announces(x, id, d) => Announces(worker[w], id, d)
        /\ \A d : Announces(worker[w], id, d) => Announces(x, id, d) \/ (id = i /\ d = e)
        /\ Resyncs(worker[w]) => Resyncs(x)
  <2>1. CASE RecordRemovalTombstone(w)
    <3>1. /\ Doing(w, "tombstone") /\ Bury(worker[w].id, worker[w].epoch)
          /\ worker' = [worker EXCEPT ![w] = Idle]
          /\ worker[w].id \in Auths /\ worker[w].epoch \in 1..MaxEpoch
      BY <1>0, <2>1, Shapes DEF RecordRemovalTombstone, Then
    <3>2. /\ \A c \in AuthRecord : ~Carries(Idle, id, c)
          /\ \A d \in 1..MaxEpoch : ~Announces(Idle, id, d)
      BY CallFacts
    <3>3. Announces(worker[w], worker[w].id, worker[w].epoch)
      BY <3>1 DEF Announces, Is, Doing
    <3>4. /\ \A c \in AuthRecord : ~Carries(worker[w], id, c)
          /\ \A d : Announces(worker[w], id, d) => id = worker[w].id /\ d = worker[w].epoch
          /\ ~Resyncs(worker[w])
      BY <1>0, <3>1, WorkersBring
    <3> QED BY <3>1, <3>2, <3>3, <3>4
  <2>2. CASE LoadTombstone(w)
    <3>1. PICK t \in worker[w].tombs :
            Bury(t[1], t[2]) /\ worker' = [worker EXCEPT ![w] = LoadRest(worker[w].tombs \ {t})]
      BY <2>2 DEF LoadTombstone, Then
    <3> DEFINE T == worker[w].tombs
               x == LoadRest(T \ {t})
    <3>2. /\ Doing(w, "load") /\ T \in SUBSET (Auths \X (1..MaxEpoch))
      BY <1>0, <2>2, Shapes DEF LoadTombstone
    <3>3. t[1] \in Auths /\ t[2] \in 1..MaxEpoch /\ t = <<t[1], t[2]>> /\ T \ {t} \in SUBSET (Auths \X (1..MaxEpoch))
      BY <3>1, <3>2
    <3>4. /\ \A c \in AuthRecord : ~Carries(x, id, c)
          /\ \A d \in 1..MaxEpoch : Announces(x, id, d) <=> <<id, d>> \in T \ {t}
          /\ Resyncs(x)
      BY <3>3, CallFacts
    <3>5. /\ \A c \in AuthRecord : ~Carries(worker[w], id, c)
          /\ \A d : Announces(worker[w], id, d) <=> <<id, d>> \in T
          /\ Announces(worker[w], t[1], t[2])
      BY <1>0, <3>1, <3>2, <3>3, WorkersBring
    <3>6. \A d : Announces(worker[w], id, d) => d \in 1..MaxEpoch
      BY <1>0, AnnouncedTyped
    <3>7. \A d : Announces(worker[w], id, d) => Announces(x, id, d) \/ (id = t[1] /\ d = t[2])
      <4> SUFFICES ASSUME NEW d, Announces(worker[w], id, d)
                   PROVE Announces(x, id, d) \/ (id = t[1] /\ d = t[2])
        OBVIOUS
      <4>1. <<id, d>> \in T /\ d \in 1..MaxEpoch
        BY <3>5, <3>6
      <4>2. CASE <<id, d>> = t
        BY <4>2
      <4>3. CASE <<id, d>> # t
        BY <3>4, <4>1, <4>3
      <4> QED BY <4>2, <4>3
    <3>8. x \in Calls
      BY <3>3, MadeCalls
    <3> HIDE DEF x
    <3>9. worker' = [worker EXCEPT ![w] = x]
      BY <3>1 DEF x
    <3> QED BY <3>1, <3>3, <3>4, <3>5, <3>7, <3>8, <3>9
  <2> QED BY <2>1, <2>2
<1>2. Buries(i, e) /\ \A j \in Auths : j # i => Untouched(j)
  BY <1>0, <1>1, BuryEffect
<1>3. Arrived(id)
  <2>1. CASE id = i
    <3>1. Removal(id, e)
      BY <1>1, <2>1 DEF Removal
    <3> QED BY <1>2, <2>1, <3>1 DEF Arrived
  <2>2. CASE id # i
    BY <1>2, <2>2 DEF Arrived
  <2> QED BY <2>1, <2>2
<1>4. id = i /\ e = authEpochs[id] => versions'[id].epoch = authEpochs[id]
  BY <1>0, <1>2 DEF Buries
<1>5. Handed(id, w, x)
  BY <1>0, <1>1, <1>4, ManagerAlone DEF Handed
<1> QED BY <1>0, <1>1, <1>3, <1>5, HandedOver, ManagerAlone

\* The effect of a rebuild from a snapshot.
LEMMA RebuildEffect ==
    ASSUME Typed, Typed', NEW w \in Workers, RebuildScheduler(w), NEW id \in Auths
    PROVE Effect(id)
<1>0. /\ TypeOK /\ UNCHANGED managerVars /\ Doing(w, "rebuild")
      /\ worker' = [worker EXCEPT ![w] = Idle]
      /\ versions[id] \in Version
  BY DEF Typed, TypeOK, RebuildScheduler, Then
<1>1. worker[w].snap[id] \in AuthRecord \union {Absent}
  BY <1>0, Shapes
<1>2. IF worker[w].snap[id] = Absent THEN sched'[id] = Absent /\ versions'[id] = versions[id]
                                    ELSE Upserts(id, Absent, worker[w].snap[id])
  BY SchedulerTyped DEF Scheduling
<1>3. /\ \A c \in AuthRecord : Carries(worker[w], id, c) <=> worker[w].snap[id] = c
      /\ \A e : ~Announces(worker[w], id, e)
      /\ ~Resyncs(worker[w])
  BY <1>0, WorkersBring
<1>4. /\ \A c \in AuthRecord : ~Carries(Idle, id, c)
      /\ \A e \in 1..MaxEpoch : ~Announces(Idle, id, e)
  BY CallFacts
<1>5. Arrived(id)
  <2>1. CASE worker[w].snap[id] = Absent
    BY <1>0, <1>2, <2>1 DEF Arrived
  <2>2. CASE worker[w].snap[id] # Absent
    <3> DEFINE c == worker[w].snap[id]
    <3>1. c \in AuthRecord /\ Upserts(id, Absent, c)
      BY <1>1, <1>2, <2>2
    <3>2. Copy(id, c)
      BY <1>3, <3>1 DEF Copy
    <3> QED BY <1>0, <3>1, <3>2 DEF Arrived
  <2> QED BY <2>1, <2>2
<1>6. \A c \in AuthRecord : Carries(worker[w], id, c) => NotOlder(versions'[id], c)
  <2> SUFFICES ASSUME NEW c \in AuthRecord, Carries(worker[w], id, c) PROVE NotOlder(versions'[id], c)
    OBVIOUS
  <2>1. Upserts(id, Absent, c)
    BY <1>2, <1>3, NamesAssumption
  <2> QED BY <1>0, <2>1, UpsertOutcome DEF Upserts
<1>7. Handed(id, w, Idle)
  BY <1>0, <1>3, <1>4, <1>6, ManagerAlone DEF Handed
<1> QED BY <1>0, <1>5, <1>7, HandedOver, ManagerAlone

\* The effect of a failed refresh.
LEMMA RefreshEffect ==
    ASSUME Typed, Typed', NEW w \in Workers, RefreshFails(w), NEW id \in Auths
    PROVE Effect(id)
<1>0. Doing(w, "clone") /\ worker' = [worker EXCEPT ![w] = Idle]
  BY RefreshTyped
<1>1. /\ \A c \in AuthRecord : ~Carries(worker[w], id, c) /\ ~Carries(Idle, id, c)
      /\ \A e : ~Announces(worker[w], id, e)
      /\ ~Resyncs(worker[w])
      /\ \A e \in 1..MaxEpoch : ~Announces(Idle, id, e)
  BY <1>0, OwesNothing, CallFacts
<1>2. CASE UNCHANGED <<managerVars, schedulerVars>>
  <2>1. Arrived(id)
    BY <1>2 DEF schedulerVars, Untouched, Arrived
  <2>2. Handed(id, w, Idle)
    BY <1>1, <1>2, ManagerAlone DEF Handed
  <2> QED BY <1>0, <1>2, <2>1, <2>2, HandedOver, ManagerAlone
<1>3. CASE ~UNCHANGED <<managerVars, schedulerVars>>
  <2> DEFINE i == worker[w].id
             a == auths'[i]
  <2>1. /\ Live(i) /\ i \in Auths /\ a \in AuthRecord
        /\ a = [auths[i] EXCEPT !.gen = a.gen] /\ a.gen > auths[i].gen
        /\ auths' = [auths EXCEPT ![i] = a] /\ authEpochs' = authEpochs
        /\ Upserts(i, sched[i], a)
        /\ \A j \in Auths : j # i => Untouched(j)
    BY <1>3, RefreshTyped
  <2>2. sched[id] \in AuthRecord \union {Absent} /\ auths \in [Auths -> AuthRecord \union {Absent}]
    BY DEF Typed, TypeOK
  <2> HIDE DEF i, a
  <2>3. CASE id = i
    <3>1. auths'[id] = a /\ Live(id)'
      BY <2>1, <2>3, NamesAssumption DEF a, Live
    <3>2. Same(id) /\ Advanced(id)
      BY <2>1, <2>3, <3>1 DEF Same, Advanced
    <3>3. Arrived(id)
      BY <2>1, <2>2, <2>3, <3>1 DEF Arrived
    <3>4. Handed(id, w, Idle)
      BY <1>1, <3>1, <3>2 DEF Handed
    <3> QED BY <1>0, <3>2, <3>3, <3>4, HandedOver
  <2>4. CASE id # i
    <3>1. auths'[id] = auths[id] /\ authEpochs'[id] = authEpochs[id]
      BY <2>1, <2>2, <2>4
    <3>2. (Live(id)' => Same(id)) /\ Advanced(id)
      BY <2>2, <3>1 DEF Same, Advanced, Live, AuthRecord
    <3>3. Arrived(id)
      BY <2>1, <2>4 DEF Arrived
    <3>4. Handed(id, w, Idle)
      BY <1>1, <3>1, <3>2 DEF Handed
    <3> QED BY <1>0, <3>2, <3>3, <3>4, HandedOver
  <2> QED BY <2>3, <2>4
<1> QED BY <1>2, <1>3

\* Every step has its effect on every credential.
LEMMA StepEffect ==
    ASSUME Typed, NothingNewer, [Next]_vars, NEW id \in Auths
    PROVE Effect(id)
<1>1. Typed'
  BY TypedKept
<1>2. CASE UNCHANGED vars
  BY <1>1, <1>2, NobodyMoved, ManagerAlone DEF vars, schedulerVars, Untouched
<1>3. CASE ManagerOnly
  BY <1>1, <1>3, LoadEffect, RemoveEffect, BumpEffect DEF ManagerOnly
<1>4. CASE \E w \in Workers : Scheduling(w)
  BY <1>1, <1>4, UpsertEffect, BuryingEffect, RebuildEffect DEF Scheduling
<1>5. CASE \E w \in Workers : Passing(w) \/ RefreshFails(w)
  BY <1>1, <1>5, PassingEffect, RefreshEffect
<1> QED BY <1>1, <1>2, <1>3, <1>4, <1>5, RenewedEffect, Kinds

-----------------------------------------------------------------------------
(* The invariant holds initially and every step keeps it *)

\* Epochs and generations are numbers.
LEMMA VersionNumbers ==
    ASSUME Typed, NEW id \in Auths
    PROVE /\ authEpochs[id] \in Nat /\ syncs \in Nat
          /\ versions[id] \in Version /\ versions[id].epoch \in Nat /\ versions[id].gen \in Nat
          /\ Live(id) => /\ auths[id] \in AuthRecord /\ auths[id].gen \in Nat
                         /\ auths[id].epoch = authEpochs[id]
BY BoundsAssumption, LiveTyped, Records DEF Typed, TypeOK, Version

\* A removal stays told until the credential is back.
LEMMA ToldKept ==
    ASSUME Typed, Typed', NEW id \in Auths, NothingNewerOf(id), NothingNewerOf(id)', Effect(id),
           ~Live(id) => versions[id].epoch = authEpochs[id] \/ Removal(id, authEpochs[id]),
           ~Live(id)'
    PROVE versions'[id].epoch = authEpochs'[id] \/ Removal(id, authEpochs[id])'
<1>1. CASE authEpochs'[id] # authEpochs[id]
  BY <1>1 DEF Effect, Told
<1>2. CASE authEpochs'[id] = authEpochs[id]
  <2>1. ~Live(id)
    BY <1>2, VersionNumbers DEF Effect, Advanced, Live
  <2>2. CASE Removal(id, authEpochs[id])
    BY <1>2, <2>2 DEF Effect, Told
  <2>3. CASE versions[id].epoch = authEpochs[id]
    <3>1. NotOlder(versions'[id], versions[id])
      BY ArrivedVersions DEF Effect, Typed
    <3>2. versions'[id].epoch <= authEpochs'[id]
      BY DEF NothingNewerOf, Past
    <3>3. versions'[id].epoch \in Nat
      BY BoundsAssumption DEF Typed, TypeOK, Version
    <3> QED BY <1>2, <2>3, <3>1, <3>2, <3>3, VersionNumbers DEF NotOlder
  <2> QED BY <2>1, <2>2, <2>3
<1> QED BY <1>1, <1>2

\* Old and new copies of id after a step.
LEMMA CopiesAfter ==
    ASSUME Typed, Typed', NEW id \in Auths, NothingNewerOf(id), Effect(id)
    PROVE \A c \in AuthRecord : Copy(id, c)' => Copy(id, c) \/ c = auths'[id]
<1> SUFFICES ASSUME NEW c \in AuthRecord, Copy(id, c)' PROVE Copy(id, c) \/ c = auths'[id]
  OBVIOUS
<1>1. CASE sched'[id] = c
  BY <1>1, ArrivedVersions DEF Typed, Effect
<1>2. CASE \E w \in Workers : Carries(worker'[w], id, c)
  BY <1>2 DEF Effect, Sourced
<1> QED BY <1>1, <1>2 DEF Copy

\* A newer record starts anew: nothing else carries its version.
LEMMA NewerIsFresh ==
    ASSUME Typed, Typed', NEW id \in Auths, NothingNewerOf(id), Effect(id), Live(id)',
           Newer(id), Untouched(id), Promised(id, auths[id].gen)'
    PROVE Fresh(id, auths[id].gen)'
<1>0. /\ auths'[id] \in AuthRecord /\ auths'[id].gen \in Nat /\ authEpochs'[id] \in Nat
      /\ auths'[id].epoch = authEpochs'[id]
  BY VersionNumbers, LiveTyped, Records, BoundsAssumption DEF Typed, TypeOK, Live
<1>1. \A c \in AuthRecord : Copy(id, c) => ~AtLeast(id, c, auths[id].gen)'
  <2> SUFFICES ASSUME NEW c \in AuthRecord, Copy(id, c),
                      c.epoch = authEpochs'[id], c.gen >= auths'[id].gen
               PROVE FALSE
    BY DEF AtLeast
  <2>1. /\ c.epoch \in Nat /\ c.gen \in Nat /\ c.epoch <= authEpochs[id]
        /\ Live(id) /\ c.epoch = authEpochs[id] => c.gen <= auths[id].gen
    BY Records DEF NothingNewerOf, Past
  <2> QED BY <1>0, <2>1, VersionNumbers DEF Newer, Effect, Advanced
<1>2. ~AtLeast(id, versions[id], auths[id].gen)'
  <2>1. /\ versions'[id] = versions[id]
        /\ versions[id].epoch <= authEpochs[id]
        /\ Live(id) /\ versions[id].epoch = authEpochs[id] => versions[id].gen <= auths[id].gen
    BY DEF Untouched, NothingNewerOf, Past
  <2> QED BY <1>0, <2>1, VersionNumbers DEF AtLeast, Newer, Effect, Advanced
<1>3. \A c \in AuthRecord :
        Copy(id, c)' /\ AtLeast(id, c, auths[id].gen)' => c = [auths'[id] EXCEPT !.gen = c.gen]
  <2> SUFFICES ASSUME NEW c \in AuthRecord, Copy(id, c)', AtLeast(id, c, auths[id].gen)'
               PROVE c = [auths'[id] EXCEPT !.gen = c.gen]
    OBVIOUS
  <2>1. c = auths'[id]
    BY <1>1, CopiesAfter
  <2> QED BY <1>0, <2>1 DEF AuthRecord
<1> QED BY <1>0, <1>2, <1>3 DEF Fresh

\* A record of which only the generation moved stays as fresh as it was.
LEMMA SameStaysFresh ==
    ASSUME Typed, Typed', NEW id \in Auths, NothingNewerOf(id), NothingNewerOf(id)', Effect(id),
           Live(id)', Same(id), NoSyncYet, syncs <= syncs', NEW g \in 1..MaxGen, Fresh(id, g),
           Promised(id, g) =>
              \/ Promised(id, g)'
              \/ \E c \in AuthRecord : AtLeast(id, c, g) /\ NotOlder(versions'[id], c)
    PROVE Fresh(id, g)'
<1>0. /\ auths'[id] \in AuthRecord /\ auths'[id].gen \in Nat /\ authEpochs'[id] = authEpochs[id]
      /\ auths[id] \in AuthRecord /\ auths[id].gen \in Nat
      /\ auths'[id] = [auths[id] EXCEPT !.gen = auths'[id].gen]
      /\ auths'[id].epoch = authEpochs'[id] /\ authEpochs[id] \in Nat
      /\ versions'[id].epoch \in Nat /\ versions'[id].gen \in Nat
      /\ versions[id].epoch \in Nat /\ versions[id].gen \in Nat
      /\ g \in Nat /\ Live(id)
  BY VersionNumbers, LiveTyped, Records, BoundsAssumption DEF Typed, TypeOK, Live, Same, Version
<1>1. g <= auths'[id].gen
  BY <1>0 DEF Fresh, Effect, Advanced
<1>2. \A c \in AuthRecord : (Copy(id, c) \/ c = auths'[id]) /\ AtLeast(id, c, g) =>
        c = [auths'[id] EXCEPT !.gen = c.gen]
  <2> SUFFICES ASSUME NEW c \in AuthRecord, Copy(id, c) \/ c = auths'[id], AtLeast(id, c, g)
               PROVE c = [auths'[id] EXCEPT !.gen = c.gen]
    OBVIOUS
  <2>1. CASE Copy(id, c)
    <3>1. c = [auths[id] EXCEPT !.gen = c.gen]
      BY <2>1 DEF Fresh
    <3> QED BY <1>0, <3>1 DEF AuthRecord
  <2>2. CASE c = auths'[id]
    BY <1>0, <2>2 DEF AuthRecord
  <2> QED BY <2>1, <2>2
<1>3. \A c \in AuthRecord : Copy(id, c)' /\ AtLeast(id, c, g)' => c = [auths'[id] EXCEPT !.gen = c.gen]
  BY <1>0, <1>2, CopiesAfter DEF AtLeast
<1>4. ASSUME NEW v, v.epoch \in Nat, v.gen \in Nat, v.epoch = authEpochs[id], v.gen >= g,
             NotOlder(versions'[id], v)
      PROVE versions'[id].epoch = authEpochs[id] /\ versions'[id].gen >= g
  <2>1. versions'[id].epoch <= authEpochs[id]
    BY <1>0 DEF NothingNewerOf, Past
  <2> QED BY <1>0, <1>4, <2>1 DEF NotOlder
<1>5. AtLeast(id, versions[id], g)' \/ Promised(id, g)'
  <2>1. CASE AtLeast(id, versions[id], g)
    <3>1. NotOlder(versions'[id], versions[id])
      BY ArrivedVersions DEF Effect, Typed
    <3> QED BY <1>0, <1>4, <2>1, <3>1 DEF AtLeast
  <2>2. CASE Promised(id, g)
    <3>1. CASE \E c \in AuthRecord : AtLeast(id, c, g) /\ NotOlder(versions'[id], c)
      BY <1>0, <1>4, <3>1, Records DEF AtLeast
    <3> QED BY <2>2, <3>1
  <2> QED BY <2>1, <2>2 DEF Fresh
<1>6. syncs' = 0 /\ auths'[id].enabled /\ AtLeast(id, versions[id], g)' => sched'[id] # Absent
  <2> SUFFICES ASSUME syncs' = 0, auths'[id].enabled,
                      versions'[id].epoch = authEpochs[id], versions'[id].gen >= g
               PROVE sched'[id] # Absent
    BY <1>0 DEF AtLeast
  <2>1. syncs = 0 /\ auths[id].enabled /\ \A w \in Workers : ~Doing(w, "rebuild")
    <3>1. syncs = 0
      BY VersionNumbers
    <3>2. auths'[id].enabled = auths[id].enabled
      BY <1>0 DEF AuthRecord
    <3> QED BY <3>1, <3>2 DEF NoSyncYet, Is, Doing
  <2>2. versions'[id] = versions[id] => sched[id] # Absent
    BY <1>0, <2>1 DEF Fresh, AtLeast
  <2>3. CASE Untouched(id)
    BY <2>2, <2>3 DEF Untouched
  <2>4. ASSUME NEW c \in AuthRecord, Copy(id, c) \/ c = auths'[id], Upserts(id, sched[id], c)
        PROVE sched'[id] # Absent
    <3>1. sched[id] \in AuthRecord \union {Absent} /\ TypeOK
      BY DEF Typed, TypeOK
    <3>2. \/ versions'[id] = versions[id] /\ sched'[id] = sched[id]
          \/ /\ versions'[id] = [epoch |-> c.epoch, gen |-> c.gen]
             /\ sched'[id] = IF c.enabled THEN c ELSE Absent
      BY <2>4, <3>1, UpsertOutcome DEF Upserts
    <3>3. CASE /\ versions'[id] = [epoch |-> c.epoch, gen |-> c.gen]
               /\ sched'[id] = IF c.enabled THEN c ELSE Absent
      <4>1. AtLeast(id, c, g)
        BY <3>3 DEF AtLeast
      <4>2. c.enabled
        <5>1. c = [auths'[id] EXCEPT !.gen = c.gen]
          BY <1>2, <2>4, <4>1
        <5>2. c.enabled = auths'[id].enabled
          BY <1>0, <5>1 DEF AuthRecord
        <5> QED BY <5>2
      <4> QED BY <3>3, <4>2, NamesAssumption
    <3> QED BY <2>2, <3>2, <3>3
  <2>5. ASSUME NEW e \in 1..MaxEpoch, Removal(id, e), Buries(id, e)
        PROVE sched'[id] # Absent
    <3>1. e \in Nat /\ e < authEpochs[id]
      BY <1>0, <2>5, BoundsAssumption DEF NothingNewerOf
    <3>2. versions'[id] # [epoch |-> e, gen |-> 0]
      BY <1>0, <3>1
    <3> QED BY <2>2, <2>5, <3>2 DEF Buries
  <2> QED BY <2>1, <2>3, <2>4, <2>5 DEF Effect, Arrived
<1> QED BY <1>1, <1>3, <1>5, <1>6 DEF Fresh

\* Without a synchronisation so far nobody is about to rebuild the shards.
LEMMA SyncsCounted ==
    ASSUME Typed, NoSyncYet, [Next]_vars
    PROVE NoSyncYet' /\ syncs <= syncs'
<1>0. syncs \in Nat /\ worker \in [Workers -> Calls \union {Idle}] /\ TypeOK
  BY BoundsAssumption DEF Typed, TypeOK
<1> DEFINE Busy(x) == Resyncs(x) \/ Is(x, "rebuild")
<1>1. ASSUME NEW w \in Workers, NEW x, worker' = [worker EXCEPT ![w] = x], syncs' = syncs,
             Busy(x) => Busy(worker[w])
      PROVE NoSyncYet' /\ syncs <= syncs'
  <2>1. worker'[w] = x /\ \A v \in Workers : v # w => worker'[v] = worker[v]
    BY <1>0, <1>1
  <2>2. \A v \in Workers : Busy(worker'[v]) => Busy(worker[v])
    BY <1>1, <2>1
  <2> QED BY <1>0, <1>1, <2>2 DEF NoSyncYet
<1>2. /\ ~Busy(Idle)
      /\ \A i \in Auths, a \in AuthRecord : ~Busy(Upsert(i, a)) /\ ~Busy(Clone(i, a))
      /\ \A i \in Auths, d \in 1..MaxEpoch : ~Busy(Tombstone(i, d))
      /\ \A w \in Workers : Busy(worker[w]) <=> Doing(w, "load") \/ Doing(w, "sync") \/ Doing(w, "rebuild")
  <2>1. /\ ~Busy(Idle)
        /\ \A w \in Workers : Busy(worker[w]) <=> Doing(w, "load") \/ Doing(w, "sync") \/ Doing(w, "rebuild")
    BY DEF Resyncs, Is, Doing
  <2> QED BY <2>1, CallFacts
<1>3. ASSUME NEW w \in Workers, NEW i \in Auths, NEW a \in AuthRecord, Renewed(w, i, a)
      PROVE NoSyncYet' /\ syncs <= syncs'
  BY <1>1, <1>2, <1>3 DEF Renewed
<1>4. ASSUME NEW w \in Workers, Passing(w)
      PROVE NoSyncYet' /\ syncs <= syncs'
  <2>1. CASE StartSync(w)
    BY <1>0, <2>1 DEF StartSync, NoSyncYet
  <2>2. CASE SnapshotAuths(w) \/ LoadSync(w)
    BY <1>1, <1>2, <2>2 DEF SnapshotAuths, LoadSync, Then
  <2>3. CASE Dropped(w)
    BY <1>1, <1>2, <2>3 DEF Dropped
  <2>4. CASE \E i \in Auths : TakeClone(w, i) \/ RefreshSchedulerEntry(w, i)
    BY <1>1, <1>2, <2>4, LiveTyped DEF TakeClone, RefreshSchedulerEntry, Then
  <2> QED BY <1>4, <2>1, <2>2, <2>3, <2>4 DEF Passing
<1>5. ASSUME NEW w \in Workers, Scheduling(w)
      PROVE NoSyncYet' /\ syncs <= syncs'
  <2>1. CASE UpsertAuth(w) \/ RecordRemovalTombstone(w) \/ RebuildScheduler(w)
    BY <1>1, <1>2, <2>1 DEF UpsertAuth, RecordRemovalTombstone, RebuildScheduler, Then
  <2>2. CASE LoadTombstone(w)
    BY <1>1, <1>2, <2>2 DEF LoadTombstone, Then
  <2> QED BY <1>5, <2>1, <2>2 DEF Scheduling
<1>6. ASSUME NEW w \in Workers, RefreshFails(w)
      PROVE NoSyncYet' /\ syncs <= syncs'
  BY <1>1, <1>2, <1>6 DEF RefreshFails, Then
<1>7. CASE ManagerOnly
  <2>1. CASE \E w \in Workers : Load(w)
    BY <1>0, <2>1 DEF Load, NoSyncYet
  <2>2. CASE \E w \in Workers, i \in Auths : Remove(w, i)
    <3>1. PICK w \in Workers, i \in Auths : Remove(w, i)
      BY <2>2
    <3>2. authEpochs[i] + 1 \in 1..MaxEpoch
      BY <3>1, BoundsAssumption DEF Remove, Typed, TypeOK
    <3> QED BY <1>1, <1>2, <3>1, <3>2 DEF Remove, Then
  <2>3. CASE \E i \in Auths : BumpGeneration(i)
    BY <1>0, <2>3 DEF BumpGeneration, NoSyncYet
  <2> QED BY <1>7, <2>1, <2>2, <2>3 DEF ManagerOnly
<1>8. CASE UNCHANGED vars
  BY <1>0, <1>8 DEF vars, NoSyncYet
<1> QED BY <1>3, <1>4, <1>5, <1>6, <1>7, <1>8, Kinds

\* Nothing is registered and nobody is under way.
LEMMA InitInvariant ==
    ASSUME Init
    PROVE IInv
<1>1. TypeOK
  BY BoundsAssumption DEF Init, TypeOK, Version
<1>2. /\ \A id \in Auths : ~Live(id) /\ sched[id] = Absent
      /\ \A id \in Auths : versions[id] = [epoch |-> 0, gen |-> 0] /\ authEpochs[id] = 0
      /\ \A w \in Workers : worker[w] = Idle
  BY DEF Init, Live
<1>3. /\ \A id \in Auths, c \in AuthRecord : ~Copy(id, c)
      /\ \A id \in Auths, e \in 1..MaxEpoch : ~Removal(id, e)
  BY <1>2, NamesAssumption DEF Copy, Removal, Carries, Announces, Is
<1>4. NothingNewer
  BY <1>2, <1>3 DEF NothingNewer, NothingNewerOf, Past
<1>5. NoSyncYet
  BY <1>2 DEF NoSyncYet, Resyncs, Is
<1> QED BY <1>1, <1>2, <1>4, <1>5 DEF IInv, Typed, ShardsHoldNewest, RemovalTold, NewsArrives

\* Every step keeps the invariant and makes no recorded version older.
LEMMA NextInvariant ==
    ASSUME IInv, [Next]_vars
    PROVE /\ IInv'
          /\ \A id \in Auths : NotOlder(versions'[id], versions[id])
<1>1. Typed /\ Typed' /\ NothingNewer /\ NoSyncYet /\ NoSyncYet' /\ syncs <= syncs'
  BY TypedKept, SyncsCounted DEF IInv
<1>2. \A id \in Auths : Effect(id)
  BY <1>1, StepEffect
<1>3. NothingNewer'
  BY <1>1, <1>2, NothingNewerKept DEF NothingNewer, Effect
<1>4. \A id \in Auths : NotOlder(versions'[id], versions[id])
  BY <1>1, <1>2, ArrivedVersions DEF NothingNewer, Effect, Typed
<1>5. RemovalTold'
  <2> SUFFICES ASSUME NEW id \in Auths, ~Live(id)'
               PROVE versions'[id].epoch = authEpochs'[id] \/ Removal(id, authEpochs[id])'
    BY DEF RemovalTold
  <2> QED BY <1>1, <1>2, <1>3, ToldKept DEF IInv, RemovalTold, NothingNewer
<1>6. NewsArrives'
  <2> SUFFICES ASSUME NEW id \in Auths, Live(id)' PROVE (\E g \in 1..MaxGen : Fresh(id, g))'
    BY DEF NewsArrives
  <2>1. NothingNewerOf(id) /\ NothingNewerOf(id)' /\ Effect(id)
    BY <1>1, <1>2, <1>3 DEF NothingNewer
  <2>2. CASE Newer(id) /\ Untouched(id) /\ Promised(id, auths[id].gen)'
    <3>1. Fresh(id, auths[id].gen)'
      BY <1>1, <2>1, <2>2, NewerIsFresh
    <3>2. auths'[id] \in AuthRecord
      BY <1>1 DEF Typed, TypeOK, Live
    <3>3. auths'[id].gen \in 1..MaxGen
      BY <3>2, Records
    <3> QED BY <3>1, <3>3
  <2>3. CASE ~(Newer(id) /\ Untouched(id) /\ Promised(id, auths[id].gen)')
    <3>1. /\ Same(id)
          /\ \A g \in 1..MaxGen : g <= auths[id].gen /\ Promised(id, g) =>
               \/ \E w \in Workers : \/ Resyncs(worker'[w])
                                     \/ \E c \in AuthRecord : /\ Carries(worker'[w], id, c)
                                                              /\ AtLeast(id, c, g)
               \/ \E c \in AuthRecord : AtLeast(id, c, g) /\ NotOlder(versions'[id], c)
      BY <2>1, <2>3 DEF Effect, Delivered
    <3>2. PICK g \in 1..MaxGen : Fresh(id, g)
      BY <3>1 DEF Same, IInv, NewsArrives
    <3>3. Promised(id, g) =>
            \/ Promised(id, g)'
            \/ \E c \in AuthRecord : AtLeast(id, c, g) /\ NotOlder(versions'[id], c)
      <4>1. \A c \in AuthRecord : AtLeast(id, c, g)' = AtLeast(id, c, g)
        BY <3>1 DEF AtLeast, Same
      <4> QED BY <3>1, <3>2, <4>1 DEF Promised, Fresh
    <3>4. Fresh(id, g)'
      BY <1>1, <2>1, <3>1, <3>2, <3>3, SameStaysFresh
    <3> QED BY <3>4
  <2> QED BY <2>2, <2>3
<1>7. ShardsHoldNewest'
  BY ShardsKept DEF IInv
<1> QED BY <1>1, <1>3, <1>4, <1>5, <1>6, <1>7 DEF IInv

\* The invariant holds of every behaviour.
THEOREM Invariance == Spec => []IInv
<1>1. IInv /\ [Next]_vars => IInv'
  BY NextInvariant
<1> QED BY <1>1, InitInvariant, PTL DEF Spec

-----------------------------------------------------------------------------
(* Theorems *)

\* The Manager's maps, the scheduler's maps and the copies under way have their
\* shapes for any number of credentials and workers.
THEOREM SchedulingTypeCorrect == Spec => []TypeOK
<1>1. IInv => TypeOK
  BY DEF IInv, Typed
<1> QED BY <1>1, Invariance, PTL

\* The recorded version of a credential is the version of the copy the shards
\* hold (upsertAuthLocked, recordRemovalTombstoneLocked, rebuild).
THEOREM VersionsMatchShards == Spec => []ShardsHoldNewest
<1>1. IInv => ShardsHoldNewest
  BY DEF IInv
<1> QED BY <1>1, Invariance, PTL

\* No copy, tombstone or rebuild takes the recorded version back
\* (isStaleScheduledAuth, recordRemovalTombstoneLocked).
THEOREM VersionsOnlyGrow == Spec => VersionsNeverGoBack
<1>1. IInv /\ [Next]_vars =>
        [\A id \in Auths :
           \/ versions'[id].epoch > versions[id].epoch
           \/ /\ versions'[id].epoch = versions[id].epoch
              /\ versions'[id].gen >= versions[id].gen]_vars
  BY NextInvariant DEF NotOlder
<1> QED BY <1>1, Invariance, PTL DEF Spec, VersionsNeverGoBack

\* A removed credential whose tombstone arrived is not scheduled again by a copy
\* or a snapshot taken earlier (Remove, Load, recordRemovalTombstoneLocked).
THEOREM RemovedStayAway == Spec => []RemovedStaysUnscheduled
<1>1. IInv => RemovedStaysUnscheduled
  <2> SUFFICES ASSUME IInv, NEW id \in Auths, ~Live(id), ~Burying(id), sched[id] # Absent
               PROVE FALSE
    BY DEF RemovedStaysUnscheduled
  <2>1. ~Removal(id, authEpochs[id])
    BY DEF Removal, Announces, Is, Burying, Doing
  <2>2. versions[id].epoch = authEpochs[id]
    BY <2>1 DEF IInv, RemovalTold
  <2>3. sched[id] \in AuthRecord /\ versions[id].epoch = sched[id].epoch
    BY DEF IInv, Typed, TypeOK, ShardsHoldNewest
  <2>4. sched[id].epoch < authEpochs[id] /\ sched[id].epoch \in Nat /\ authEpochs[id] \in Nat
    BY <2>3, Records, VersionNumbers DEF IInv, NothingNewer, NothingNewerOf, Copy
  <2> QED BY <2>2, <2>3, <2>4
<1> QED BY <1>1, Invariance, PTL

\* Nobody has news for the shards.
LEMMA QuietMeansArrived ==
    ASSUME IInv, Quiet, NEW id \in Auths
    PROVE /\ ~Removal(id, authEpochs[id])
          /\ Live(id) => \E g \in 1..MaxGen : Fresh(id, g) /\ AtLeast(id, versions[id], g)
<1>1. \A w \in Workers : worker[w] = Idle
  BY DEF Quiet
<1>2. \A g \in 1..MaxGen : ~Promised(id, g)
  BY <1>1 DEF Promised, Carries, Resyncs, Is
<1>3. ~Removal(id, authEpochs[id])
  BY <1>1 DEF Removal, Announces, Is
<1> QED BY <1>2, <1>3 DEF IInv, NewsArrives, Fresh

\* When every operation has reached the scheduler, what is scheduled is what the
\* Manager has, in whatever order copies, tombstones and rebuilds arrived.
THEOREM QuietShardsAreCurrent == Spec => []ScheduledIsCurrent
<1>1. IInv => ScheduledIsCurrent
  <2> SUFFICES ASSUME IInv, Quiet, NEW id \in Auths, sched[id] # Absent
               PROVE Live(id) /\ sched[id] = [auths[id] EXCEPT !.gen = sched[id].gen]
    BY DEF ScheduledIsCurrent
  <2>1. /\ sched[id] \in AuthRecord
        /\ versions[id] = [epoch |-> sched[id].epoch, gen |-> sched[id].gen]
    BY DEF IInv, Typed, TypeOK, ShardsHoldNewest
  <2>2. Copy(id, sched[id]) /\ versions[id].epoch = sched[id].epoch /\ versions[id].gen = sched[id].gen
    BY <2>1 DEF Copy
  <2>3. Live(id)
    <3>1. ~Live(id) => /\ sched[id].epoch < authEpochs[id]
                       /\ sched[id].epoch \in Nat /\ authEpochs[id] \in Nat
      BY <2>1, <2>2, Records, VersionNumbers DEF IInv, NothingNewer, NothingNewerOf
    <3> QED BY <2>2, <3>1, QuietMeansArrived DEF IInv, RemovalTold
  <2>4. PICK g \in 1..MaxGen : Fresh(id, g) /\ AtLeast(id, versions[id], g)
    BY <2>3, QuietMeansArrived
  <2>5. AtLeast(id, sched[id], g)
    BY <2>2, <2>4 DEF AtLeast
  <2> QED BY <2>1, <2>2, <2>3, <2>4, <2>5 DEF Fresh
<1> QED BY <1>1, Invariance, PTL

\* Without a rebuild, when every operation has reached the scheduler, every
\* enabled credential is scheduled.
THEOREM UpsertsLoseNothing == Spec => []ScheduledUnlessRebuilt
<1>1. IInv => ScheduledUnlessRebuilt
  <2> SUFFICES ASSUME IInv, syncs = 0, Quiet, NEW id \in Auths, Live(id), auths[id].enabled
               PROVE sched[id] # Absent
    BY DEF ScheduledUnlessRebuilt, EnabledIsScheduled
  <2> QED BY QuietMeansArrived DEF Fresh
<1> QED BY <1>1, Invariance, PTL
=============================================================================
