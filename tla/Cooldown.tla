------------------------------- MODULE Cooldown -------------------------------
(***************************************************************************)
(* The cooldown state of one credential (sdk/aps/auth/conductor_cooldown.go)*)
(* and the entries the scheduler keeps for it (scheduler.go, selector.go). *)
(* MarkResult turns the outcome of a request into windows in which a model *)
(* of the credential, or the whole credential, is not picked.              *)
(*                                                                         *)
(* Time is a counter; 0 is the zero time.Time.  A result changes the      *)
(* credential under m.mu and is handed to the scheduler at once: the order *)
(* in which copies reach it is the subject of AuthScheduling.  Of a        *)
(* scheduler entry only whether it is ready and its next time are kept.    *)
(* A transient cooldown configured away acts like a result with cooling    *)
(* off; a forced cooldown acts like one with cooling on.                   *)
(***************************************************************************)
EXTENDS Integers, FiniteSets, FiniteSetsExt

CONSTANTS
    Models,         \* the models the credential serves
    NoState,        \* ModelStates has no entry for the model
    NoShard,        \* the scheduler has not built the shard of the model yet
    NoHint,         \* the provider sent no retry hint
    Hints,          \* the retry hints of providers
    Base, Top,      \* quotaBackoffBase and quotaBackoffMax
    CloudflareMin,  \* the least Cloudflare cooldown
    Transient,      \* transientErrorCooldown
    Medium, Long,   \* the cooldowns after 401/402/403 and after 404
    Occurring,      \* the kinds of failures that happen
    MaxTime         \* bound on the clock

ASSUME DurationsAssumption ==
    /\ {Base, Top, CloudflareMin, Transient, Medium, Long} \subseteq Nat \ {0}
    /\ Hints \subseteq Nat
    /\ NoHint \notin Hints
    /\ MaxTime \in Nat

Kinds == {"support", "credential", "notFound", "transient", "cloudflare", "quota"}

ASSUME OccurringAssumption == Occurring \subseteq Kinds

\* ModelStates is a map, and a hint is a 64-bit duration.
ASSUME FiniteAssumption == IsFiniteSet(Models) /\ IsFiniteSet(Hints)

\* Unavailable, NextRetryAfter; Quota.Exceeded, .NextRecoverAt, .BackoffLevel.
States ==
    [unavailable : BOOLEAN, retry : Nat, exceeded : BOOLEAN, recover : Nat, level : Nat]

Reasons == {"none", "credential", "quota", "cloudflare"}

\* The same fields of the credential, and Quota.Reason.
AuthStates ==
    [unavailable : BOOLEAN, retry : Nat, exceeded : BOOLEAN, recover : Nat, level : Nat,
     reason : Reasons]

\* Whether an entry is ready, and from when on it is evaluated anew.
Entries == [ready : BOOLEAN, next : Nat]

ASSUME SentinelAssumption == NoState \notin States /\ NoShard \notin Entries

VARIABLES
    models,  \* auth.ModelStates
    auth,    \* the fields of the credential itself
    shards,  \* the scheduler's entry for the credential in the shard of a model
    now

vars == <<models, auth, shards, now>>

Clear == [unavailable |-> FALSE, retry |-> 0, exceeded |-> FALSE, recover |-> 0,
          level |-> 0]
ClearAuth == [unavailable |-> FALSE, retry |-> 0, exceeded |-> FALSE, recover |-> 0,
              level |-> 0, reason |-> "none"]

Ready == [ready |-> TRUE, next |-> 0]

Init ==
    /\ models = [m \in Models |-> NoState]
    /\ auth = ClearAuth
    /\ shards = [m \in Models |-> NoShard]
    /\ now = 1

Known(ms) == {m \in Models : ms[m] # NoState}
Later(s, t) == IF s > t THEN s ELSE t

-----------------------------------------------------------------------------
(* Is a model of the credential blocked?  (selector.go) *)

CredentialOpen(a, t) == a.exceeded /\ a.reason = "credential" /\ a.recover > t

Deadlines(s, t) == {d \in {s.retry, s.recover} : d > t}

StateBlocked(s, t) ==
    /\ s.unavailable \/ s.exceeded
    /\ Deadlines(s, t) # {} \/ (s.retry = 0 /\ s.recover = 0)

StateBlockedUntil(s, t) == IF Deadlines(s, t) = {} THEN 0 ELSE Max(Deadlines(s, t))

\* Mutant: a model without a state of its own inherits the credential's.
Decides_Inherits(m, ms, a) == IF ms[m] = NoState THEN a ELSE ms[m]

\* The state that decides about m once no credential window is open.
Decides(m, ms, a) ==
    IF Known(ms) = {} THEN a ELSE IF ms[m] = NoState THEN Clear ELSE ms[m]

Blocked(m, ms, a, t) == CredentialOpen(a, t) \/ StateBlocked(Decides(m, ms, a), t)

BlockedUntil(m, ms, a, t) ==
    IF CredentialOpen(a, t) THEN a.recover
    ELSE StateBlockedUntil(Decides(m, ms, a), t)

-----------------------------------------------------------------------------
(* The scheduler *)

Entry(m, ms, a) ==
    IF Blocked(m, ms, a, now)
    THEN [ready |-> FALSE, next |-> BlockedUntil(m, ms, a, now)]
    ELSE Ready

\* Every shard that exists reevaluates the credential.
Upsert(ms, a) ==
    shards' = [m \in Models |-> IF shards[m] = NoShard THEN NoShard ELSE Entry(m, ms, a)]

\* Mutant: an entry whose time has come is ready.
Promoted_Unchecked(m) ==
    LET e == shards[m] IN IF ~e.ready /\ e.next # 0 /\ e.next <= now THEN Ready ELSE e

\* An entry whose time has come is evaluated anew.
Promoted(m) ==
    LET e == shards[m]
    IN IF ~e.ready /\ e.next # 0 /\ e.next <= now THEN Entry(m, models, auth) ELSE e

\* A pick builds the shard of the model or promotes its entries.
Pick(m) ==
    /\ shards' = [shards EXCEPT ![m] =
                     IF @ = NoShard THEN Entry(m, models, auth) ELSE Promoted(m)]
    /\ UNCHANGED <<models, auth, now>>

-----------------------------------------------------------------------------
(* The effect of a failure on the state of a model or of the credential *)

Rung(level) == IF Base * 2^level >= Top THEN Top ELSE Base * 2^level
NextLevel(level) == IF Base * 2^level >= Top THEN level ELSE level + 1

\* Model support errors block whether or not cooling is on.
Support(s) == [s EXCEPT !.unavailable = TRUE, !.retry = now + Long]

Fixed(s, cooling, duration) ==
    [s EXCEPT !.unavailable = TRUE, !.retry = IF cooling THEN now + duration ELSE 0]

Passing(s, cooling) ==
    [s EXCEPT !.unavailable = cooling, !.retry = IF cooling THEN now + Transient ELSE 0]

Quota(s, next, level) ==
    [s EXCEPT !.unavailable = TRUE, !.retry = next, !.exceeded = TRUE,
              !.recover = next, !.level = level]

Cloudflare(s, cooling) ==
    IF cooling
    THEN Quota(s, now + Later(Rung(s.level), CloudflareMin), NextLevel(s.level))
    ELSE Quota(s, 0, s.level)

\* Mutant: a failure inside an open window climbs the ladder again.
QuotaAfterFailure_Climbs(s, hint) ==
    IF hint # NoHint
    THEN Quota(s, Later(now + hint, s.recover), s.level)
    ELSE Quota(s, Later(now + Rung(s.level), s.recover), NextLevel(s.level))

\* A window still open is reused, and never cut short by a hint.
QuotaAfterFailure(s, hint) ==
    IF hint # NoHint
    THEN Quota(s, Later(now + hint, s.recover), s.level)
    ELSE IF s.recover > now
         THEN Quota(s, s.recover, s.level)
         ELSE Quota(s, now + Rung(s.level), NextLevel(s.level))

\* Mutant: nothing is lifted when cooling is off.
Lifted_Never(s, cooling) == s

\* With cooling off, a failure that left no deadline blocks nothing.
Lifted(s, cooling) ==
    IF ~cooling /\ s.retry = 0 /\ s.recover = 0
    THEN [s EXCEPT !.unavailable = FALSE, !.exceeded = FALSE]
    ELSE s

\* How MarkResult classifies a failure, and what it brings along: a hint and the
\* scope are looked at in a quota failure with cooling on only, cooling not in a
\* model support error.
Failures ==
    {f \in [kind : Occurring, hint : Hints \union {NoHint}, scope : BOOLEAN, cooling : BOOLEAN] :
       /\ f.hint # NoHint \/ f.scope => f.kind = "quota" /\ f.cooling
       /\ f.kind = "support" => f.cooling}

Hit(s, f) ==
    CASE f.kind = "support" -> Support(s)
      [] f.kind = "credential" -> Fixed(s, f.cooling, Medium)
      [] f.kind = "notFound" -> Fixed(s, f.cooling, Long)
      [] f.kind = "transient" -> Passing(s, f.cooling)
      [] f.kind = "cloudflare" -> Cloudflare(s, f.cooling)
      [] f.kind = "quota" /\ f.cooling -> QuotaAfterFailure(s, f.hint)
      [] f.kind = "quota" /\ ~f.cooling -> Quota(s, 0, s.level)

Failed(s, f) == Lifted(Hit(s, f), f.cooling)

-----------------------------------------------------------------------------
(* The credential as a whole: updateAggregatedAvailability *)

\* A window that has passed is cleared while the models are looked through.
Expired(s) == s.unavailable /\ s.retry # 0 /\ s.retry <= now
Settled(ms) == [m \in Models |->
    IF ms[m] # NoState /\ Expired(ms[m])
    THEN [ms[m] EXCEPT !.unavailable = FALSE, !.retry = 0] ELSE ms[m]]

EarliestRecovery(ms, over) ==
    LET times == {ms[m].recover : m \in over} \ {0}
    IN IF times = {} THEN 0 ELSE Min(times)

\* The credential is unavailable as long as all of its known models are.
Availability(ms, a) ==
    LET down == {m \in Known(ms) : ms[m].unavailable /\ ms[m].retry > now}
    IN IF down = Known(ms)
       THEN [a EXCEPT !.unavailable = TRUE, !.retry = Min({ms[m].retry : m \in down})]
       ELSE [a EXCEPT !.unavailable = FALSE, !.retry = 0]

QuotaOf(ms, a) ==
    LET over == {m \in Known(ms) : ms[m].exceeded}
    IN IF over # {}
       THEN [a EXCEPT !.exceeded = TRUE, !.reason = "quota",
                      !.recover = Later(a.recover, EarliestRecovery(ms, over)),
                      !.level = Max({ms[m].level : m \in over})]
       ELSE IF a.exceeded /\ a.recover > now THEN a
       ELSE [a EXCEPT !.exceeded = FALSE, !.reason = "none", !.recover = 0, !.level = 0]

Aggregate(ms, a) == QuotaOf(Settled(ms), Availability(ms, a))

\* While a credential window is open the models do not decide.
Aggregated(ms, a) ==
    /\ IF CredentialOpen(a, now)
       THEN models' = ms /\ auth' = [a EXCEPT !.unavailable = TRUE]
       ELSE models' = Settled(ms) /\ auth' = Aggregate(ms, a)
    /\ Upsert(models', auth')

-----------------------------------------------------------------------------
(* MarkResult and ResetQuota *)

\* A success says nothing against an open credential window.
Success(m) ==
    /\ IF CredentialOpen(auth, now)
       THEN UNCHANGED <<models, auth>> /\ Upsert(models, auth)
       ELSE Aggregated([models EXCEPT ![m] = Clear], auth)
    /\ UNCHANGED now

\* A failure that says nothing about the credential.
Skipped ==
    /\ UNCHANGED <<models, auth, now>>
    /\ Upsert(models, auth)

\* The result of a request that names no model.
SuccessWithoutModel ==
    /\ auth' = IF CredentialOpen(auth, now) THEN auth ELSE ClearAuth
    /\ UNCHANGED <<models, now>>
    /\ Upsert(models, auth')

Hurt(m, f) == Failed(IF models[m] = NoState THEN Clear ELSE models[m], f)

\* Mutant: the window of the failing model replaces those of its siblings.
Spread_Overwrites(m, s) == [n \in Models |->
    IF n \in Known(models) \ {m} THEN Quota(models[n], s.recover, s.level)
    ELSE IF n = m THEN s ELSE models[n]]

\* A quota failure of the whole credential reaches every known model.
Spread(m, s) == [n \in Models |->
    IF n \in Known(models) \ {m}
    THEN Quota(models[n], Later(s.recover, models[n].recover), s.level)
    ELSE IF n = m THEN s ELSE models[n]]

\* Mutant: the new window of the credential replaces the open one.
CredentialFailed_Overwrites(s) ==
    [auth EXCEPT !.unavailable = TRUE, !.exceeded = TRUE, !.reason = "credential",
                 !.recover = s.recover, !.retry = s.recover]

CredentialFailed(s) ==
    LET until == Later(s.recover, auth.recover)
    IN [auth EXCEPT !.unavailable = TRUE, !.exceeded = TRUE, !.reason = "credential",
                    !.recover = until, !.retry = until]

Failure(m, f) ==
    LET s == Hurt(m, f) IN
    /\ IF f.scope /\ f.cooling
       THEN Aggregated(Spread(m, s), CredentialFailed(s))
       ELSE Aggregated([models EXCEPT ![m] = s], auth)
    /\ UNCHANGED now

\* applyAuthFailureState, which knows neither scopes nor model support.
FailureWithoutModel(f) ==
    /\ f.kind # "support" /\ ~f.scope
    /\ auth' = [Failed(auth, f) EXCEPT
                   !.reason = IF f.kind \in {"quota", "cloudflare"} THEN f.kind ELSE @]
    /\ UNCHANGED <<models, now>>
    /\ Upsert(models, auth')

Cooling(s) == s.unavailable \/ s.retry # 0 \/ s.exceeded \/ s.recover # 0

\* The operator asks for the credential to be used again.
ResetQuota ==
    LET ms == [m \in Models |-> IF models[m] = NoState THEN NoState ELSE Clear]
        a == IF Cooling(auth) THEN ClearAuth ELSE auth
    IN /\ IF Known(ms) # {}
          THEN Aggregated(ms, a)
          ELSE models' = ms /\ auth' = a /\ Upsert(ms, a)
       /\ UNCHANGED now

Tick ==
    /\ now < MaxTime
    /\ now' = now + 1
    /\ UNCHANGED <<models, auth, shards>>

Next ==
    \/ \E m \in Models : Pick(m) \/ Success(m) \/ \E f \in Failures : Failure(m, f)
    \/ SuccessWithoutModel
    \/ \E f \in Failures : FailureWithoutModel(f)
    \/ Skipped
    \/ ResetQuota
    \/ Tick

Spec == Init /\ [][Next]_vars

-----------------------------------------------------------------------------
(* Properties *)

LongestWait == Max({Top, CloudflareMin, Transient, Medium, Long} \union Hints)

\* The scheduler and the selector agree: no entry is ready while its model is
\* blocked, and an entry of a model that is not blocked is ready or due for
\* promotion, so that no pick passes it over (scheduler.go:894-926).
SchedulerAgrees ==
    \A m \in Models : shards[m] # NoShard =>
        IF Blocked(m, models, auth, now)
        THEN ~shards[m].ready
        ELSE shards[m].ready \/ (shards[m].next # 0 /\ shards[m].next <= now)

\* No failure blocks a model for good: there is always a time, no farther away
\* than the longest cooldown, at which it is tried again
\* (cooldown_backoff_test.go, TestRecoverableUnknownFailuresHaveFiniteCooldown).
EveryBlockEnds ==
    \A m \in Models : Blocked(m, models, auth, now) =>
        BlockedUntil(m, models, auth, now) \in (now + 1)..(now + LongestWait)

\* A window over the whole credential is neither shortened nor forgotten by
\* the late outcomes of requests for its models; only ResetQuota and failures
\* that name no model touch it (conductor_cooldown.go:757, 1218).
CredentialWindowHolds ==
    [][CredentialOpen(auth, now) /\ (auth'.recover < auth.recover \/ auth'.reason # "credential")
        => ResetQuota \/ \E f \in Failures : FailureWithoutModel(f)]_vars

\* An open quota window of a model ends early only by a success or a failure of
\* that model that says so (a challenge, cooling off) or by ResetQuota, never by
\* what happens to its siblings (conductor_cooldown.go:838, 854).
QuotaWindowsHold ==
    [][\A m \in Models :
         models[m] # NoState /\ models[m].recover > now /\ models'[m].recover < models[m].recover
         => \/ Success(m) \/ ResetQuota
            \/ \E f \in Failures : (f.kind = "cloudflare" \/ ~f.cooling) /\ Failure(m, f)]_vars

\* A burst of failures inside one window climbs the backoff ladder once at most;
\* challenges, and the spread of a sibling's level, are apart
\* (conductor_cooldown.go:2055-2059).
BackoffOncePerWindow ==
    [][\A m \in Models :
         models[m] # NoState /\ models[m].recover > now /\ models'[m].level > models[m].level
         => \/ \E f \in Failures : f.kind = "cloudflare" /\ Failure(m, f)
            \/ \E n \in Models \ {m}, f \in Failures : f.scope /\ Failure(n, f)]_vars

\* A failure of one model blocks no other model unless it is the credential's
\* (claude_ratelimit_cooldown_test.go:198-222).
FailuresStayLocal ==
    [][\A m \in Models :
         ~Blocked(m, models, auth, now) /\ Blocked(m, models', auth', now')
         => \/ \E f \in Failures : FailureWithoutModel(f) \/ Failure(m, f)
            \/ \E n \in Models, f \in Failures : f.scope /\ Failure(n, f)]_vars

\* "A provider supplied retry hint always takes effect, even in-window."
\* (cooldown_backoff_test.go:141)
RetryHintTakesEffect ==
    [][\A m \in Models, f \in Failures :
         f.kind = "quota" /\ f.hint # NoHint /\ f.cooling /\ Failure(m, f)
         => models'[m].recover = now + f.hint]_vars
=============================================================================
