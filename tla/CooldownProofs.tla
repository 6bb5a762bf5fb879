---------------------------- MODULE CooldownProofs ----------------------------
(***************************************************************************)
(* Theorems about Cooldown, for any models, any retry hints, any durations *)
(* and any kinds of failures that happen.                                  *)
(*                                                                         *)
(* Two facts carry them.  A state is sane: what is blocked has a deadline, *)
(* and no deadline is farther away than the longest cooldown.  An entry of *)
(* the scheduler is foretelling: a model is not blocked while its entry is *)
(* ready, and is blocked until the next time of an entry that is not.  The *)
(* first parts show what each kind of failure and the aggregation make of  *)
(* a state; the last parts what each step makes of all of them.            *)
(***************************************************************************)
EXTENDS Cooldown, FiniteSetTheorems, FunctionTheorems, TLAPS

-----------------------------------------------------------------------------
(* Largest and smallest times *)

\* Every finite set of integers that is not empty has a largest element.
LEMMA MaxExists ==
  ASSUME NEW S \in SUBSET Int, S # {}, IsFiniteSet(S)
  PROVE  Max(S) \in S /\ \A x \in S : x <= Max(S)
<1> DEFINE Covers(A) == A # {} /\ \A x \in S : \E y \in A : x <= y
<1> DEFINE T == {A \in FiniteSubsetsOf(S) : Covers(A)}
<1>1. S \in T
  <2>1. S \in FiniteSubsetsOf(S)
    BY DEF FiniteSubsetsOf
  <2>2. \A x \in S : x <= x
    OBVIOUS
  <2> QED
    BY <2>1, <2>2
<1>2. T \subseteq FiniteSubsetsOf(S)
  OBVIOUS
<1>3. PICK A \in T : \A B \in T : ~(<<B, A>> \in StrictSubsetOrdering(S))
  <2>1. IsWellFoundedOn(StrictSubsetOrdering(S), FiniteSubsetsOf(S))
    BY FS_StrictSubsetOrderingWellFounded
  <2> HIDE DEF T
  <2> QED
    BY <1>1, <1>2, <2>1, WFMin
<1>4. A \subseteq S /\ IsFiniteSet(A) /\ Covers(A)
  BY DEF FiniteSubsetsOf
<1>5. PICK y \in A : TRUE
  BY <1>4
<1>6. ASSUME NEW z \in A, NEW w \in A, z < w
      PROVE  FALSE
  <2> DEFINE B == A \ {z}
  <2>1. B \in SUBSET A /\ B # A /\ w \in B
    BY <1>4, <1>6
  <2>2. IsFiniteSet(B)
    BY <1>4, <2>1, FS_Subset
  <2>3. Covers(B)
    <3> SUFFICES ASSUME NEW x \in S
                 PROVE  \E v \in B : x <= v
      BY <2>1
    <3>1. PICK v \in A : x <= v
      BY <1>4
    <3>2. CASE v = z
      BY <1>4, <1>6, <2>1, <3>1, <3>2
    <3>3. CASE v # z
      BY <3>1, <3>3
    <3> QED
      BY <3>2, <3>3
  <2>4. B \in T
    BY <1>4, <2>1, <2>2, <2>3 DEF FiniteSubsetsOf
  <2>5. <<B, A>> \in StrictSubsetOrdering(S)
    BY <1>4, <2>1 DEF StrictSubsetOrdering
  <2> QED
    BY <1>3, <2>4, <2>5
<1>7. y \in S /\ \A x \in S : x <= y
  <2> SUFFICES ASSUME NEW x \in S
               PROVE  x <= y
    BY <1>4, <1>5
  <2>1. PICK v \in A : x <= v
    BY <1>4
  <2> QED
    BY <1>4, <1>5, <1>6, <2>1
<1>8. \E x \in S : \A v \in S : x >= v
  BY <1>7
<1> QED
  BY <1>8 DEF Max

\* Every set of times that is not empty has an earliest one.
LEMMA MinExists ==
  ASSUME NEW S \in SUBSET Nat, S # {}
  PROVE  Min(S) \in S /\ \A x \in S : Min(S) <= x
<1>1. PICK y \in S : \A x \in S : ~(<<x, y>> \in OpToRel(<, Nat))
  BY NatLessThanWellFounded, WFMin
<1>2. ASSUME NEW x \in S, x < y
      PROVE  FALSE
  <2>1. <<x, y>> \in OpToRel(<, Nat)
    BY <1>2 DEF OpToRel
  <2> QED
    BY <1>1, <2>1
<1>3. \A x \in S : y <= x
  BY <1>2
<1> QED
  BY <1>3 DEF Min

\* The times of finitely many things are finitely many.
LEMMA ImageFinite ==
  ASSUME NEW D, IsFiniteSet(D), NEW f, DOMAIN f = D
  PROVE  IsFiniteSet({f[x] : x \in D})
<1> DEFINE S == {f[x] : x \in D}
<1> DEFINE g == [x \in D |-> f[x]]
<1>1. g \in [D -> S]
  OBVIOUS
<1>2. \A v \in S : \E x \in D : g[x] = v
  OBVIOUS
<1> HIDE DEF g, S
<1>3. g \in Surjection(D, S)
  BY <1>1, <1>2, Fun_IsSurj
<1>4. IsFiniteSet(S)
  BY <1>3, FS_Surjection
<1> QED
  BY <1>4 DEF S

-----------------------------------------------------------------------------
(* The ladder of backoffs and the longest wait *)

\* A power of two is a positive number.
LEMMA Powers ==
  ASSUME NEW n \in Nat
  PROVE  2^n \in Nat \ {0}
<1>1. 1 \in Int /\ n \in Int
  OBVIOUS
<1>2. IsFiniteSet(1..n) /\ Cardinality(1..n) = n
  BY <1>1, FS_Interval
<1>3. IsFiniteSet(SUBSET (1..n)) /\ Cardinality(SUBSET (1..n)) = 2^n
  BY <1>2, FS_SUBSET
<1>4. Cardinality(SUBSET (1..n)) \in Nat
  BY <1>3, FS_CardinalityType
<1>5. Cardinality(SUBSET (1..n)) # 0
  BY <1>3, FS_EmptySet
<1> QED
  BY <1>3, <1>4, <1>5

\* The durations are positive.
LEMMA Durations ==
  /\ Base \in Nat \ {0} /\ Top \in Nat \ {0} /\ CloudflareMin \in Nat \ {0}
  /\ Transient \in Nat \ {0} /\ Medium \in Nat \ {0} /\ Long \in Nat \ {0}
BY DurationsAssumption

\* A rung of the ladder is a wait no longer than the top of the ladder, and
\* climbing leads to a rung.
LEMMA Ladder ==
  ASSUME NEW level \in Nat
  PROVE  /\ Rung(level) \in Nat \ {0} /\ Rung(level) <= Top
         /\ NextLevel(level) \in Nat
<1>1. 2^level \in Nat \ {0}
  BY Powers
<1> DEFINE p == 2^level
<1> HIDE DEF p
<1>2. p \in Nat \ {0} => Base * p \in Nat \ {0}
  BY Durations
<1>3. Base * p \in Nat \ {0}
  BY <1>1, <1>2 DEF p
<1> DEFINE b == Base * p
<1> HIDE DEF b
<1>4. b \in Nat \ {0} => (IF b >= Top THEN Top ELSE b) \in Nat \ {0} /\ (IF b >= Top THEN Top ELSE b) <= Top
  BY Durations
<1>5. Rung(level) = IF b >= Top THEN Top ELSE b
  BY DEF b, p, Rung
<1> QED
  BY <1>3, <1>4, <1>5 DEF b, NextLevel

\* No cooldown is longer than LongestWait.
LEMMA LongestWaits ==
  /\ LongestWait \in Nat \ {0}
  /\ Top <= LongestWait /\ CloudflareMin <= LongestWait /\ Transient <= LongestWait
  /\ Medium <= LongestWait /\ Long <= LongestWait
  /\ \A h \in Hints : h \in Nat /\ h <= LongestWait
<1> DEFINE S == {Top, CloudflareMin, Transient, Medium, Long} \union Hints
<1>1. S \in SUBSET Nat /\ S # {}
  BY DurationsAssumption
<1>2. IsFiniteSet({Top, CloudflareMin, Transient, Medium, Long})
  <2>1. IsFiniteSet({Top})
    BY FS_Singleton
  <2>2. IsFiniteSet({Top} \union {CloudflareMin})
    BY <2>1, FS_AddElement
  <2>3. IsFiniteSet({Top} \union {CloudflareMin} \union {Transient})
    BY <2>2, FS_AddElement
  <2>4. IsFiniteSet({Top} \union {CloudflareMin} \union {Transient} \union {Medium})
    BY <2>3, FS_AddElement
  <2>5. IsFiniteSet({Top} \union {CloudflareMin} \union {Transient} \union {Medium} \union {Long})
    BY <2>4, FS_AddElement
  <2>6. {Top} \union {CloudflareMin} \union {Transient} \union {Medium} \union {Long}
          = {Top, CloudflareMin, Transient, Medium, Long}
    OBVIOUS
  <2> QED
    BY <2>5, <2>6
<1>3. IsFiniteSet(S)
  BY <1>2, FiniteAssumption, FS_Union
<1>4. Top \in S /\ CloudflareMin \in S /\ Transient \in S /\ Medium \in S /\ Long \in S
      /\ Hints \subseteq S
  OBVIOUS
<1>5. LongestWait = Max(S)
  BY DEF LongestWait
<1> HIDE DEF S
<1>6. S \in SUBSET Int
  BY <1>1
<1>7. Max(S) \in S /\ \A x \in S : x <= Max(S)
  BY <1>1, <1>3, <1>6, MaxExists
<1>8. \A x \in S : x \in Nat /\ x <= LongestWait
  BY <1>1, <1>5, <1>7
<1>9. LongestWait \in Nat
  BY <1>1, <1>5, <1>7
<1>10. Top <= LongestWait /\ Top \in Nat \ {0}
  BY <1>4, <1>8, Durations
<1>11. LongestWait # 0
  BY <1>9, <1>10
<1> QED
  BY <1>4, <1>8, <1>9, <1>11

-----------------------------------------------------------------------------
(* The state of a model or of the credential *)

\* What is blocked has a deadline, and no deadline is too far away.
Sane(s, t) ==
  /\ s.exceeded => s.recover # 0
  /\ s.unavailable => s.retry # 0 \/ s.recover # 0
  /\ s.retry <= t + LongestWait
  /\ s.recover <= t + LongestWait

\* The fields of a state.
Fields(s) ==
  /\ s.unavailable \in BOOLEAN /\ s.exceeded \in BOOLEAN
  /\ s.retry \in Nat /\ s.recover \in Nat /\ s.level \in Nat

\* What is made of a model's state is one, and the same for the credential.
Shaped(r, s) ==
  /\ Fields(r)
  /\ s \in States => r \in States
  /\ s \in AuthStates => r \in AuthStates

Present == now \in Nat \ {0}

\* The fields of a failure; only a quota failure is the whole credential's.
LEMMA FailureFields ==
  ASSUME NEW f \in Failures
  PROVE  /\ f.kind \in Kinds /\ f.cooling \in BOOLEAN /\ f.scope \in BOOLEAN
         /\ f.hint # NoHint => f.hint \in Hints
         /\ f.scope => f.kind = "quota"
BY OccurringAssumption DEF Failures, Kinds

\* The states of models and of the credential share their fields.
LEMMA StateFields ==
  ASSUME NEW s \in States \union AuthStates
  PROVE  Fields(s)
<1>1. CASE s \in States
  BY <1>1 DEF States, Fields
<1>2. CASE s \in AuthStates
  BY <1>2 DEF AuthStates, Fields
<1> QED
  BY <1>1, <1>2

\* A state with another deadline for a retry.
Retrying(s, u, n) == [s EXCEPT !.unavailable = u, !.retry = n]

\* Of a state with another retry deadline nothing else has changed.
LEMMA RetryFields ==
  ASSUME NEW s \in States \union AuthStates, NEW u \in BOOLEAN, NEW n \in Nat
  PROVE  LET r == Retrying(s, u, n)
         IN /\ Shaped(r, s)
            /\ r.unavailable = u /\ r.retry = n
            /\ r.exceeded = s.exceeded /\ r.recover = s.recover /\ r.level = s.level
<1>1. CASE s \in States
  BY <1>1 DEF States, AuthStates, Fields, Shaped, Retrying
<1>2. CASE s \in AuthStates
  BY <1>2 DEF States, AuthStates, Fields, Shaped, Retrying
<1> QED
  BY <1>1, <1>2

\* A window of the quota is its recovery and its retry deadline at once.
LEMMA QuotaFields ==
  ASSUME NEW s \in States \union AuthStates, NEW n \in Nat, NEW l \in Nat
  PROVE  LET r == Quota(s, n, l)
         IN /\ Shaped(r, s)
            /\ r.unavailable = TRUE /\ r.retry = n
            /\ r.exceeded = TRUE /\ r.recover = n /\ r.level = l
<1>1. CASE s \in States
  BY <1>1 DEF States, AuthStates, Fields, Shaped, Quota
<1>2. CASE s \in AuthStates
  BY <1>2 DEF States, AuthStates, Fields, Shaped, Quota
<1> QED
  BY <1>1, <1>2

\* Lifting takes the flags of a state without deadlines.
LEMMA LiftedFields ==
  ASSUME NEW s \in States \union AuthStates, NEW cooling \in BOOLEAN
  PROVE  LET r == Lifted(s, cooling)
         IN /\ Shaped(r, s)
            /\ r.retry = s.retry /\ r.recover = s.recover /\ r.level = s.level
            /\ IF ~cooling /\ s.retry = 0 /\ s.recover = 0
               THEN ~r.unavailable /\ ~r.exceeded
               ELSE r.unavailable = s.unavailable /\ r.exceeded = s.exceeded
<1>1. CASE s \in States
  BY <1>1, StateFields DEF States, AuthStates, Fields, Shaped, Lifted
<1>2. CASE s \in AuthStates
  BY <1>2, StateFields DEF States, AuthStates, Fields, Shaped, Lifted
<1> QED
  BY <1>1, <1>2

\* A new deadline for a retry leaves the quota as it was.
LEMMA RetryLifted ==
  ASSUME NEW s \in States \union AuthStates, NEW cooling \in BOOLEAN, Present, Sane(s, now),
         NEW u \in BOOLEAN, NEW n \in Nat, n <= now + LongestWait, u /\ n = 0 => ~cooling
  PROVE  LET r == Lifted(Retrying(s, u, n), cooling)
         IN Shaped(r, s) /\ Sane(r, now) /\ r.recover = s.recover /\ r.level = s.level
<1> DEFINE t == Retrying(s, u, n)
           r == Lifted(t, cooling)
<1>1. /\ Shaped(t, s)
      /\ t.unavailable = u /\ t.retry = n
      /\ t.exceeded = s.exceeded /\ t.recover = s.recover /\ t.level = s.level
  BY RetryFields
<1>2. t \in States \union AuthStates
  BY <1>1 DEF Shaped
<1> HIDE DEF t
<1>3. /\ Shaped(r, t)
      /\ r.retry = t.retry /\ r.recover = t.recover /\ r.level = t.level
      /\ IF ~cooling /\ t.retry = 0 /\ t.recover = 0
         THEN ~r.unavailable /\ ~r.exceeded
         ELSE r.unavailable = t.unavailable /\ r.exceeded = t.exceeded
  BY <1>2, LiftedFields
<1> HIDE DEF r
<1>4. Shaped(r, s)
  BY <1>1, <1>3 DEF Shaped
<1>5. Sane(r, now)
  BY <1>1, <1>3 DEF Sane, Present
<1>6. r.recover = s.recover /\ r.level = s.level
  BY <1>1, <1>3
<1> QED
  BY <1>4, <1>5, <1>6 DEF r, t

\* A new window of the quota.
LEMMA QuotaLifted ==
  ASSUME NEW s \in States \union AuthStates, NEW cooling \in BOOLEAN, Present,
         NEW n \in Nat, NEW l \in Nat, n <= now + LongestWait, n = 0 => ~cooling
  PROVE  LET r == Lifted(Quota(s, n, l), cooling)
         IN Shaped(r, s) /\ Sane(r, now) /\ r.recover = n /\ r.level = l
<1> DEFINE t == Quota(s, n, l)
           r == Lifted(t, cooling)
<1>1. /\ Shaped(t, s)
      /\ t.unavailable = TRUE /\ t.retry = n
      /\ t.exceeded = TRUE /\ t.recover = n /\ t.level = l
  BY QuotaFields
<1>2. t \in States \union AuthStates
  BY <1>1 DEF Shaped
<1> HIDE DEF t
<1>3. /\ Shaped(r, t)
      /\ r.retry = t.retry /\ r.recover = t.recover /\ r.level = t.level
      /\ IF ~cooling /\ t.retry = 0 /\ t.recover = 0
         THEN ~r.unavailable /\ ~r.exceeded
         ELSE r.unavailable = t.unavailable /\ r.exceeded = t.exceeded
  BY <1>2, LiftedFields
<1> HIDE DEF r
<1>4. Shaped(r, s)
  BY <1>1, <1>3 DEF Shaped
<1>5. Sane(r, now)
  BY <1>1, <1>3 DEF Sane, Present
<1>6. r.recover = n /\ r.level = l
  BY <1>1, <1>3
<1> QED
  BY <1>4, <1>5, <1>6 DEF r, t

\* What a failure makes of a state: a sane one, with no earlier recovery unless
\* the failure is a challenge or cooling is off, and no other level than a
\* challenge or the first failure outside a window gives it.
Outcome(r, s, f) ==
  /\ Shaped(r, s)
  /\ Sane(r, now)
  /\ f.cooling /\ f.kind # "cloudflare" => r.recover >= s.recover
  /\ f.kind # "cloudflare" /\ s.recover > now => r.level = s.level
  /\ f.kind = "quota" /\ f.cooling => r.recover # 0

\* A failure that leaves the quota alone.
LEMMA RetryOutcome ==
  ASSUME NEW s \in States \union AuthStates, NEW f \in Failures, Present, Sane(s, now),
         NEW u \in BOOLEAN, NEW n \in Nat, n <= now + LongestWait, u /\ n = 0 => ~f.cooling,
         f.kind # "quota", Hit(s, f) = Retrying(s, u, n)
  PROVE  Outcome(Failed(s, f), s, f)
<1>1. f.cooling \in BOOLEAN /\ Fields(s)
  BY FailureFields, StateFields
<1> DEFINE r == Lifted(Retrying(s, u, n), f.cooling)
<1>2. Shaped(r, s) /\ Sane(r, now) /\ r.recover = s.recover /\ r.level = s.level
  BY <1>1, RetryLifted
<1>3. Failed(s, f) = r
  BY DEF Failed
<1> HIDE DEF r
<1>4. Outcome(r, s, f)
  BY <1>1, <1>2 DEF Outcome, Fields
<1> QED
  BY <1>3, <1>4

\* A failure that sets the quota.
LEMMA QuotaOutcome ==
  ASSUME NEW s \in States \union AuthStates, NEW f \in Failures, Present,
         NEW n \in Nat, NEW l \in Nat, n <= now + LongestWait, n = 0 => ~f.cooling,
         Hit(s, f) = Quota(s, n, l),
         f.kind # "cloudflare" => /\ f.cooling => n >= s.recover
                                  /\ s.recover > now => l = s.level
  PROVE  Outcome(Failed(s, f), s, f)
<1>1. f.cooling \in BOOLEAN
  BY FailureFields
<1> DEFINE r == Lifted(Quota(s, n, l), f.cooling)
<1>2. Shaped(r, s) /\ Sane(r, now) /\ r.recover = n /\ r.level = l
  BY <1>1, QuotaLifted
<1>3. Failed(s, f) = r
  BY DEF Failed
<1> HIDE DEF r
<1>4. Outcome(r, s, f)
  BY <1>1, <1>2 DEF Outcome
<1> QED
  BY <1>3, <1>4

\* Every failure, kind by kind.
LEMMA FailedOutcome ==
  ASSUME NEW s \in States \union AuthStates, NEW f \in Failures, Present, Sane(s, now)
  PROVE  Outcome(Failed(s, f), s, f)
<1>1. /\ f.kind \in Kinds /\ f.cooling \in BOOLEAN
      /\ f.hint # NoHint => f.hint \in Nat /\ f.hint <= LongestWait
  BY FailureFields, LongestWaits
<1>2. /\ s.retry \in Nat /\ s.recover \in Nat /\ s.level \in Nat
      /\ s.recover <= now + LongestWait /\ now \in Nat \ {0} /\ LongestWait \in Nat
  BY StateFields, LongestWaits DEF Fields, Sane, Present
<1>3. /\ Rung(s.level) \in Nat \ {0} /\ Rung(s.level) <= LongestWait
      /\ NextLevel(s.level) \in Nat
  BY <1>2, Ladder, LongestWaits, Durations
<1>4. CASE f.kind = "support"
  <2>1. Hit(s, f) = Retrying(s, TRUE, now + Long)
    BY <1>4 DEF Hit, Support, Retrying
  <2>2. now + Long \in Nat /\ now + Long # 0 /\ now + Long <= now + LongestWait
    BY <1>2, Durations, LongestWaits
  <2> QED
    BY <1>4, <2>1, <2>2, RetryOutcome
<1>5. CASE f.kind = "credential"
  <2> DEFINE n == IF f.cooling THEN now + Medium ELSE 0
  <2>1. Hit(s, f) = Retrying(s, TRUE, n)
    BY <1>5 DEF Hit, Fixed, Retrying
  <2>2. n \in Nat /\ n <= now + LongestWait /\ (n = 0 => ~f.cooling)
    BY <1>1, <1>2, Durations, LongestWaits
  <2> HIDE DEF n
  <2> QED
    BY <1>5, <2>1, <2>2, RetryOutcome
<1>6. CASE f.kind = "notFound"
  <2> DEFINE n == IF f.cooling THEN now + Long ELSE 0
  <2>1. Hit(s, f) = Retrying(s, TRUE, n)
    BY <1>6 DEF Hit, Fixed, Retrying
  <2>2. n \in Nat /\ n <= now + LongestWait /\ (n = 0 => ~f.cooling)
    BY <1>1, <1>2, Durations, LongestWaits
  <2> HIDE DEF n
  <2> QED
    BY <1>6, <2>1, <2>2, RetryOutcome
<1>7. CASE f.kind = "transient"
  <2> DEFINE n == IF f.cooling THEN now + Transient ELSE 0
  <2>1. Hit(s, f) = Retrying(s, f.cooling, n)
    BY <1>7 DEF Hit, Passing, Retrying
  <2>2. n \in Nat /\ n <= now + LongestWait /\ (n = 0 => ~f.cooling)
    BY <1>1, <1>2, Durations, LongestWaits
  <2> HIDE DEF n
  <2> QED
    BY <1>1, <1>7, <2>1, <2>2, RetryOutcome
<1>8. CASE f.kind = "cloudflare"
  <2>1. Hit(s, f) = Cloudflare(s, f.cooling)
    BY <1>8 DEF Hit
  <2>2. CASE f.cooling
    <3> DEFINE n == now + Later(Rung(s.level), CloudflareMin)
    <3>1. n \in Nat /\ n <= now + LongestWait /\ n # 0
      BY <1>2, <1>3, Durations, LongestWaits DEF Later
    <3>2. Hit(s, f) = Quota(s, n, NextLevel(s.level))
      BY <2>1, <2>2 DEF Cloudflare
    <3> HIDE DEF n
    <3> QED
      BY <1>3, <1>8, <3>1, <3>2, QuotaOutcome
  <2>3. CASE ~f.cooling
    <3>1. Hit(s, f) = Quota(s, 0, s.level)
      BY <2>1, <2>3 DEF Cloudflare
    <3>2. 0 \in Nat /\ 0 <= now + LongestWait
      BY <1>2
    <3> QED
      BY <1>2, <1>8, <2>3, <3>1, <3>2, QuotaOutcome
  <2> QED
    BY <2>2, <2>3
<1>9. CASE f.kind = "quota"
  <2>1. CASE f.cooling /\ f.hint # NoHint
    <3> DEFINE n == Later(now + f.hint, s.recover)
    <3>1. n \in Nat /\ n <= now + LongestWait /\ n # 0 /\ n >= s.recover
      BY <1>1, <1>2, <2>1 DEF Later
    <3>2. Hit(s, f) = Quota(s, n, s.level)
      BY <1>9, <2>1 DEF Hit, QuotaAfterFailure
    <3> HIDE DEF n
    <3> QED
      BY <1>2, <3>1, <3>2, QuotaOutcome
  <2>2. CASE f.cooling /\ f.hint = NoHint /\ s.recover > now
    <3>1. Hit(s, f) = Quota(s, s.recover, s.level)
      BY <1>9, <2>2 DEF Hit, QuotaAfterFailure
    <3>2. s.recover # 0 /\ s.recover >= s.recover
      BY <1>2, <2>2
    <3> QED
      BY <1>2, <3>1, <3>2, QuotaOutcome
  <2>3. CASE f.cooling /\ f.hint = NoHint /\ ~(s.recover > now)
    <3> DEFINE n == now + Rung(s.level)
    <3>1. n \in Nat /\ n <= now + LongestWait /\ n # 0 /\ n >= s.recover
      BY <1>2, <1>3, <2>3
    <3>2. Hit(s, f) = Quota(s, n, NextLevel(s.level))
      BY <1>9, <2>3 DEF Hit, QuotaAfterFailure
    <3> HIDE DEF n
    <3> QED
      BY <1>3, <2>3, <3>1, <3>2, QuotaOutcome
  <2>4. CASE ~f.cooling
    <3>1. Hit(s, f) = Quota(s, 0, s.level)
      BY <1>9, <2>4 DEF Hit
    <3>2. 0 \in Nat /\ 0 <= now + LongestWait
      BY <1>2
    <3> QED
      BY <1>2, <2>4, <3>1, <3>2, QuotaOutcome
  <2> QED
    BY <1>1, <2>1, <2>2, <2>3, <2>4
<1> QED
  BY <1>1, <1>4, <1>5, <1>6, <1>7, <1>8, <1>9 DEF Kinds

-----------------------------------------------------------------------------
(* Until when a model is blocked *)

Mappings == [Models -> States \union {NoState}]

\* The states of the models and of the credential, as they are at time t.
Good(ms, a, t) ==
  /\ ms \in Mappings
  /\ a \in AuthStates
  /\ \A m \in Known(ms) : Sane(ms[m], t)
  /\ Sane(a, t)

\* A state without any deadline is sane and blocks nothing.
LEMMA ClearFields ==
  ASSUME NEW t \in Nat
  PROVE  /\ Clear \in States /\ Clear # NoState /\ Sane(Clear, t) /\ ~StateBlocked(Clear, t)
         /\ ClearAuth \in AuthStates /\ Sane(ClearAuth, t) /\ ~StateBlocked(ClearAuth, t)
         /\ ~CredentialOpen(ClearAuth, t)
<1>1. Clear \in States /\ ClearAuth \in AuthStates
  BY DEF Clear, States, ClearAuth, AuthStates, Reasons
<1>2. Clear # NoState
  BY <1>1, SentinelAssumption
<1>3. Sane(Clear, t) /\ Sane(ClearAuth, t)
  BY LongestWaits DEF Clear, ClearAuth, Sane
<1>4. ~StateBlocked(Clear, t) /\ ~StateBlocked(ClearAuth, t) /\ ~CredentialOpen(ClearAuth, t)
  BY DEF Clear, ClearAuth, StateBlocked, CredentialOpen
<1> QED
  BY <1>1, <1>2, <1>3, <1>4

\* The state that decides about a model is a sane one.
LEMMA DecidesSane ==
  ASSUME NEW t \in Nat, NEW ms, NEW a, Good(ms, a, t), NEW m \in Models
  PROVE  Decides(m, ms, a) \in States \union AuthStates /\ Sane(Decides(m, ms, a), t)
<1>1. CASE Known(ms) = {}
  BY <1>1 DEF Decides, Good
<1>2. CASE Known(ms) # {} /\ ms[m] = NoState
  BY <1>2, ClearFields DEF Decides
<1>3. CASE Known(ms) # {} /\ ms[m] # NoState
  BY <1>3 DEF Decides, Good, Mappings, Known
<1> QED
  BY <1>1, <1>2, <1>3

\* A blocked state has a deadline within reach, and is blocked until the last.
LEMMA StateBlockedEnds ==
  ASSUME NEW t \in Nat, NEW s \in States \union AuthStates, Sane(s, t), StateBlocked(s, t)
  PROVE  LET b == StateBlockedUntil(s, t)
         IN /\ b \in Nat /\ t < b /\ b <= t + LongestWait
            /\ \A u \in Nat : u < b => StateBlocked(s, u)
<1>1. Fields(s)
  BY StateFields
<1>2. Deadlines(s, t) # {}
  BY <1>1 DEF StateBlocked, Sane, Fields
<1>3. IsFiniteSet(Deadlines(s, t))
  <2>1. IsFiniteSet({s.retry} \union {s.recover})
    BY FS_Singleton, FS_AddElement
  <2>2. Deadlines(s, t) \in SUBSET ({s.retry} \union {s.recover})
    BY DEF Deadlines
  <2> QED
    BY <2>1, <2>2, FS_Subset
<1> DEFINE b == Max(Deadlines(s, t))
<1>4. b \in Deadlines(s, t)
  <2>1. Deadlines(s, t) \in SUBSET Int
    BY <1>1 DEF Deadlines, Fields
  <2> QED
    BY <1>2, <1>3, <2>1, MaxExists
<1>5. StateBlockedUntil(s, t) = b
  BY <1>2 DEF StateBlockedUntil
<1> HIDE DEF b
<1>6. b \in {s.retry, s.recover} /\ b > t
  BY <1>4 DEF Deadlines
<1>7. b \in Nat /\ t < b /\ b <= t + LongestWait
  BY <1>1, <1>6 DEF Fields, Sane
<1>8. ASSUME NEW u \in Nat, u < b
      PROVE  StateBlocked(s, u)
  <2>1. b \in Deadlines(s, u)
    BY <1>6, <1>7, <1>8 DEF Deadlines
  <2> QED
    BY <2>1 DEF StateBlocked
<1> QED
  BY <1>5, <1>7, <1>8

\* The same for a model.
LEMMA BlockEnds ==
  ASSUME NEW t \in Nat, NEW ms, NEW a, Good(ms, a, t), NEW m \in Models, Blocked(m, ms, a, t)
  PROVE  LET b == BlockedUntil(m, ms, a, t)
         IN /\ b \in Nat /\ t < b /\ b <= t + LongestWait
            /\ \A u \in Nat : u < b => Blocked(m, ms, a, u)
<1>1. CASE CredentialOpen(a, t)
  <2>1. BlockedUntil(m, ms, a, t) = a.recover
    BY <1>1 DEF BlockedUntil
  <2>2. a.recover \in Nat /\ t < a.recover /\ a.recover <= t + LongestWait
    BY <1>1 DEF Good, AuthStates, Sane, CredentialOpen
  <2>3. \A u \in Nat : u < a.recover => Blocked(m, ms, a, u)
    BY <1>1, <2>2 DEF CredentialOpen, Blocked
  <2> QED
    BY <2>1, <2>2, <2>3
<1>2. CASE ~CredentialOpen(a, t)
  <2> DEFINE s == Decides(m, ms, a)
  <2>1. s \in States \union AuthStates /\ Sane(s, t)
    BY DecidesSane
  <2>2. StateBlocked(s, t) /\ BlockedUntil(m, ms, a, t) = StateBlockedUntil(s, t)
    BY <1>2 DEF Blocked, BlockedUntil
  <2>3. \A u \in Nat : StateBlocked(s, u) => Blocked(m, ms, a, u)
    BY DEF Blocked
  <2> HIDE DEF s
  <2> QED
    BY <2>1, <2>2, <2>3, StateBlockedEnds
<1> QED
  BY <1>1, <1>2

\* What is blocked later is blocked now: time alone blocks nothing.
LEMMA TimeBlocksNothing ==
  ASSUME NEW t \in Nat, NEW u \in Nat, t <= u, NEW ms, NEW a, Good(ms, a, t),
         NEW m \in Models, Blocked(m, ms, a, u)
  PROVE  Blocked(m, ms, a, t)
<1>1. CASE CredentialOpen(a, u)
  <2>1. CredentialOpen(a, t)
    BY <1>1 DEF CredentialOpen, Good, AuthStates
  <2> QED
    BY <2>1 DEF Blocked
<1>2. CASE ~CredentialOpen(a, u)
  <2> DEFINE s == Decides(m, ms, a)
  <2>1. Fields(s)
    BY DecidesSane, StateFields
  <2>2. StateBlocked(s, u)
    BY <1>2 DEF Blocked
  <2> HIDE DEF s
  <2>3. Deadlines(s, u) \subseteq Deadlines(s, t)
    BY <2>1 DEF Deadlines, Fields
  <2>4. StateBlocked(s, t)
    BY <2>2, <2>3 DEF StateBlocked
  <2> QED
    BY <2>4 DEF s, Blocked
<1> QED
  BY <1>1, <1>2

-----------------------------------------------------------------------------
(* The entries of the scheduler *)

\* An entry that is ready is not blocked, and one that is not is blocked until
\* its next time.
Foretold(e, m, ms, a, t) ==
  IF e.ready
  THEN ~Blocked(m, ms, a, t)
  ELSE e.next # 0 /\ \A u \in Nat : t <= u /\ u < e.next => Blocked(m, ms, a, u)

\* So says an entry that has just been evaluated.
LEMMA EntryForetold ==
  ASSUME Present, NEW ms, NEW a, Good(ms, a, now), NEW m \in Models
  PROVE  Entry(m, ms, a) \in Entries /\ Foretold(Entry(m, ms, a), m, ms, a, now)
<1>1. now \in Nat
  BY DEF Present
<1>2. CASE Blocked(m, ms, a, now)
  <2> DEFINE b == BlockedUntil(m, ms, a, now)
  <2>1. /\ b \in Nat /\ now < b
        /\ \A u \in Nat : u < b => Blocked(m, ms, a, u)
    BY <1>1, <1>2, BlockEnds
  <2>2. Entry(m, ms, a) = [ready |-> FALSE, next |-> b]
    BY <1>2 DEF Entry
  <2> HIDE DEF b
  <2>3. b # 0
    BY <1>1, <2>1
  <2> QED
    BY <2>1, <2>2, <2>3 DEF Entries, Foretold
<1>3. CASE ~Blocked(m, ms, a, now)
  BY <1>3 DEF Entry, Ready, Entries, Foretold
<1> QED
  BY <1>2, <1>3

-----------------------------------------------------------------------------
(* The credential as a whole *)

\* A model whose window has passed keeps its quota and is blocked no more than
\* before.
LEMMA SettledModel ==
  ASSUME Present, NEW ms \in Mappings, NEW m \in Known(ms), Sane(ms[m], now)
  PROVE  LET s == Settled(ms)[m]
         IN /\ s \in States /\ Sane(s, now)
            /\ s.recover = ms[m].recover /\ s.level = ms[m].level
            /\ StateBlocked(s, now) => StateBlocked(ms[m], now)
<1>1. ms[m] \in States /\ ms[m] # NoState /\ m \in Models
  BY DEF Mappings, Known
<1>2. CASE Expired(ms[m])
  <2> DEFINE s == Retrying(ms[m], FALSE, 0)
  <2>1. Settled(ms)[m] = s
    BY <1>1, <1>2 DEF Settled, Retrying
  <2>2. /\ Shaped(s, ms[m])
        /\ s.unavailable = FALSE /\ s.retry = 0
        /\ s.exceeded = ms[m].exceeded /\ s.recover = ms[m].recover /\ s.level = ms[m].level
    BY <1>1, RetryFields
  <2> HIDE DEF s
  <2>3. s \in States /\ Sane(s, now)
    BY <1>1, <2>2, LongestWaits DEF Shaped, Sane, Present
  <2>4. StateBlocked(s, now) => StateBlocked(ms[m], now)
    <3> SUFFICES ASSUME StateBlocked(s, now)
                 PROVE  StateBlocked(ms[m], now)
      OBVIOUS
    <3>1. ms[m].exceeded /\ ms[m].recover # 0
      BY <2>2 DEF StateBlocked, Sane
    <3>2. ms[m].recover \in Deadlines(ms[m], now)
      BY <2>2, <3>1 DEF StateBlocked, Deadlines, Present
    <3> QED
      BY <3>1, <3>2 DEF StateBlocked
  <2> QED
    BY <2>1, <2>2, <2>3, <2>4
<1>3. CASE ~Expired(ms[m])
  <2>1. Settled(ms)[m] = ms[m]
    BY <1>1, <1>3 DEF Settled
  <2> QED
    BY <1>1, <2>1
<1> QED
  BY <1>2, <1>3

\* Settling knows the same models as before.
LEMMA SettledMapping ==
  ASSUME Present, NEW ms \in Mappings, \A m \in Known(ms) : Sane(ms[m], now)
  PROVE  /\ Settled(ms) \in Mappings
         /\ Known(Settled(ms)) = Known(ms)
         /\ \A m \in Known(ms) : Sane(Settled(ms)[m], now)
         /\ \A m \in Models \ Known(ms) : Settled(ms)[m] = NoState
<1>1. \A m \in Known(ms) : Settled(ms)[m] \in States /\ Sane(Settled(ms)[m], now)
  BY SettledModel
<1>2. \A m \in Models \ Known(ms) : Settled(ms)[m] = NoState
  BY DEF Settled, Known
<1>3. Settled(ms) \in Mappings
  <2>1. \A m \in Models : Settled(ms)[m] \in States \union {NoState}
    BY <1>1, <1>2
  <2>2. Settled(ms) = [m \in Models |-> Settled(ms)[m]]
    BY DEF Settled
  <2> QED
    BY <2>1, <2>2 DEF Mappings
<1>4. \A m \in Known(ms) : Settled(ms)[m] # NoState
  BY <1>1, SentinelAssumption
<1>5. Known(Settled(ms)) = Known(ms)
  BY <1>2, <1>4 DEF Known
<1> QED
  BY <1>1, <1>2, <1>3, <1>5

\* The credential is available again when the first of its models is.
LEMMA Available ==
  ASSUME Present, NEW ms, NEW a, Good(ms, a, now), Known(ms) # {}
  PROVE  LET b == Availability(ms, a)
         IN /\ b \in AuthStates /\ Sane(b, now)
            /\ b.unavailable => b.retry # 0
            /\ b.exceeded = a.exceeded /\ b.recover = a.recover
            /\ b.level = a.level /\ b.reason = a.reason
<1> DEFINE down == {m \in Known(ms) : ms[m].unavailable /\ ms[m].retry > now}
<1>1. a \in AuthStates /\ Sane(a, now) /\ now \in Nat \ {0}
  BY DEF Good, Present
<1>2. CASE down = Known(ms)
  <2> DEFINE times == {ms[m].retry : m \in down}
             r == Min(times)
  <2>1. \A m \in down : ms[m].retry \in Nat /\ ms[m].retry > now /\ ms[m].retry <= now + LongestWait
    BY DEF Good, Mappings, Known, States, Sane
  <2>2. times # {}
    BY <1>2
  <2>3. Availability(ms, a) = [a EXCEPT !.unavailable = TRUE, !.retry = r]
    BY <1>2 DEF Availability
  <2>4. times \in SUBSET Nat /\ \A x \in times : x > now /\ x <= now + LongestWait
    BY <2>1
  <2> HIDE DEF times
  <2>5. r \in times
    BY <2>2, <2>4, MinExists
  <2>6. r \in Nat /\ r > now /\ r <= now + LongestWait
    BY <2>4, <2>5
  <2> HIDE DEF r
  <2>7. r # 0
    BY <1>1, <2>6
  <2> QED
    BY <1>1, <2>3, <2>6, <2>7 DEF AuthStates, Sane
<1>3. CASE down # Known(ms)
  <2>1. Availability(ms, a) = [a EXCEPT !.unavailable = FALSE, !.retry = 0]
    BY <1>3 DEF Availability
  <2> DEFINE b == [a EXCEPT !.unavailable = FALSE, !.retry = 0]
  <2>2. 0 <= now + LongestWait
    BY <1>1, LongestWaits
  <2>3. b \in AuthStates
    BY <1>1 DEF AuthStates
  <2>4. /\ b.unavailable = FALSE /\ b.retry = 0
        /\ b.exceeded = a.exceeded /\ b.recover = a.recover
        /\ b.level = a.level /\ b.reason = a.reason
    BY <1>1 DEF AuthStates
  <2>5. Availability(ms, a) = b
    BY <2>1
  <2> HIDE DEF b
  <2>6. Sane(b, now)
    BY <1>1, <2>2, <2>4 DEF Sane
  <2> QED
    BY <2>3, <2>4, <2>5, <2>6
<1> QED
  BY <1>2, <1>3

\* The quota of the credential recovers within reach, and a window of its models
\* is not the credential's own.
LEMMA QuotaOfModels ==
  ASSUME Present, NEW ms, NEW a, Good(ms, a, now), a.unavailable => a.retry # 0,
         ~CredentialOpen(a, now)
  PROVE  LET b == QuotaOf(ms, a)
         IN b \in AuthStates /\ Sane(b, now) /\ ~CredentialOpen(b, now)
<1> DEFINE over == {m \in Known(ms) : ms[m].exceeded}
<1>1. a \in AuthStates /\ Sane(a, now) /\ now \in Nat \ {0}
  BY DEF Good, Present
<1>2. CASE over # {}
  <2> DEFINE times == {ms[m].recover : m \in over} \ {0}
             levels == {ms[m].level : m \in over}
             f == [m \in over |-> ms[m].level]
             e == Min(times)
             n == Later(a.recover, e)
             l == Max(levels)
  <2>1. \A m \in over : /\ ms[m].recover \in Nat /\ ms[m].recover # 0
                        /\ ms[m].recover <= now + LongestWait
                        /\ ms[m].level \in Nat
    <3> SUFFICES ASSUME NEW m \in over
                 PROVE  /\ ms[m].recover \in Nat /\ ms[m].recover # 0
                        /\ ms[m].recover <= now + LongestWait
                        /\ ms[m].level \in Nat
      OBVIOUS
    <3>1. ms[m] \in States /\ Sane(ms[m], now) /\ ms[m].exceeded
      BY DEF Good, Mappings, Known
    <3> QED
      BY <3>1 DEF States, Sane
  <2>2. times # {} /\ levels # {}
    <3>1. PICK m \in over : TRUE
      BY <1>2
    <3>2. ms[m].recover \in times /\ ms[m].level \in levels
      BY <2>1
    <3> QED
      BY <3>2
  <2>3. times \in SUBSET Nat /\ \A x \in times : x # 0 /\ x <= now + LongestWait
    BY <2>1
  <2>4. levels \in SUBSET Nat /\ levels \in SUBSET Int
    BY <2>1
  <2>5. IsFiniteSet(levels)
    <3>1. over \in SUBSET Models
      BY DEF Known
    <3> HIDE DEF over
    <3>2. IsFiniteSet(over)
      BY <3>1, FiniteAssumption, FS_Subset
    <3>3. DOMAIN f = over /\ levels = {f[m] : m \in over}
      OBVIOUS
    <3> HIDE DEF f, levels
    <3>4. IsFiniteSet({f[m] : m \in over})
      BY <3>2, <3>3, ImageFinite
    <3> QED
      BY <3>3, <3>4
  <2>6. QuotaOf(ms, a) = [a EXCEPT !.exceeded = TRUE, !.reason = "quota",
                                   !.recover = n, !.level = l]
    BY <1>2, <2>2 DEF QuotaOf, EarliestRecovery
  <2> HIDE DEF times, levels
  <2>7. e \in times /\ l \in levels
    BY <2>2, <2>3, <2>4, <2>5, MinExists, MaxExists
  <2> HIDE DEF e, l
  <2>8. n \in Nat /\ n # 0 /\ n <= now + LongestWait
    BY <1>1, <2>3, <2>7 DEF Later, AuthStates, Sane
  <2>9. l \in Nat
    BY <2>4, <2>7
  <2> HIDE DEF n
  <2>10. QuotaOf(ms, a) \in AuthStates
    BY <1>1, <2>6, <2>8, <2>9 DEF AuthStates, Reasons
  <2>11. Sane(QuotaOf(ms, a), now) /\ ~CredentialOpen(QuotaOf(ms, a), now)
    BY <1>1, <2>6, <2>8 DEF AuthStates, Sane, CredentialOpen
  <2> QED
    BY <2>10, <2>11
<1>3. CASE over = {} /\ a.exceeded /\ a.recover > now
  <2>1. QuotaOf(ms, a) = a
    BY <1>3 DEF QuotaOf
  <2> QED
    BY <1>1, <2>1
<1>4. CASE over = {} /\ ~(a.exceeded /\ a.recover > now)
  <2>1. QuotaOf(ms, a) = [a EXCEPT !.exceeded = FALSE, !.reason = "none", !.recover = 0, !.level = 0]
    BY <1>4 DEF QuotaOf
  <2> DEFINE b == [a EXCEPT !.exceeded = FALSE, !.reason = "none", !.recover = 0, !.level = 0]
  <2>2. 0 <= now + LongestWait
    BY <1>1, LongestWaits
  <2>3. b \in AuthStates
    BY <1>1 DEF AuthStates, Reasons
  <2>4. /\ b.unavailable = a.unavailable /\ b.retry = a.retry
        /\ b.exceeded = FALSE /\ b.recover = 0
    BY <1>1 DEF AuthStates
  <2>5. QuotaOf(ms, a) = b
    BY <2>1
  <2> HIDE DEF b
  <2>6. Sane(b, now) /\ ~CredentialOpen(b, now)
    BY <1>1, <2>2, <2>4 DEF Sane, CredentialOpen
  <2> QED
    BY <2>3, <2>5, <2>6
<1> QED
  BY <1>2, <1>3, <1>4

\* What is left after the credential has been aggregated over its models.  An
\* open credential window stays as it is, and without one a model is blocked by
\* nothing but its own state.
LEMMA AggregatedStates ==
  ASSUME Present, NEW ms, NEW a, Good(ms, a, now), Known(ms) # {}, Aggregated(ms, a)
  PROVE  /\ Good(models', auth', now)
         /\ Upsert(models', auth')
         /\ \A m \in Known(ms) : /\ models'[m].recover = ms[m].recover
                                 /\ models'[m].level = ms[m].level
         /\ CredentialOpen(a, now) => auth'.recover = a.recover /\ auth'.reason = "credential"
         /\ ~CredentialOpen(a, now) =>
              \A m \in Models : Blocked(m, models', auth', now)
                                => m \in Known(ms) /\ StateBlocked(ms[m], now)
<1>1. Upsert(models', auth')
  BY DEF Aggregated
<1>2. ms \in Mappings /\ a \in AuthStates /\ Sane(a, now) /\ \A m \in Known(ms) : Sane(ms[m], now)
  BY DEF Good
<1>3. CASE CredentialOpen(a, now)
  <2>1. models' = ms /\ auth' = [a EXCEPT !.unavailable = TRUE]
    BY <1>3 DEF Aggregated
  <2> DEFINE b == [a EXCEPT !.unavailable = TRUE]
  <2>2. b \in AuthStates
    BY <1>2 DEF AuthStates
  <2>3. /\ b.unavailable = TRUE /\ b.retry = a.retry /\ b.exceeded = a.exceeded
        /\ b.recover = a.recover /\ b.reason = a.reason
    BY <1>2 DEF AuthStates
  <2>4. auth' = b
    BY <2>1
  <2> HIDE DEF b
  <2>5. Sane(b, now)
    BY <1>2, <1>3, <2>3 DEF Sane, CredentialOpen
  <2>6. Good(ms, b, now)
    BY <1>2, <2>2, <2>5 DEF Good
  <2>7. b.reason = "credential"
    BY <1>3, <2>3 DEF CredentialOpen
  <2> QED
    BY <1>1, <1>3, <2>1, <2>3, <2>4, <2>6, <2>7
<1>4. CASE ~CredentialOpen(a, now)
  <2> DEFINE set == Settled(ms)
             b == Availability(ms, a)
             c == QuotaOf(set, b)
  <2>1. models' = set /\ auth' = c
    BY <1>4 DEF Aggregated, Aggregate
  <2>2. /\ set \in Mappings /\ Known(set) = Known(ms)
        /\ \A m \in Known(ms) : Sane(set[m], now)
        /\ \A m \in Models \ Known(ms) : set[m] = NoState
    BY <1>2, SettledMapping
  <2>3. \A m \in Known(ms) : /\ set[m].recover = ms[m].recover /\ set[m].level = ms[m].level
                             /\ StateBlocked(set[m], now) => StateBlocked(ms[m], now)
    BY <1>2, SettledModel
  <2> HIDE DEF set
  <2>4. /\ b \in AuthStates /\ Sane(b, now)
        /\ b.unavailable => b.retry # 0
        /\ b.exceeded = a.exceeded /\ b.recover = a.recover /\ b.reason = a.reason
    BY Available
  <2> HIDE DEF b
  <2>5. ~CredentialOpen(b, now)
    BY <1>4, <2>4 DEF CredentialOpen
  <2>6. Good(set, b, now)
    BY <2>2, <2>4 DEF Good
  <2>7. c \in AuthStates /\ Sane(c, now) /\ ~CredentialOpen(c, now)
    BY <2>4, <2>5, <2>6, QuotaOfModels
  <2> HIDE DEF c
  <2>8. Good(set, c, now)
    BY <2>6, <2>7 DEF Good
  <2>9. ASSUME NEW m \in Models, Blocked(m, set, c, now)
        PROVE  m \in Known(ms) /\ StateBlocked(ms[m], now)
    <3>1. StateBlocked(Decides(m, set, c), now)
      BY <2>7, <2>9 DEF Blocked
    <3>2. now \in Nat /\ ~StateBlocked(Clear, now)
      BY ClearFields DEF Present
    <3>3. set[m] # NoState /\ Decides(m, set, c) = set[m]
      BY <2>2, <3>1, <3>2 DEF Decides
    <3>4. m \in Known(ms)
      BY <2>2, <3>3
    <3> QED
      BY <2>3, <3>1, <3>3, <3>4
  <2>10. Good(models', auth', now)
    BY <2>1, <2>8
  <2>11. \A m \in Known(ms) : models'[m].recover = ms[m].recover /\ models'[m].level = ms[m].level
    BY <2>1, <2>3
  <2>12. ASSUME NEW m \in Models, Blocked(m, models', auth', now)
         PROVE  m \in Known(ms) /\ StateBlocked(ms[m], now)
    <3>1. Blocked(m, set, c, now)
      BY <2>1, <2>12
    <3> QED
      BY <2>9, <3>1
  <2> QED
    BY <1>1, <1>4, <2>10, <2>11, <2>12
<1> QED
  BY <1>3, <1>4

-----------------------------------------------------------------------------
(* What results make of the states *)

Replaced(ms, m, s) == [ms EXCEPT ![m] = s]

\* Another state for one model leaves the others alone.
LEMMA ReplacedGood ==
  ASSUME NEW t, NEW ms, NEW a, Good(ms, a, t), NEW m \in Models, NEW s \in States, Sane(s, t)
  PROVE  LET n == Replaced(ms, m, s)
         IN /\ Good(n, a, t) /\ Known(n) = Known(ms) \union {m}
            /\ n[m] = s /\ \A o \in Models \ {m} : n[o] = ms[o]
<1> DEFINE n == Replaced(ms, m, s)
<1>1. n \in Mappings /\ n[m] = s /\ \A o \in Models \ {m} : n[o] = ms[o]
  BY DEF Good, Mappings, Replaced
<1>2. s # NoState
  BY SentinelAssumption
<1> HIDE DEF n
<1>3. Known(n) = Known(ms) \union {m}
  BY <1>1, <1>2 DEF Known
<1>4. \A o \in Known(n) : Sane(n[o], t)
  BY <1>1, <1>3 DEF Good, Known
<1>5. Good(n, a, t)
  BY <1>1, <1>4 DEF Good
<1> QED
  BY <1>1, <1>3, <1>5 DEF n

\* The state of the failing model, as it was before.
Before(m) == IF models[m] = NoState THEN Clear ELSE models[m]

\* What a failure makes of the state of the model it names.
LEMMA HurtOutcome ==
  ASSUME Present, Good(models, auth, now), NEW m \in Models, NEW f \in Failures
  PROVE  /\ Before(m) \in States
         /\ Hurt(m, f) \in States
         /\ Outcome(Hurt(m, f), Before(m), f)
<1>1. now \in Nat
  BY DEF Present
<1>2. Before(m) \in States /\ Sane(Before(m), now)
  BY <1>1, ClearFields DEF Before, Good, Mappings, Known
<1>3. Hurt(m, f) = Failed(Before(m), f)
  BY DEF Hurt, Before
<1>4. Outcome(Hurt(m, f), Before(m), f)
  BY <1>2, <1>3, FailedOutcome
<1> QED
  BY <1>2, <1>4 DEF Outcome, Shaped

\* A failure of the whole credential: no known model recovers earlier for it.
LEMMA SpreadGood ==
  ASSUME Present, NEW a, Good(models, a, now), NEW m \in Models,
         NEW s \in States, Sane(s, now), s.recover # 0
  PROVE  LET n == Spread(m, s)
         IN /\ Good(n, a, now) /\ Known(n) = Known(models) \union {m}
            /\ n[m] = s
            /\ \A o \in Known(models) \ {m} : n[o].recover >= models[o].recover
<1> DEFINE n == Spread(m, s)
<1>1. s.recover \in Nat /\ s.level \in Nat /\ s.recover <= now + LongestWait
  BY DEF States, Sane
<1>2. s # NoState
  BY SentinelAssumption
<1>3. n[m] = s /\ \A o \in Models \ (Known(models) \union {m}) : n[o] = NoState
  BY DEF Spread, Known
<1>4. ASSUME NEW o \in Known(models) \ {m}
      PROVE  n[o] \in States /\ Sane(n[o], now) /\ n[o].recover >= models[o].recover
  <2> DEFINE p == models[o]
             k == s.level
             l == Later(s.recover, p.recover)
             q == Quota(p, l, k)
  <2>1. o \in Models /\ p \in States /\ Sane(p, now)
    BY DEF Good, Mappings, Known
  <2>2. n[o] = q
    BY <2>1 DEF Spread
  <2> HIDE DEF p, n
  <2>3. p.recover \in Nat /\ p.recover <= now + LongestWait
    BY <2>1 DEF States, Sane
  <2>4. l \in Nat /\ l # 0 /\ l <= now + LongestWait /\ l >= p.recover
    BY <1>1, <2>3 DEF Later
  <2>5. k \in Nat
    BY <1>1
  <2> HIDE DEF k, l
  <2>6. /\ q \in States
        /\ q.unavailable = TRUE /\ q.retry = l /\ q.exceeded = TRUE /\ q.recover = l
    BY <2>1, <2>4, <2>5 DEF Quota, States
  <2> HIDE DEF q
  <2>7. q \in States /\ Sane(q, now) /\ q.recover >= p.recover
    BY <2>4, <2>6 DEF Sane
  <2> QED
    BY <2>2, <2>7 DEF p
<1>5. n \in Mappings
  <2>1. n = [o \in Models |-> n[o]]
    BY DEF Spread
  <2>2. \A o \in Models : n[o] \in States \union {NoState}
    BY <1>3, <1>4
  <2> HIDE DEF n
  <2> QED
    BY <2>1, <2>2 DEF Mappings
<1> HIDE DEF n
<1>6. Known(n) = Known(models) \union {m}
  BY <1>2, <1>3, <1>4, SentinelAssumption DEF Known
<1>7. \A o \in Known(n) : Sane(n[o], now)
  BY <1>3, <1>4, <1>6
<1>8. Good(n, a, now)
  BY <1>5, <1>7 DEF Good
<1> QED
  BY <1>3, <1>4, <1>6, <1>8 DEF n

\* The window of the credential is never cut short.
LEMMA CredentialFailedGood ==
  ASSUME Present, NEW ms, Good(ms, auth, now), NEW s \in States, Sane(s, now), s.recover # 0
  PROVE  LET b == CredentialFailed(s)
         IN /\ Good(ms, b, now)
            /\ b.recover >= auth.recover /\ b.reason = "credential" /\ b.exceeded
<1> DEFINE l == Later(s.recover, auth.recover)
           b == [auth EXCEPT !.unavailable = TRUE, !.exceeded = TRUE, !.reason = "credential",
                             !.recover = l, !.retry = l]
<1>1. /\ auth \in AuthStates /\ auth.recover \in Nat /\ auth.recover <= now + LongestWait
      /\ s.recover \in Nat /\ s.recover <= now + LongestWait
  BY DEF Good, AuthStates, States, Sane
<1>2. l \in Nat /\ l # 0 /\ l <= now + LongestWait /\ l >= auth.recover
  BY <1>1 DEF Later
<1>3. CredentialFailed(s) = b
  BY DEF CredentialFailed
<1> HIDE DEF l
<1>4. b \in AuthStates
  BY <1>1, <1>2 DEF AuthStates, Reasons
<1>5. b.recover = l /\ b.retry = l /\ b.reason = "credential" /\ b.exceeded = TRUE
  BY <1>1 DEF AuthStates
<1> HIDE DEF b
<1>6. Sane(b, now)
  BY <1>2, <1>5 DEF Sane
<1>7. Good(ms, b, now)
  BY <1>4, <1>6 DEF Good
<1> QED
  BY <1>2, <1>3, <1>5, <1>7

-----------------------------------------------------------------------------
(* What the steps make of them *)

\* Every result and every reset leaves good states, and has the scheduler
\* evaluate them at once.
Reevaluated ==
  /\ now' = now
  /\ Good(models', auth', now)
  /\ Upsert(models', auth')

\* A model with a state of its own is blocked by it.
LEMMA OwnStateBlocks ==
  ASSUME NEW ms, NEW a, NEW t, NEW m \in Known(ms), StateBlocked(ms[m], t)
  PROVE  Blocked(m, ms, a, t)
<1>1. Known(ms) # {} /\ ms[m] # NoState
  BY DEF Known
<1>2. Decides(m, ms, a) = ms[m]
  BY <1>1 DEF Decides
<1> QED
  BY <1>2 DEF Blocked

\* A success frees its model, and no other one loses or gains a block.
LEMMA SuccessStates ==
  ASSUME Present, Good(models, auth, now), NEW m \in Models, Success(m)
  PROVE  /\ Reevaluated
         /\ CredentialOpen(auth, now) => auth' = auth
         /\ \A o \in Known(models) \ {m} : /\ models'[o].recover = models[o].recover
                                           /\ models'[o].level = models[o].level
         /\ m \in Known(models) => ~(models'[m].level > models[m].level)
         /\ \A o \in Models : Blocked(o, models', auth', now) => Blocked(o, models, auth, now)
<1>1. now' = now
  BY DEF Success
<1>2. \A o \in Known(models) : models[o].level \in Nat
  BY DEF Good, Mappings, Known, States
<1>3. CASE CredentialOpen(auth, now)
  <2>1. models' = models /\ auth' = auth /\ Upsert(models, auth)
    BY <1>3 DEF Success
  <2>2. Reevaluated
    BY <1>1, <2>1 DEF Reevaluated
  <2> QED
    BY <1>2, <2>1, <2>2
<1>4. CASE ~CredentialOpen(auth, now)
  <2> DEFINE ms == Replaced(models, m, Clear)
  <2>1. Aggregated(ms, auth)
    BY <1>4 DEF Success, Replaced
  <2>2. Clear \in States /\ Sane(Clear, now) /\ ~StateBlocked(Clear, now) /\ Clear.level = 0
    BY ClearFields DEF Present, Clear
  <2>3. /\ Good(ms, auth, now) /\ Known(ms) = Known(models) \union {m}
        /\ ms[m] = Clear /\ \A o \in Models \ {m} : ms[o] = models[o]
    BY <2>2, ReplacedGood
  <2> HIDE DEF ms
  <2>4. /\ Good(models', auth', now)
        /\ Upsert(models', auth')
        /\ \A o \in Known(ms) : /\ models'[o].recover = ms[o].recover
                                /\ models'[o].level = ms[o].level
        /\ \A o \in Models : Blocked(o, models', auth', now)
                             => o \in Known(ms) /\ StateBlocked(ms[o], now)
    BY <1>4, <2>1, <2>3, AggregatedStates
  <2>5. Reevaluated
    BY <1>1, <2>4 DEF Reevaluated
  <2>6. ASSUME NEW o \in Known(models) \ {m}
        PROVE  models'[o].recover = models[o].recover /\ models'[o].level = models[o].level
    BY <2>3, <2>4 DEF Known
  <2>7. m \in Known(models) => ~(models'[m].level > models[m].level)
    BY <1>2, <2>2, <2>3, <2>4
  <2>8. ASSUME NEW o \in Models, Blocked(o, models', auth', now)
        PROVE  Blocked(o, models, auth, now)
    <3>1. o \in Known(ms) /\ StateBlocked(ms[o], now)
      BY <2>4, <2>8
    <3>2. o # m
      BY <2>2, <2>3, <3>1
    <3>3. o \in Known(models) /\ StateBlocked(models[o], now)
      BY <2>3, <3>1, <3>2
    <3> QED
      BY <3>3, OwnStateBlocks
  <2> QED
    BY <1>4, <2>5, <2>6, <2>7, <2>8
<1> QED
  BY <1>3, <1>4

\* A failure of the whole credential.
LEMMA ScopedFailureStates ==
  ASSUME Present, Good(models, auth, now), NEW m \in Models, NEW f \in Failures, Failure(m, f),
         f.scope, f.cooling
  PROVE  /\ Reevaluated
         /\ CredentialOpen(auth, now) => auth'.recover >= auth.recover /\ auth'.reason = "credential"
         /\ \A o \in Known(models) \ {m} : ~(models'[o].recover < models[o].recover)
         /\ models'[m].recover = Hurt(m, f).recover /\ models'[m].level = Hurt(m, f).level
<1> DEFINE s == Hurt(m, f)
           ms == Spread(m, s)
           a == CredentialFailed(s)
<1>1. now' = now /\ Aggregated(ms, a)
  BY DEF Failure
<1>2. s \in States /\ Outcome(s, Before(m), f) /\ f.kind = "quota"
  BY HurtOutcome, FailureFields
<1> HIDE DEF s
<1>3. Sane(s, now) /\ s.recover # 0
  BY <1>2 DEF Outcome
<1>4. /\ Good(ms, auth, now) /\ Known(ms) = Known(models) \union {m}
      /\ ms[m] = s
      /\ \A o \in Known(models) \ {m} : ms[o].recover >= models[o].recover
  BY <1>2, <1>3, SpreadGood
<1> HIDE DEF ms
<1>5. Good(ms, a, now) /\ a.recover >= auth.recover /\ a.reason = "credential" /\ a.exceeded
  BY <1>2, <1>3, <1>4, CredentialFailedGood
<1> HIDE DEF a
<1>6. /\ Good(models', auth', now)
      /\ Upsert(models', auth')
      /\ \A o \in Known(ms) : /\ models'[o].recover = ms[o].recover
                              /\ models'[o].level = ms[o].level
      /\ CredentialOpen(a, now) => auth'.recover = a.recover /\ auth'.reason = "credential"
  BY <1>1, <1>4, <1>5, AggregatedStates
<1>7. Reevaluated
  BY <1>1, <1>6 DEF Reevaluated
<1>8. CredentialOpen(auth, now) => auth'.recover >= auth.recover /\ auth'.reason = "credential"
  <2>1. a.recover \in Nat /\ auth.recover \in Nat /\ now \in Nat
    BY <1>5 DEF Good, AuthStates, Present
  <2>2. CredentialOpen(auth, now) => CredentialOpen(a, now)
    BY <1>5, <2>1 DEF CredentialOpen
  <2> QED
    BY <1>5, <1>6, <2>2
<1>9. ASSUME NEW o \in Known(models) \ {m}
      PROVE  ~(models'[o].recover < models[o].recover)
  <2>1. ms[o] \in States /\ models[o] \in States
    BY <1>4 DEF Good, Mappings, Known
  <2>2. models'[o].recover = ms[o].recover /\ ms[o].recover >= models[o].recover
    BY <1>4, <1>6
  <2> QED
    BY <2>1, <2>2 DEF States
<1>10. models'[m].recover = s.recover /\ models'[m].level = s.level
  BY <1>4, <1>6
<1> QED
  BY <1>7, <1>8, <1>9, <1>10 DEF s

\* A failure of one model.
LEMMA LocalFailureStates ==
  ASSUME Present, Good(models, auth, now), NEW m \in Models, NEW f \in Failures, Failure(m, f),
         ~(f.scope /\ f.cooling)
  PROVE  /\ Reevaluated
         /\ CredentialOpen(auth, now) => auth'.recover >= auth.recover /\ auth'.reason = "credential"
         /\ \A o \in Known(models) \ {m} : /\ models'[o].recover = models[o].recover
                                           /\ models'[o].level = models[o].level
         /\ models'[m].recover = Hurt(m, f).recover /\ models'[m].level = Hurt(m, f).level
         /\ \A o \in Models \ {m} : Blocked(o, models', auth', now) => Blocked(o, models, auth, now)
<1> DEFINE s == Hurt(m, f)
           ms == Replaced(models, m, s)
<1>1. now' = now /\ Aggregated(ms, auth)
  BY DEF Failure, Replaced
<1>2. s \in States /\ Outcome(s, Before(m), f)
  BY HurtOutcome
<1> HIDE DEF s
<1>3. Sane(s, now)
  BY <1>2 DEF Outcome
<1>4. /\ Good(ms, auth, now) /\ Known(ms) = Known(models) \union {m}
      /\ ms[m] = s /\ \A o \in Models \ {m} : ms[o] = models[o]
  BY <1>2, <1>3, ReplacedGood
<1> HIDE DEF ms
<1>5. /\ Good(models', auth', now)
      /\ Upsert(models', auth')
      /\ \A o \in Known(ms) : /\ models'[o].recover = ms[o].recover
                              /\ models'[o].level = ms[o].level
      /\ CredentialOpen(auth, now) => auth'.recover = auth.recover /\ auth'.reason = "credential"
      /\ ~CredentialOpen(auth, now) =>
           \A o \in Models : Blocked(o, models', auth', now)
                             => o \in Known(ms) /\ StateBlocked(ms[o], now)
  BY <1>1, <1>4, AggregatedStates
<1>6. Reevaluated
  BY <1>1, <1>5 DEF Reevaluated
<1>7. CredentialOpen(auth, now) => auth'.recover >= auth.recover /\ auth'.reason = "credential"
  BY <1>5 DEF Good, AuthStates
<1>8. ASSUME NEW o \in Known(models) \ {m}
      PROVE  models'[o].recover = models[o].recover /\ models'[o].level = models[o].level
  BY <1>4, <1>5 DEF Known
<1>9. models'[m].recover = s.recover /\ models'[m].level = s.level
  BY <1>4, <1>5
<1>10. ASSUME NEW o \in Models \ {m}, Blocked(o, models', auth', now)
       PROVE  Blocked(o, models, auth, now)
  <2>1. CASE CredentialOpen(auth, now)
    BY <2>1 DEF Blocked
  <2>2. CASE ~CredentialOpen(auth, now)
    <3>1. o \in Known(ms) /\ StateBlocked(ms[o], now)
      BY <1>5, <1>10, <2>2
    <3>2. o \in Known(models) /\ StateBlocked(models[o], now)
      BY <1>4, <3>1
    <3> QED
      BY <3>2, OwnStateBlocks
  <2> QED
    BY <2>1, <2>2
<1> QED
  BY <1>6, <1>7, <1>8, <1>9, <1>10 DEF s

\* The result of a request that names no model.
LEMMA SuccessWithoutModelStates ==
  ASSUME Present, Good(models, auth, now), SuccessWithoutModel
  PROVE  /\ Reevaluated
         /\ models' = models
         /\ CredentialOpen(auth, now) => auth' = auth
         /\ \A o \in Models : Blocked(o, models', auth', now) => Blocked(o, models, auth, now)
<1>1. /\ ClearAuth \in AuthStates /\ Sane(ClearAuth, now) /\ ~StateBlocked(ClearAuth, now)
      /\ ~CredentialOpen(ClearAuth, now)
  BY ClearFields DEF Present
<1>2. now' = now /\ models' = models /\ Upsert(models, auth')
  BY DEF SuccessWithoutModel
<1>3. CASE CredentialOpen(auth, now)
  <2>1. auth' = auth
    BY <1>3 DEF SuccessWithoutModel
  <2> QED
    BY <1>2, <2>1 DEF Reevaluated
<1>4. CASE ~CredentialOpen(auth, now)
  <2>1. auth' = ClearAuth
    BY <1>4 DEF SuccessWithoutModel
  <2>2. Good(models, ClearAuth, now)
    BY <1>1 DEF Good
  <2>3. Reevaluated
    BY <1>2, <2>1, <2>2 DEF Reevaluated
  <2>4. ASSUME NEW o \in Models, Blocked(o, models, ClearAuth, now)
        PROVE  Blocked(o, models, auth, now)
    <3>1. StateBlocked(Decides(o, models, ClearAuth), now)
      BY <1>1, <2>4 DEF Blocked
    <3>2. Decides(o, models, ClearAuth) = Decides(o, models, auth)
      BY <1>1, <3>1 DEF Decides
    <3> QED
      BY <3>1, <3>2 DEF Blocked
  <2> QED
    BY <1>2, <1>4, <2>1, <2>3, <2>4
<1> QED
  BY <1>3, <1>4

\* A failure that names no model is one of the credential alone.
LEMMA FailureWithoutModelStates ==
  ASSUME Present, Good(models, auth, now), NEW f \in Failures, FailureWithoutModel(f)
  PROVE  Reevaluated /\ models' = models
<1>1. now' = now /\ models' = models /\ Upsert(models, auth')
  BY DEF FailureWithoutModel
<1>2. auth \in AuthStates /\ Sane(auth, now)
  BY DEF Good
<1> DEFINE s == Failed(auth, f)
           r == IF f.kind \in {"quota", "cloudflare"} THEN f.kind ELSE s.reason
           b == [s EXCEPT !.reason = r]
<1>3. s \in AuthStates /\ Sane(s, now)
  BY <1>2, FailedOutcome DEF Outcome, Shaped
<1>4. auth' = [s EXCEPT !.reason = IF f.kind \in {"quota", "cloudflare"} THEN f.kind ELSE s.reason]
  BY DEF FailureWithoutModel
<1> HIDE DEF s
<1>5. r \in Reasons
  BY <1>3 DEF AuthStates, Reasons
<1>6. auth' = b
  BY <1>4
<1> HIDE DEF r
<1>7. b \in AuthStates
  BY <1>3, <1>5 DEF AuthStates
<1>8. /\ b.unavailable = s.unavailable /\ b.retry = s.retry
      /\ b.exceeded = s.exceeded /\ b.recover = s.recover
  BY <1>3 DEF AuthStates
<1> HIDE DEF b
<1>9. Sane(b, now)
  BY <1>3, <1>8 DEF Sane
<1>10. Good(models, b, now)
  BY <1>7, <1>9 DEF Good
<1> QED
  BY <1>1, <1>6, <1>10 DEF Reevaluated

\* After a reset nothing is blocked.
LEMMA ResetStates ==
  ASSUME Present, Good(models, auth, now), ResetQuota
  PROVE  /\ Reevaluated
         /\ \A o \in Models : ~Blocked(o, models', auth', now)
         /\ \A o \in Known(models) : models'[o].level = 0
<1> DEFINE ms == [m \in Models |-> IF models[m] = NoState THEN NoState ELSE Clear]
           a == IF Cooling(auth) THEN ClearAuth ELSE auth
<1>1. /\ Clear \in States /\ Clear # NoState /\ Sane(Clear, now) /\ ~StateBlocked(Clear, now)
      /\ ClearAuth \in AuthStates /\ Sane(ClearAuth, now) /\ ~StateBlocked(ClearAuth, now)
      /\ ~CredentialOpen(ClearAuth, now) /\ Clear.level = 0
  BY ClearFields DEF Present, Clear
<1>2. now' = now
  BY DEF ResetQuota
<1>3. IF Known(ms) # {} THEN Aggregated(ms, a) ELSE models' = ms /\ auth' = a /\ Upsert(ms, a)
  BY DEF ResetQuota
<1>4. /\ ms \in Mappings /\ Known(ms) = Known(models)
      /\ \A o \in Known(models) : ms[o] = Clear
  BY <1>1 DEF Mappings, Known
<1> HIDE DEF ms
<1>5. /\ a \in AuthStates /\ Sane(a, now)
      /\ ~CredentialOpen(a, now) /\ ~StateBlocked(a, now)
  <2>1. CASE Cooling(auth)
    BY <1>1, <2>1
  <2>2. CASE ~Cooling(auth)
    BY <2>2 DEF Cooling, Good, CredentialOpen, StateBlocked
  <2> QED
    BY <2>1, <2>2
<1> HIDE DEF a
<1>6. Good(ms, a, now)
  BY <1>1, <1>4, <1>5 DEF Good
<1>7. CASE Known(ms) # {}
  <2>1. /\ Good(models', auth', now)
        /\ Upsert(models', auth')
        /\ \A o \in Known(ms) : /\ models'[o].recover = ms[o].recover
                                /\ models'[o].level = ms[o].level
        /\ \A o \in Models : Blocked(o, models', auth', now)
                             => o \in Known(ms) /\ StateBlocked(ms[o], now)
    BY <1>3, <1>5, <1>6, <1>7, AggregatedStates
  <2>2. Reevaluated
    BY <1>2, <2>1 DEF Reevaluated
  <2>3. \A o \in Models : ~Blocked(o, models', auth', now)
    BY <1>1, <1>4, <2>1
  <2>4. \A o \in Known(models) : models'[o].level = 0
    BY <1>1, <1>4, <2>1
  <2> QED
    BY <2>2, <2>3, <2>4
<1>8. CASE Known(ms) = {}
  <2>1. models' = ms /\ auth' = a /\ Upsert(ms, a)
    BY <1>3, <1>8
  <2>2. Reevaluated
    BY <1>2, <1>6, <2>1 DEF Reevaluated
  <2>3. \A o \in Models : ~Blocked(o, ms, a, now)
    BY <1>5, <1>8 DEF Blocked, Decides
  <2> QED
    BY <1>4, <1>8, <2>1, <2>2, <2>3
<1> QED
  BY <1>7, <1>8

-----------------------------------------------------------------------------
(* The invariant *)

\* The entries of the scheduler foretell what their models do.
Foreseen ==
  /\ shards \in [Models -> Entries \union {NoShard}]
  /\ \A m \in Models : shards[m] # NoShard => Foretold(shards[m], m, models, auth, now)

Inv ==
  /\ Present
  /\ Good(models, auth, now)
  /\ Foreseen

\* A credential that met no failure yet.
LEMMA InitInv == Init => Inv
<1> SUFFICES ASSUME Init
             PROVE  Inv
  OBVIOUS
<1>1. now = 1 /\ Present
  BY DEF Init, Present
<1>2. Good(models, auth, now)
  <2>1. ClearAuth \in AuthStates /\ Sane(ClearAuth, now)
    BY <1>1, ClearFields
  <2>2. models \in Mappings /\ Known(models) = {}
    BY DEF Init, Mappings, Known
  <2> QED
    BY <2>1, <2>2 DEF Init, Good
<1>3. Foreseen
  BY DEF Init, Foreseen
<1> QED
  BY <1>1, <1>2, <1>3 DEF Inv

\* Once evaluated, every entry foretells what its model does.
LEMMA ReevaluatedInv ==
  ASSUME Inv, Reevaluated
  PROVE  Inv'
<1>1. now' = now /\ Present /\ Good(models', auth', now)
  BY DEF Inv, Reevaluated
<1>2. \A m \in Models : shards[m] = NoShard \/ shards[m] \in Entries
  BY DEF Inv, Foreseen
<1>3. shards' = [m \in Models |-> IF shards[m] = NoShard THEN NoShard ELSE Entry(m, models', auth')]
  BY DEF Reevaluated, Upsert
<1>4. ASSUME NEW m \in Models
      PROVE  /\ Entry(m, models', auth') \in Entries
             /\ Foretold(Entry(m, models', auth'), m, models', auth', now)
  BY <1>1, EntryForetold
<1>5. shards' \in [Models -> Entries \union {NoShard}]
  BY <1>3, <1>4
<1>6. ASSUME NEW m \in Models, shards'[m] # NoShard
      PROVE  Foretold(shards'[m], m, models', auth', now')
  <2>1. shards'[m] = Entry(m, models', auth')
    BY <1>3, <1>6
  <2> QED
    BY <1>1, <1>4, <2>1
<1>7. Present' /\ Good(models', auth', now')
  BY <1>1 DEF Present
<1> QED
  BY <1>5, <1>6, <1>7 DEF Inv, Foreseen

\* A pick evaluates the entry of its model anew or leaves it.
LEMMA PickInv ==
  ASSUME Inv, NEW m \in Models, Pick(m)
  PROVE  Inv'
<1>1. models' = models /\ auth' = auth /\ now' = now
  BY DEF Pick
<1>2. Present /\ Good(models, auth, now) /\ Foreseen
  BY DEF Inv
<1> DEFINE e == IF shards[m] = NoShard THEN Entry(m, models, auth) ELSE Promoted(m)
<1>3. e \in Entries /\ Foretold(e, m, models, auth, now)
  <2>1. /\ Entry(m, models, auth) \in Entries
        /\ Foretold(Entry(m, models, auth), m, models, auth, now)
    BY <1>2, EntryForetold
  <2>2. CASE e = Entry(m, models, auth)
    BY <2>1, <2>2
  <2>3. CASE shards[m] # NoShard /\ e = shards[m]
    BY <1>2, <2>3 DEF Foreseen
  <2> QED
    BY <2>2, <2>3 DEF Promoted
<1>4. shards' = [shards EXCEPT ![m] = e]
  BY DEF Pick
<1> HIDE DEF e
<1>5. shards' \in [Models -> Entries \union {NoShard}]
  BY <1>2, <1>3, <1>4 DEF Foreseen
<1>6. ASSUME NEW n \in Models, shards'[n] # NoShard
      PROVE  Foretold(shards'[n], n, models, auth, now)
  <2>1. CASE n = m
    <3>1. shards'[n] = e
      BY <1>2, <1>4, <2>1 DEF Foreseen
    <3> QED
      BY <1>3, <2>1, <3>1
  <2>2. CASE n # m
    <3>1. shards'[n] = shards[n]
      BY <1>2, <1>4, <2>2 DEF Foreseen
    <3> QED
      BY <1>2, <1>6, <3>1 DEF Foreseen
  <2> QED
    BY <2>1, <2>2
<1>7. ASSUME NEW n \in Models, shards'[n] # NoShard
      PROVE  Foretold(shards'[n], n, models', auth', now')
  BY <1>1, <1>6, <1>7
<1>8. Present' /\ Good(models', auth', now')
  BY <1>1, <1>2 DEF Present
<1> QED
  BY <1>5, <1>7, <1>8 DEF Inv, Foreseen

\* Time brings no deadline farther away and blocks nothing.
LEMMA TickInv ==
  ASSUME Inv, Tick
  PROVE  Inv'
<1>1. models' = models /\ auth' = auth /\ shards' = shards /\ now' = now + 1
  BY DEF Tick
<1>2. now \in Nat \ {0} /\ Good(models, auth, now) /\ Foreseen
  BY DEF Inv, Present
<1>3. LongestWait \in Nat
  BY LongestWaits
<1>4. ASSUME NEW s, Fields(s), Sane(s, now)
      PROVE  Sane(s, now + 1)
  BY <1>2, <1>3, <1>4 DEF Fields, Sane
<1>5. Good(models, auth, now + 1)
  <2>1. Sane(auth, now + 1)
    BY <1>2, <1>4, StateFields DEF Good
  <2>2. ASSUME NEW m \in Known(models)
        PROVE  Sane(models[m], now + 1)
    <3>1. models[m] \in States /\ Sane(models[m], now)
      BY <1>2 DEF Good, Mappings, Known
    <3> QED
      BY <1>4, <3>1, StateFields
  <2> QED
    BY <1>2, <2>1, <2>2 DEF Good
<1>6. ASSUME NEW m \in Models, shards[m] # NoShard
      PROVE  Foretold(shards[m], m, models, auth, now + 1)
  <2>1. Foretold(shards[m], m, models, auth, now) /\ shards[m] \in Entries
    BY <1>2, <1>6 DEF Foreseen
  <2>2. CASE shards[m].ready
    <3>1. now \in Nat /\ now + 1 \in Nat /\ now <= now + 1
      BY <1>2
    <3>2. ~Blocked(m, models, auth, now)
      BY <2>1, <2>2 DEF Foretold
    <3>3. ~Blocked(m, models, auth, now + 1)
      BY <1>2, <3>1, <3>2, TimeBlocksNothing
    <3> QED
      BY <2>2, <3>3 DEF Foretold
  <2>3. CASE ~shards[m].ready
    <3>1. \A u \in Nat : now + 1 <= u => now <= u
      BY <1>2
    <3> QED
      BY <2>1, <2>3, <3>1 DEF Foretold
  <2> QED
    BY <2>2, <2>3
<1>7. now + 1 \in Nat \ {0}
  BY <1>2
<1>8. Present' /\ Good(models', auth', now')
  BY <1>1, <1>5, <1>7 DEF Present
<1>9. ASSUME NEW m \in Models, shards'[m] # NoShard
      PROVE  Foretold(shards'[m], m, models', auth', now')
  BY <1>1, <1>6, <1>9
<1>10. shards' \in [Models -> Entries \union {NoShard}]
  BY <1>1, <1>2 DEF Foreseen
<1> QED
  BY <1>8, <1>9, <1>10 DEF Inv, Foreseen

\* Every other step is a result or a reset.
LEMMA ResultsReevaluate ==
  ASSUME Inv,
         \/ \E m \in Models : Success(m) \/ \E f \in Failures : Failure(m, f)
         \/ SuccessWithoutModel
         \/ \E f \in Failures : FailureWithoutModel(f)
         \/ Skipped
         \/ ResetQuota
  PROVE  Reevaluated
<1>1. Present /\ Good(models, auth, now)
  BY DEF Inv
<1>2. ASSUME NEW m \in Models, Success(m)
      PROVE  Reevaluated
  BY <1>1, <1>2, SuccessStates
<1>3. ASSUME NEW m \in Models, NEW f \in Failures, Failure(m, f)
      PROVE  Reevaluated
  BY <1>1, <1>3, ScopedFailureStates, LocalFailureStates
<1>4. CASE SuccessWithoutModel
  BY <1>1, <1>4, SuccessWithoutModelStates
<1>5. ASSUME NEW f \in Failures, FailureWithoutModel(f)
      PROVE  Reevaluated
  BY <1>1, <1>5, FailureWithoutModelStates
<1>6. CASE Skipped
  BY <1>1, <1>6 DEF Skipped, Reevaluated
<1>7. CASE ResetQuota
  BY <1>1, <1>7, ResetStates
<1> QED
  BY <1>2, <1>3, <1>4, <1>5, <1>6, <1>7

\* Every step keeps the invariant.
LEMMA NextInv == Inv /\ [Next]_vars => Inv'
<1> SUFFICES ASSUME Inv, [Next]_vars
             PROVE  Inv'
  OBVIOUS
<1>1. ASSUME NEW m \in Models, Pick(m)
      PROVE  Inv'
  BY <1>1, PickInv
<1>2. CASE Tick
  BY <1>2, TickInv
<1>3. ASSUME \/ \E m \in Models : Success(m) \/ \E f \in Failures : Failure(m, f)
             \/ SuccessWithoutModel
             \/ \E f \in Failures : FailureWithoutModel(f)
             \/ Skipped
             \/ ResetQuota
      PROVE  Inv'
  BY <1>3, ResultsReevaluate, ReevaluatedInv
<1>4. CASE UNCHANGED vars
  BY <1>4 DEF vars, Inv, Present, Foreseen
<1> QED
  BY <1>1, <1>2, <1>3, <1>4 DEF Next

-----------------------------------------------------------------------------
(* What a step may do *)

\* The steps that change no state of a model or of the credential.
Idle ==
  \/ \E m \in Models : Pick(m)
  \/ Skipped
  \/ Tick
  \/ UNCHANGED vars

\* These steps move the clock and the entries only.
LEMMA IdleStates ==
  ASSUME Idle
  PROVE  models' = models /\ auth' = auth /\ (now' = now \/ now' = now + 1)
BY DEF Idle, Pick, Skipped, Tick, vars

\* The other steps are results and resets.
LEMMA StepKinds ==
  ASSUME [Next]_vars
  PROVE  \/ Idle
         \/ \E m \in Models : Success(m)
         \/ \E m \in Models, f \in Failures : Failure(m, f)
         \/ SuccessWithoutModel
         \/ \E f \in Failures : FailureWithoutModel(f)
         \/ ResetQuota
BY DEF Next, Idle

\* What may cut the window of the credential short.
LEMMA CredentialWindowStep ==
  ASSUME Inv, [Next]_vars, CredentialOpen(auth, now),
         auth'.recover < auth.recover \/ auth'.reason # "credential"
  PROVE  ResetQuota \/ \E f \in Failures : FailureWithoutModel(f)
<1>1. Present /\ Good(models, auth, now) /\ auth.recover \in Nat /\ auth.reason = "credential"
  BY DEF Inv, Good, AuthStates, CredentialOpen
<1>2. ASSUME auth' = auth
      PROVE  FALSE
  BY <1>1, <1>2
<1>3. CASE Idle
  BY <1>2, <1>3, IdleStates
<1>4. ASSUME NEW m \in Models, Success(m)
      PROVE  FALSE
  BY <1>1, <1>2, <1>4, SuccessStates
<1>5. ASSUME NEW m \in Models, NEW f \in Failures, Failure(m, f)
      PROVE  FALSE
  <2>1. auth'.recover >= auth.recover /\ auth'.reason = "credential" /\ Reevaluated
    BY <1>1, <1>5, ScopedFailureStates, LocalFailureStates
  <2>2. auth'.recover \in Nat
    BY <2>1 DEF Reevaluated, Good, AuthStates
  <2> QED
    BY <1>1, <2>1, <2>2
<1>6. CASE SuccessWithoutModel
  BY <1>1, <1>2, <1>6, SuccessWithoutModelStates
<1> QED
  BY <1>3, <1>4, <1>5, <1>6, StepKinds

\* What may cut a model's quota window short.
LEMMA QuotaWindowStep ==
  ASSUME Inv, [Next]_vars, NEW m \in Models, models[m] # NoState, models[m].recover > now,
         models'[m].recover < models[m].recover
  PROVE  \/ Success(m) \/ ResetQuota
         \/ \E f \in Failures : (f.kind = "cloudflare" \/ ~f.cooling) /\ Failure(m, f)
<1>1. Present /\ Good(models, auth, now) /\ m \in Known(models) /\ models[m].recover \in Nat
  BY DEF Inv, Good, Mappings, Known, States
<1>2. ASSUME models' = models
      PROVE  FALSE
  BY <1>1, <1>2
<1>3. CASE Idle
  BY <1>2, <1>3, IdleStates
<1>4. ASSUME NEW n \in Models, Success(n), n # m
      PROVE  FALSE
  <2>1. models'[m].recover = models[m].recover
    BY <1>1, <1>4, SuccessStates
  <2> QED
    BY <1>1, <2>1
<1>5. ASSUME NEW n \in Models, NEW f \in Failures, Failure(n, f)
      PROVE  n = m /\ (f.kind = "cloudflare" \/ ~f.cooling)
  <2>1. /\ Hurt(n, f) \in States
        /\ Outcome(Hurt(n, f), Before(n), f)
    BY <1>1, HurtOutcome
  <2>2. n = m => Before(n) = models[m]
    BY DEF Before
  <2>3. models'[n].recover = Hurt(n, f).recover
    BY <1>1, <1>5, ScopedFailureStates, LocalFailureStates
  <2>4. CASE n # m
    <3>1. CASE f.scope /\ f.cooling
      <4>1. ~(models'[m].recover < models[m].recover)
        BY <1>1, <1>5, <2>4, <3>1, ScopedFailureStates
      <4> QED
        BY <4>1
    <3>2. CASE ~(f.scope /\ f.cooling)
      <4>1. models'[m].recover = models[m].recover
        BY <1>1, <1>5, <2>4, <3>2, LocalFailureStates
      <4> QED
        BY <1>1, <4>1
    <3> QED
      BY <3>1, <3>2
  <2>5. CASE n = m
    <3>1. Hurt(n, f).recover \in Nat
      BY <2>1 DEF States
    <3>2. f.cooling /\ f.kind # "cloudflare" => Hurt(n, f).recover >= models[m].recover
      BY <2>1, <2>2, <2>5 DEF Outcome
    <3> QED
      BY <1>1, <2>3, <2>5, <3>1, <3>2
  <2> QED
    BY <2>4, <2>5
<1>6. CASE SuccessWithoutModel
  BY <1>1, <1>2, <1>6, SuccessWithoutModelStates
<1>7. ASSUME NEW f \in Failures, FailureWithoutModel(f)
      PROVE  FALSE
  BY <1>1, <1>2, <1>7, FailureWithoutModelStates
<1> QED
  BY <1>3, <1>4, <1>5, <1>6, <1>7, StepKinds

\* What may climb the ladder inside a window.
LEMMA BackoffStep ==
  ASSUME Inv, [Next]_vars, NEW m \in Models, models[m] # NoState, models[m].recover > now,
         models'[m].level > models[m].level
  PROVE  \/ \E f \in Failures : f.kind = "cloudflare" /\ Failure(m, f)
         \/ \E n \in Models \ {m}, f \in Failures : f.scope /\ Failure(n, f)
<1>1. Present /\ Good(models, auth, now) /\ m \in Known(models) /\ models[m].level \in Nat
  BY DEF Inv, Good, Mappings, Known, States
<1>2. ASSUME models'[m].level = models[m].level
      PROVE  FALSE
  BY <1>1, <1>2
<1>3. CASE Idle
  BY <1>2, <1>3, IdleStates
<1>4. ASSUME NEW n \in Models, Success(n)
      PROVE  FALSE
  <2>1. CASE n = m
    BY <1>1, <1>4, <2>1, SuccessStates
  <2>2. CASE n # m
    BY <1>1, <1>2, <1>4, <2>2, SuccessStates
  <2> QED
    BY <2>1, <2>2
<1>5. ASSUME NEW n \in Models, NEW f \in Failures, Failure(n, f)
      PROVE  IF n = m THEN f.kind = "cloudflare" ELSE f.scope
  <2>1. CASE n = m
    <3>1. Outcome(Hurt(m, f), models[m], f)
      BY <1>1, HurtOutcome DEF Before
    <3>2. models'[m].level = Hurt(m, f).level
      BY <1>1, <1>5, <2>1, ScopedFailureStates, LocalFailureStates
    <3>3. f.kind # "cloudflare" => Hurt(m, f).level = models[m].level
      BY <3>1 DEF Outcome
    <3> QED
      BY <1>2, <2>1, <3>2, <3>3
  <2>2. CASE n # m /\ ~f.scope
    BY <1>1, <1>2, <1>5, <2>2, LocalFailureStates
  <2> QED
    BY <2>1, <2>2
<1>6. CASE SuccessWithoutModel
  BY <1>1, <1>2, <1>6, SuccessWithoutModelStates
<1>7. ASSUME NEW f \in Failures, FailureWithoutModel(f)
      PROVE  FALSE
  BY <1>1, <1>2, <1>7, FailureWithoutModelStates
<1>8. CASE ResetQuota
  <2>1. models'[m].level = 0
    BY <1>1, <1>8, ResetStates
  <2> QED
    BY <1>1, <2>1
<1> QED
  BY <1>3, <1>4, <1>5, <1>6, <1>7, <1>8, StepKinds

\* What may block a model.
LEMMA BlockStep ==
  ASSUME Inv, [Next]_vars, NEW m \in Models,
         ~Blocked(m, models, auth, now), Blocked(m, models', auth', now')
  PROVE  \/ \E f \in Failures : Failure(m, f) \/ FailureWithoutModel(f)
         \/ \E n \in Models, f \in Failures : f.scope /\ Failure(n, f)
<1>1. Present /\ Good(models, auth, now) /\ now \in Nat
  BY DEF Inv, Present
<1>2. ASSUME now' = now, Blocked(m, models', auth', now) => Blocked(m, models, auth, now)
      PROVE  FALSE
  BY <1>2
<1>3. CASE Idle
  <2>1. models' = models /\ auth' = auth /\ (now' = now \/ now' = now + 1)
    BY <1>3, IdleStates
  <2>2. now' \in Nat /\ now <= now'
    BY <1>1, <2>1
  <2>3. Blocked(m, models, auth, now')
    BY <2>1
  <2> QED
    BY <1>1, <2>2, <2>3, TimeBlocksNothing
<1>4. ASSUME NEW n \in Models, Success(n)
      PROVE  FALSE
  BY <1>1, <1>2, <1>4, SuccessStates DEF Reevaluated
<1>5. ASSUME NEW n \in Models, NEW f \in Failures, Failure(n, f), n # m, ~f.scope
      PROVE  FALSE
  BY <1>1, <1>2, <1>5, LocalFailureStates DEF Reevaluated
<1>6. CASE SuccessWithoutModel
  BY <1>1, <1>2, <1>6, SuccessWithoutModelStates DEF Reevaluated
<1>7. CASE ResetQuota
  BY <1>1, <1>2, <1>7, ResetStates DEF Reevaluated
<1> QED
  BY <1>3, <1>4, <1>5, <1>6, <1>7, StepKinds

-----------------------------------------------------------------------------
(* Theorems *)

\* The invariant holds of every behaviour.
THEOREM CooldownInvariance == Spec => []Inv
BY InitInv, NextInv, PTL DEF Spec

\* Times, flags, levels and entries keep their shape.
THEOREM CooldownTypeCorrect ==
  Spec => [](/\ models \in Mappings /\ auth \in AuthStates
             /\ shards \in [Models -> Entries \union {NoShard}] /\ now \in Nat)
<1>1. Inv => /\ models \in Mappings /\ auth \in AuthStates
             /\ shards \in [Models -> Entries \union {NoShard}] /\ now \in Nat
  BY DEF Inv, Present, Good, Foreseen
<1> QED
  BY <1>1, CooldownInvariance, PTL

\* Whatever failures a model and its credential met, the model is tried again within the
\* longest cooldown.
THEOREM BlocksEnd == Spec => []EveryBlockEnds
<1>1. Inv => EveryBlockEnds
  <2> SUFFICES ASSUME Inv, NEW m \in Models, Blocked(m, models, auth, now)
               PROVE  BlockedUntil(m, models, auth, now) \in (now + 1)..(now + LongestWait)
    BY DEF EveryBlockEnds
  <2> DEFINE b == BlockedUntil(m, models, auth, now)
  <2>1. now \in Nat /\ Good(models, auth, now)
    BY DEF Inv, Present
  <2>2. b \in Nat /\ now < b /\ b <= now + LongestWait
    BY <2>1, BlockEnds
  <2> HIDE DEF b
  <2>3. b \in (now + 1)..(now + LongestWait)
    BY <2>1, <2>2, LongestWaits
  <2> QED
    BY <2>3 DEF b
<1> QED
  BY <1>1, CooldownInvariance, PTL

\* The scheduler never has an entry ready that the selector blocks, and never holds one
\* back that the selector lets through.
THEOREM SchedulerFollows == Spec => []SchedulerAgrees
<1>1. Inv => SchedulerAgrees
  <2> SUFFICES ASSUME Inv, NEW m \in Models, shards[m] # NoShard
               PROVE  IF Blocked(m, models, auth, now)
                      THEN ~shards[m].ready
                      ELSE shards[m].ready \/ (shards[m].next # 0 /\ shards[m].next <= now)
    BY DEF SchedulerAgrees
  <2>1. now \in Nat /\ shards[m] \in Entries /\ Foretold(shards[m], m, models, auth, now)
    BY DEF Inv, Present, Foreseen
  <2>2. shards[m].next \in Nat
    BY <2>1 DEF Entries
  <2> QED
    BY <2>1, <2>2 DEF Foretold
<1> QED
  BY <1>1, CooldownInvariance, PTL

\* No late outcome shortens or ends a window over the whole credential, except for failures
\* that name no model and the operator's reset.
THEOREM CredentialWindowIsKept == Spec => CredentialWindowHolds
<1>1. Inv /\ [Next]_vars =>
        (CredentialOpen(auth, now) /\ (auth'.recover < auth.recover \/ auth'.reason # "credential")
         => ResetQuota \/ \E f \in Failures : FailureWithoutModel(f))
  BY CredentialWindowStep
<1> QED
  BY <1>1, CooldownInvariance, PTL DEF Spec, CredentialWindowHolds

\* No sibling of a model, and no failure of its own that cooling applies to, cuts its open
\* quota window short.
THEOREM QuotaWindowsAreKept == Spec => QuotaWindowsHold
<1>1. Inv /\ [Next]_vars =>
        \A m \in Models :
          models[m] # NoState /\ models[m].recover > now /\ models'[m].recover < models[m].recover
          => \/ Success(m) \/ ResetQuota
             \/ \E f \in Failures : (f.kind = "cloudflare" \/ ~f.cooling) /\ Failure(m, f)
  BY QuotaWindowStep
<1> QED
  BY <1>1, CooldownInvariance, PTL DEF Spec, QuotaWindowsHold

\* However many failures fall into one window, the ladder is climbed only outside of it.
THEOREM BackoffIsOncePerWindow == Spec => BackoffOncePerWindow
<1>1. Inv /\ [Next]_vars =>
        \A m \in Models :
          models[m] # NoState /\ models[m].recover > now /\ models'[m].level > models[m].level
          => \/ \E f \in Failures : f.kind = "cloudflare" /\ Failure(m, f)
             \/ \E n \in Models \ {m}, f \in Failures : f.scope /\ Failure(n, f)
  BY BackoffStep
<1> QED
  BY <1>1, CooldownInvariance, PTL DEF Spec, BackoffOncePerWindow

\* Nothing but a failure blocks a model, and no failure of another model does unless it is
\* the credential's.
THEOREM FailuresAreLocal == Spec => FailuresStayLocal
<1>1. Inv /\ [Next]_vars =>
        \A m \in Models :
          ~Blocked(m, models, auth, now) /\ Blocked(m, models', auth', now')
          => \/ \E f \in Failures : FailureWithoutModel(f) \/ Failure(m, f)
             \/ \E n \in Models, f \in Failures : f.scope /\ Failure(n, f)
  BY BlockStep
<1> QED
  BY <1>1, CooldownInvariance, PTL DEF Spec, FailuresStayLocal
=============================================================================
