------------------------ MODULE RegistryProjectionProofs ------------------------
(***************************************************************************)
(* Theorems about RegistryProjection and the ModelRegistry it is built on, *)
(* for any number of clients, models, providers and workers, any offers,   *)
(* and any number of results, updates and passes.                          *)
(*                                                                         *)
(* The first part is about one registration: what its counters are worth   *)
(* as a recount of the clients' lists, and that the operations of the      *)
(* registry keep that worth.  The second part is about goroutines that     *)
(* hold copies: what a copy still says of the credential, who is about to  *)
(* show the latest state, and who is about to repair a registration.  The  *)
(* theorems at the end read the safety properties off the invariant.       *)
(***************************************************************************)
EXTENDS RegistryProjection, FiniteSetTheorems, FunctionTheorems, TLAPS

-----------------------------------------------------------------------------
(* Counting copies: f[c] copies of a model in the list of client c.        *)

Counts == [Clients -> Nat]

Listed(f) == UNION {{c} \X (1..f[c]) : c \in Clients}

Total(f) == Cardinality(Listed(f))

\* What is listed is a finite set: finitely many clients with finite lists.
LEMMA ListedFinite ==
  ASSUME NEW f \in Counts
  PROVE  IsFiniteSet(Listed(f)) /\ Total(f) \in Nat
<1> DEFINE S == {{c} \X (1..f[c]) : c \in Clients}
<1> DEFINE list == [c \in Clients |-> {c} \X (1..f[c])]
<1>1. list \in Surjection(Clients, S)
  <2>1. list \in [Clients -> S]
    OBVIOUS
  <2>2. \A T \in S : \E c \in Clients : list[c] = T
    OBVIOUS
  <2> HIDE DEF list, S
  <2> QED
    BY <2>1, <2>2, Fun_IsSurj
<1>2. IsFiniteSet(S)
  BY <1>1, ClientsAssumption, FS_Surjection
<1>3. ASSUME NEW T \in S
      PROVE  IsFiniteSet(T)
  <2>1. PICK c \in Clients : T = {c} \X (1..f[c])
    OBVIOUS
  <2>2. f[c] \in Nat
    BY DEF Counts
  <2>3. IsFiniteSet({c})
    BY FS_Singleton
  <2>4. 1 \in Int /\ f[c] \in Int
    BY <2>2
  <2>5. IsFiniteSet(1..f[c])
    BY <2>4, FS_Interval
  <2> QED
    BY <2>1, <2>3, <2>5, FS_Product
<1>4. IsFiniteSet(UNION S)
  BY <1>2, <1>3, FS_UNION
<1> QED
  BY <1>4, FS_CardinalityType DEF Listed, Total

\* A client contributes its own copies and nothing else.
LEMMA TotalSplit ==
  ASSUME NEW f \in Counts, NEW c \in Clients
  PROVE  /\ [f EXCEPT ![c] = 0] \in Counts
         /\ Total(f) = Total([f EXCEPT ![c] = 0]) + f[c]
<1> DEFINE others == [f EXCEPT ![c] = 0]
           own == {c} \X (1..f[c])
<1>1. others \in Counts /\ f[c] \in Nat
  BY DEF Counts
<1>2. \A d \in Clients : others[d] = IF d = c THEN 0 ELSE f[d]
  BY DEF Counts
<1>3. Listed(f) = Listed(others) \cup own
  <2>1. 1..0 = {}
    OBVIOUS
  <2>2. ASSUME NEW x \in Listed(f)
        PROVE  x \in Listed(others) \cup own
    <3>1. PICK d \in Clients : x \in {d} \X (1..f[d])
      BY <2>2 DEF Listed
    <3>2. CASE d = c
      BY <3>1, <3>2
    <3>3. CASE d # c
      BY <3>1, <3>3, <1>2 DEF Listed
    <3> QED
      BY <3>2, <3>3
  <2>3. ASSUME NEW x \in Listed(others)
        PROVE  x \in Listed(f)
    <3>1. PICK d \in Clients : x \in {d} \X (1..others[d])
      BY <2>3 DEF Listed
    <3>2. d # c
      BY <3>1, <2>1, <1>2
    <3> QED
      BY <3>1, <3>2, <1>2 DEF Listed
  <2>4. own \subseteq Listed(f)
    BY DEF Listed
  <2> QED
    BY <2>2, <2>3, <2>4
<1>4. Listed(others) \cap own = {}
  <2> SUFFICES ASSUME NEW x \in Listed(others), x \in own
               PROVE  FALSE
    OBVIOUS
  <2>1. PICK d \in Clients : x \in {d} \X (1..others[d])
    BY DEF Listed
  <2>2. d = c
    BY <2>1
  <2>3. 1..0 = {}
    OBVIOUS
  <2> QED
    BY <2>1, <2>2, <2>3, <1>2
<1>5. IsFiniteSet(own) /\ Cardinality(own) = f[c]
  <2>1. IsFiniteSet({c}) /\ Cardinality({c}) = 1
    BY FS_Singleton
  <2> DEFINE places == 1..f[c]
  <2>2. IsFiniteSet(places) /\ Cardinality(places) = f[c]
    <3>1. 1 \in Int /\ f[c] \in Int
      BY <1>1
    <3>2. IsFiniteSet(1..f[c]) /\ Cardinality(1..f[c]) = IF 1 > f[c] THEN 0 ELSE f[c] - 1 + 1
      BY <3>1, FS_Interval
    <3> QED
      BY <3>2, <1>1
  <2> HIDE DEF places
  <2>3. /\ IsFiniteSet({c} \X places)
        /\ Cardinality({c} \X places) = Cardinality({c}) * Cardinality(places)
    BY <2>1, <2>2, FS_Product
  <2>4. Cardinality({c} \X places) = f[c]
    BY <2>1, <2>2, <2>3, <1>1
  <2> QED
    BY <2>3, <2>4 DEF places
<1>6. IsFiniteSet(Listed(others)) /\ Total(others) \in Nat
  BY <1>1, ListedFinite
<1> HIDE DEF others, own
<1>7. Cardinality(Listed(f)) = Cardinality(Listed(others)) + Cardinality(own)
                                 - Cardinality(Listed(others) \cap own)
  BY <1>3, <1>5, <1>6, FS_Union
<1>8. Cardinality(Listed(others) \cap own) = 0
  BY <1>4, FS_EmptySet
<1>9. Total(f) = Total(others) + f[c]
  BY <1>1, <1>5, <1>6, <1>7, <1>8 DEF Total
<1> QED
  BY <1>1, <1>9 DEF others

\* Only one client's list changed: the total changes by as much.
LEMMA TotalChange ==
  ASSUME NEW f \in Counts, NEW c \in Clients, NEW l \in Nat
  PROVE  /\ [f EXCEPT ![c] = l] \in Counts
         /\ Total([f EXCEPT ![c] = l]) = Total(f) - f[c] + l
         /\ f[c] <= Total(f)
<1> DEFINE g == [f EXCEPT ![c] = l]
<1>1. g \in Counts /\ g[c] = l /\ f[c] \in Nat
  BY DEF Counts
<1>2. [g EXCEPT ![c] = 0] = [f EXCEPT ![c] = 0]
  BY DEF Counts
<1>3. Total(f) = Total([f EXCEPT ![c] = 0]) + f[c] /\ [f EXCEPT ![c] = 0] \in Counts
  BY TotalSplit
<1>4. Total(g) = Total([g EXCEPT ![c] = 0]) + g[c]
  BY <1>1, TotalSplit
<1>5. Total([f EXCEPT ![c] = 0]) \in Nat
  BY <1>3, ListedFinite
<1> QED
  BY <1>1, <1>2, <1>3, <1>4, <1>5

\* Nobody else lists the model exactly if the total is the client's own.
LEMMA TotalAlone ==
  ASSUME NEW f \in Counts, NEW c \in Clients
  PROVE  Total(f) = f[c] <=> \A d \in Clients \ {c} : f[d] = 0
<1> DEFINE others == [f EXCEPT ![c] = 0]
<1>1. others \in Counts /\ Total(f) = Total(others) + f[c] /\ f[c] \in Nat
  BY TotalSplit DEF Counts
<1>2. IsFiniteSet(Listed(others)) /\ Total(others) \in Nat
  BY <1>1, ListedFinite
<1>3. Total(others) = 0 <=> Listed(others) = {}
  BY <1>2, FS_EmptySet DEF Total
<1>4. \A d \in Clients : others[d] = IF d = c THEN 0 ELSE f[d]
  BY DEF Counts
<1>5. Listed(others) = {} <=> \A d \in Clients : others[d] = 0
  <2>1. ASSUME NEW d \in Clients, others[d] # 0
        PROVE  <<d, 1>> \in Listed(others)
    <3>1. others[d] \in Nat \ {0}
      BY <1>1, <2>1 DEF Counts
    <3>2. 1 \in 1..others[d]
      BY <3>1
    <3> QED
      BY <3>2 DEF Listed
  <2>2. ASSUME \A d \in Clients : others[d] = 0, NEW x \in Listed(others)
        PROVE  FALSE
    <3>1. PICK d \in Clients : x \in {d} \X (1..others[d])
      BY <2>2 DEF Listed
    <3>2. 1..0 = {}
      OBVIOUS
    <3> QED
      BY <3>1, <3>2, <2>2
  <2> QED
    BY <2>1, <2>2
<1> HIDE DEF others
<1>6. Total(f) = Total(others) + f[c] /\ Total(others) \in Nat /\ f[c] \in Nat
  BY <1>1, <1>2
<1>7. Total(f) = f[c] <=> Total(others) = 0
  <2>1. ASSUME NEW t, NEW a \in Nat, NEW b \in Nat, t = a + b
        PROVE  t = b <=> a = 0
    BY <2>1
  <2> QED
    BY <1>6, <2>1, Zenon
<1>8. (\A d \in Clients : others[d] = 0) <=> \A d \in Clients \ {c} : f[d] = 0
  BY <1>4
<1>9. Total(f) = f[c] <=> Listed(others) = {}
  BY <1>3, <1>7
<1>10. Total(f) = f[c] <=> \A d \in Clients : others[d] = 0
  BY <1>5, <1>9
<1> QED
  BY <1>8, <1>10

-----------------------------------------------------------------------------
(* One registration.                                                       *)

Registrations == [count : Nat, providers : [Providers -> Nat],
                  marks : [Clients -> Kinds \cup {"open", "other"}]]

Homes == [Clients -> Providers \cup {NoProvider}]

\* The copies of clients whose provider is p.
Via(f, home, p) == [c \in Clients |-> IF home[c] = p THEN f[c] ELSE 0]

\* The registration r counts what the clients list, f[c] copies of client c at home[c].
Exact(r, f, home) ==
    /\ r.count = Total(f)
    /\ \A p \in Providers : r.providers[p] = Total(Via(f, home, p))
    /\ \A c \in Clients : r.marks[c] # "open" => f[c] > 0

\* What an exact registration has of one client's k copies at p.
Holding(r, c, p, k) ==
    /\ k > 0 => p \in Providers
    /\ k <= r.count
    /\ \A x \in Providers : x = p => k <= r.providers[x]
    /\ r.count = k =>
         /\ \A x \in Providers : r.providers[x] = IF x = p THEN k ELSE 0
         /\ \A d \in Clients \ {c} : r.marks[d] = "open"
    /\ k = 0 => r.marks[c] = "open"

\* The k copies of c at p made way for l copies at q, and nothing else changed.
Replaced(r2, r, c, p, k, q, l) ==
    /\ r2 \in Registrations
    /\ r2.count = r.count - k + l
    /\ \A x \in Providers :
         r2.providers[x] = r.providers[x] - (IF x = p THEN k ELSE 0) + (IF x = q THEN l ELSE 0)
    /\ \A d \in Clients \ {c} : r2.marks[d] = r.marks[d]
    /\ l = 0 => r2.marks[c] = "open"

\* A registration nobody has copies of is exactly an absent one.
LEMMA AbsentExact ==
  ASSUME NEW f \in Counts, NEW home \in Homes, \A c \in Clients : f[c] = 0
  PROVE  Exact(Absent, f, home) /\ Absent \in Registrations
<1>1. ASSUME NEW g \in Counts, \A c \in Clients : g[c] = 0
      PROVE  Total(g) = 0
  <2>1. 1..0 = {}
    OBVIOUS
  <2>2. Listed(g) = {}
    BY <1>1, <2>1 DEF Listed
  <2> QED
    BY <2>2, FS_EmptySet DEF Total
<1>2. Total(f) = 0
  BY <1>1
<1>3. \A p \in Providers : Total(Via(f, home, p)) = 0
  <2> TAKE p \in Providers
  <2>1. Via(f, home, p) \in Counts /\ \A c \in Clients : Via(f, home, p)[c] = 0
    BY DEF Via, Counts
  <2> QED
    BY <1>1, <2>1
<1> QED
  BY <1>2, <1>3 DEF Exact, Absent, Registrations

\* An exact registration holds every client's copies at the client's home.
LEMMA ExactHolds ==
  ASSUME NEW f \in Counts, NEW home \in Homes, NEW r \in Registrations, Exact(r, f, home),
         NEW c \in Clients, f[c] > 0 => home[c] \in Providers
  PROVE  Holding(r, c, home[c], f[c])
<1>1. f[c] \in Nat /\ r.count \in Nat /\ r.count = Total(f)
  BY DEF Counts, Registrations, Exact
<1>2. f[c] <= r.count
  BY <1>1, TotalChange
<1>3. ASSUME NEW x \in Providers
      PROVE  /\ Via(f, home, x) \in Counts
             /\ r.providers[x] = Total(Via(f, home, x))
             /\ \A d \in Clients : Via(f, home, x)[d] = IF home[d] = x THEN f[d] ELSE 0
  BY DEF Via, Counts, Exact
<1>4. ASSUME NEW x \in Providers, x = home[c]
      PROVE  f[c] <= r.providers[x]
  <2>1. Via(f, home, x)[c] <= Total(Via(f, home, x))
    BY <1>3, TotalChange
  <2> QED
    BY <2>1, <1>3, <1>4
<1>5. ASSUME r.count = f[c]
      PROVE  /\ \A x \in Providers : r.providers[x] = IF x = home[c] THEN f[c] ELSE 0
             /\ \A d \in Clients \ {c} : r.marks[d] = "open"
  <2>1. \A d \in Clients \ {c} : f[d] = 0
    BY <1>1, <1>5, TotalAlone
  <2>2. ASSUME NEW x \in Providers
        PROVE  r.providers[x] = IF x = home[c] THEN f[c] ELSE 0
    <3>1. \A d \in Clients \ {c} : Via(f, home, x)[d] = 0
      BY <2>1, <1>3
    <3>2. Total(Via(f, home, x)) = Via(f, home, x)[c]
      BY <3>1, <1>3, TotalAlone
    <3> QED
      BY <3>2, <1>3
  <2>3. \A d \in Clients \ {c} : r.marks[d] = "open"
    BY <2>1 DEF Exact
  <2> QED
    BY <2>2, <2>3
<1>6. f[c] = 0 => r.marks[c] = "open"
  BY DEF Exact
<1> QED
  BY <1>2, <1>4, <1>5, <1>6 DEF Holding

\* A replacement keeps a registration exact.
LEMMA ReplacedExact ==
  ASSUME NEW f \in Counts, NEW home \in Homes, NEW r \in Registrations, Exact(r, f, home),
         NEW c \in Clients, NEW q \in Providers \cup {NoProvider}, NEW l \in Nat,
         NEW r2, Replaced(r2, r, c, home[c], f[c], q, l)
  PROVE  Exact(r2, [f EXCEPT ![c] = l], [home EXCEPT ![c] = q])
<1> DEFINE g == [f EXCEPT ![c] = l]
           there == [home EXCEPT ![c] = q]
<1>1. g \in Counts /\ Total(g) = Total(f) - f[c] + l
  BY TotalChange
<1>2. \A d \in Clients : /\ g[d] = IF d = c THEN l ELSE f[d]
                         /\ there[d] = IF d = c THEN q ELSE home[d]
  BY DEF Counts, Homes
<1>3. r2.count = Total(g)
  BY <1>1 DEF Exact, Replaced
<1>4. ASSUME NEW p \in Providers
      PROVE  r2.providers[p] = Total(Via(g, there, p))
  <2> DEFINE before == Via(f, home, p)
             now == IF q = p THEN l ELSE 0
  <2>1. before \in Counts /\ before[c] = IF home[c] = p THEN f[c] ELSE 0
    BY DEF Via, Counts
  <2>2. Via(g, there, p) = [before EXCEPT ![c] = now]
    BY <1>2 DEF Via
  <2>3. Total([before EXCEPT ![c] = now]) = Total(before) - before[c] + now
    BY <2>1, TotalChange
  <2>4. r.providers[p] = Total(before)
    BY DEF Exact
  <2>5. r2.providers[p] = r.providers[p] - (IF p = home[c] THEN f[c] ELSE 0)
                            + (IF p = q THEN l ELSE 0)
    BY DEF Replaced
  <2> HIDE DEF before
  <2>6. r2.providers[p] = Total(before) - before[c] + now
    BY <2>1, <2>4, <2>5
  <2> QED
    BY <2>2, <2>3, <2>6 DEF before
<1>5. ASSUME NEW d \in Clients, r2.marks[d] # "open"
      PROVE  g[d] > 0
  <2>1. CASE d = c
    BY <1>5, <2>1, <1>2 DEF Replaced
  <2>2. CASE d # c
    BY <1>5, <2>2, <1>2 DEF Replaced, Exact
  <2> QED
    BY <2>1, <2>2
<1> QED
  BY <1>3, <1>4, <1>5 DEF Exact

\* Copies of a client that had none are added.
LEMMA AddedReplaced ==
  ASSUME NEW r \in Registrations, NEW c \in Clients, NEW p, NEW q \in Providers, NEW l \in Nat,
         Holding(r, c, p, 0)
  PROVE  Replaced(Added(r, q, l), r, c, p, 0, q, l)
<1> DEFINE r2 == Added(r, q, l)
<1>1. /\ r2 = [r EXCEPT !.count = r.count + l, !.providers[q] = r.providers[q] + l]
      /\ r.count \in Nat /\ r.providers \in [Providers -> Nat]
      /\ r.marks \in [Clients -> Kinds \cup {"open", "other"}]
  BY DEF Added, Registrations
<1>2. /\ r2.count = r.count + l
      /\ r2.providers = [r.providers EXCEPT ![q] = r.providers[q] + l]
      /\ r2.marks = r.marks
      /\ r2 = [count |-> r2.count, providers |-> r2.providers, marks |-> r2.marks]
  BY <1>1 DEF Registrations
<1> HIDE DEF r2
<1>3. \A x \in Providers : r2.providers[x] = r.providers[x] - (IF x = p THEN 0 ELSE 0)
                                                            + (IF x = q THEN l ELSE 0)
  BY <1>1, <1>2
<1>4. l = 0 => r2.marks[c] = "open"
  BY <1>2 DEF Holding
<1>5. r2 \in Registrations
  BY <1>1, <1>2 DEF Registrations
<1> QED
  BY <1>1, <1>2, <1>3, <1>4, <1>5 DEF Replaced, r2

\* An absent registration is what is left when the last copies go.
LEMMA AbsentFields ==
  /\ Absent \in Registrations
  /\ Absent.count = 0
  /\ \A x \in Providers : Absent.providers[x] = 0
  /\ \A d \in Clients : Absent.marks[d] = "open"
  BY DEF Absent, Registrations

\* Taking n of a client's copies away, when no other copies are left once n are all there are.
LEMMA RemovedFields ==
  ASSUME NEW r \in Registrations, NEW c \in Clients, NEW p, NEW n \in Nat,
         n > 0 => p \in Providers /\ n <= r.providers[p],
         n > 0 /\ r.count <= n => Holding(r, c, p, n)
  PROVE  LET r2 == Removed(r, c, p, n)
         IN  /\ r2 \in Registrations
             /\ r2.count = r.count - n
             /\ \A x \in Providers :
                  r2.providers[x] = r.providers[x] - (IF x = p THEN n ELSE 0)
             /\ \A d \in Clients \ {c} : r2.marks[d] = r.marks[d]
             /\ r2.marks[c] = IF n = 0 THEN r.marks[c] ELSE "open"
<1> DEFINE r2 == Removed(r, c, p, n)
<1>1. /\ r.count \in Nat /\ r.providers \in [Providers -> Nat]
      /\ r.marks \in [Clients -> Kinds \cup {"open", "other"}]
  BY DEF Registrations
<1>2. CASE n = 0
  <2>1. r2 = r
    BY <1>2 DEF Removed
  <2> QED
    BY <2>1, <1>1, <1>2
<1>3. CASE n > 0 /\ r.count <= n
  <2>1. r2 = Absent
    BY <1>3 DEF Removed
  <2>2. /\ r.count = n
        /\ \A x \in Providers : r.providers[x] = IF x = p THEN n ELSE 0
        /\ \A d \in Clients \ {c} : r.marks[d] = "open"
    BY <1>1, <1>3 DEF Holding
  <2> QED
    BY <2>1, <2>2, <1>3, AbsentFields
<1>4. CASE n > 0 /\ ~(r.count <= n)
  <2>1. r2 = [r EXCEPT !.count = r.count - n,
                       !.providers[p] = Less(r.providers[p], n), !.marks[c] = "open"]
    BY <1>4 DEF Removed
  <2>2. Less(r.providers[p], n) = r.providers[p] - n /\ r.providers[p] - n \in Nat
    BY <1>1, <1>4 DEF Less
  <2>3. /\ r2.count = r.count - n
        /\ r2.providers = [r.providers EXCEPT ![p] = r.providers[p] - n]
        /\ r2.marks = [r.marks EXCEPT ![c] = "open"]
        /\ r2 = [count |-> r2.count, providers |-> r2.providers, marks |-> r2.marks]
    BY <2>1, <2>2 DEF Registrations
  <2>4. r2 \in Registrations
    BY <2>2, <2>3, <1>1, <1>4 DEF Registrations
  <2> HIDE DEF r2
  <2> QED
    BY <2>2, <2>3, <2>4, <1>1, <1>4 DEF r2
<1> QED
  BY <1>1, <1>2, <1>3, <1>4

\* All copies of a client go.
LEMMA RemovedReplaced ==
  ASSUME NEW r \in Registrations, NEW c \in Clients, NEW p, NEW q, NEW k \in Nat,
         Holding(r, c, p, k)
  PROVE  Replaced(Removed(r, c, p, k), r, c, p, k, q, 0)
<1> DEFINE r2 == Removed(r, c, p, k)
<1>1. k > 0 => p \in Providers /\ k <= r.providers[p]
  BY DEF Holding
<1>2. /\ r2 \in Registrations
      /\ r2.count = r.count - k
      /\ \A x \in Providers :
           r2.providers[x] = r.providers[x] - (IF x = p THEN k ELSE 0)
      /\ \A d \in Clients \ {c} : r2.marks[d] = r.marks[d]
      /\ r2.marks[c] = IF k = 0 THEN r.marks[c] ELSE "open"
  BY <1>1, RemovedFields
<1>3. r.count \in Nat /\ r.providers \in [Providers -> Nat]
  BY DEF Registrations
<1>4. r2.marks[c] = "open"
  BY <1>2 DEF Holding
<1> HIDE DEF r2
<1> QED
  BY <1>2, <1>3, <1>4 DEF Replaced, r2

\* A list is exchanged for another one, copies on both sides changing their provider.
LEMMA ReconciledReplaced ==
  ASSUME NEW r \in Registrations, NEW c \in Clients, NEW p \in Providers, NEW k \in Nat,
         NEW q \in Providers, NEW l \in Nat, Holding(r, c, p, k)
  PROVE  Replaced(Reconciled(r, c, p, k, q, l), r, c, p, k, q, l)
<1> DEFINE moved == IF p = q THEN 0 ELSE Min({k, l})
           left == [r EXCEPT !.providers[p] = Less(@, moved)]
           fewer == Less(k, l)
           more == Less(l, k)
           removed == Removed(left, c, p, fewer)
           kept == Added(removed, q, more)
           r2 == Reconciled(r, c, p, k, q, l)
<1>1. /\ r.count \in Nat /\ r.providers \in [Providers -> Nat]
      /\ r.marks \in [Clients -> Kinds \cup {"open", "other"}]
      /\ k <= r.count /\ k <= r.providers[p]
  BY DEF Registrations, Holding
<1>2. Min({k, l}) = IF k <= l THEN k ELSE l
  BY DEF Min
<1>3. /\ moved = IF p = q THEN 0 ELSE IF k <= l THEN k ELSE l
      /\ fewer = IF k <= l THEN 0 ELSE k - l
      /\ more = IF l <= k THEN 0 ELSE l - k
  BY <1>2 DEF Less
<1> HIDE DEF moved
<1>4. moved \in Nat /\ fewer \in Nat /\ more \in Nat /\ moved + fewer <= k
  BY <1>3
<1>5. Less(r.providers[p], moved) = r.providers[p] - moved /\ r.providers[p] - moved \in Nat
  BY <1>1, <1>4 DEF Less
<1> HIDE DEF fewer, more
<1>6. /\ left.count = r.count
      /\ left.providers = [r.providers EXCEPT ![p] = r.providers[p] - moved]
      /\ left.marks = r.marks
      /\ left \in Registrations
  BY <1>1, <1>5 DEF Registrations
<1> HIDE DEF left
<1>7. fewer > 0 => p \in Providers /\ fewer <= left.providers[p]
  BY <1>1, <1>4, <1>6
<1>8. fewer > 0 /\ left.count <= fewer => Holding(left, c, p, fewer)
  <2> SUFFICES ASSUME fewer > 0, left.count <= fewer
               PROVE  Holding(left, c, p, fewer)
    OBVIOUS
  <2>1. l = 0 /\ fewer = k /\ r.count = k /\ moved = 0
    BY <1>1, <1>3, <1>6
  <2>2. left.providers = r.providers
    BY <2>1, <1>1, <1>6
  <2> QED
    BY <2>1, <2>2, <1>6 DEF Holding
<1>9. /\ removed \in Registrations
      /\ removed.count = left.count - fewer
      /\ \A x \in Providers :
           removed.providers[x] = left.providers[x] - (IF x = p THEN fewer ELSE 0)
      /\ \A d \in Clients \ {c} : removed.marks[d] = left.marks[d]
      /\ removed.marks[c] = IF fewer = 0 THEN left.marks[c] ELSE "open"
  <2>1. left \in Registrations /\ fewer \in Nat
    BY <1>4, <1>6
  <2> QED
    BY <2>1, <1>7, <1>8, RemovedFields
<1> HIDE DEF removed
<1>10. /\ removed.count \in Nat /\ removed.providers \in [Providers -> Nat]
       /\ removed.marks \in [Clients -> Kinds \cup {"open", "other"}]
       /\ removed = [count |-> removed.count, providers |-> removed.providers,
                     marks |-> removed.marks]
  BY <1>9 DEF Registrations
<1>11. /\ kept.count = r.count - fewer + more
       /\ kept.providers = [removed.providers EXCEPT ![q] = removed.providers[q] + more]
       /\ kept.marks = removed.marks
       /\ kept = [count |-> kept.count, providers |-> kept.providers, marks |-> kept.marks]
       /\ kept.count \in Nat /\ kept.providers \in [Providers -> Nat]
  <2>1. kept = [removed EXCEPT !.count = removed.count + more,
                               !.providers[q] = removed.providers[q] + more]
    BY DEF Added
  <2> HIDE DEF kept
  <2>2. /\ kept.count = removed.count + more
        /\ kept.providers = [removed.providers EXCEPT ![q] = removed.providers[q] + more]
        /\ kept.marks = removed.marks
        /\ kept = [count |-> kept.count, providers |-> kept.providers, marks |-> kept.marks]
    BY <2>1, <1>10
  <2>3. removed.count + more \in Nat /\ removed.count = r.count - fewer
    BY <1>4, <1>6, <1>9, <1>10
  <2>4. removed.providers[q] + more \in Nat
    BY <1>4, <1>10
  <2>5. [removed.providers EXCEPT ![q] = removed.providers[q] + more] \in [Providers -> Nat]
    BY <2>4, <1>10
  <2> QED
    BY <2>2, <2>3, <2>5
<1>12. r2 = IF l = 0 THEN kept
            ELSE [kept EXCEPT !.providers[q] = kept.providers[q] + moved, !.marks[c] = "open"]
  BY DEF Reconciled, kept, removed, left, moved, fewer, more
<1> HIDE DEF kept, r2
<1>13. r.count - fewer + more = r.count - k + l
  BY <1>1, <1>3
<1>14. \A x \in Providers : kept.providers[x] =
         r.providers[x] - (IF x = p THEN moved + fewer ELSE 0) + (IF x = q THEN more ELSE 0)
  BY <1>1, <1>4, <1>6, <1>9, <1>10, <1>11
<1>15. CASE l = 0
  <2>1. moved = 0 /\ fewer = k /\ more = 0 /\ r2 = kept
    BY <1>3, <1>12, <1>15
  <2>2. r2.marks[c] = "open"
    BY <2>1, <1>6, <1>9, <1>11 DEF Holding
  <2>3. r2 \in Registrations
    BY <2>1, <1>10, <1>11 DEF Registrations
  <2>4. \A x \in Providers : r2.providers[x] =
          r.providers[x] - (IF x = p THEN k ELSE 0) + (IF x = q THEN l ELSE 0)
    BY <2>1, <1>1, <1>14, <1>15
  <2> QED
    BY <2>1, <2>2, <2>3, <2>4, <1>6, <1>9, <1>11, <1>13, <1>15 DEF Replaced, r2
<1>16. CASE l # 0
  <2>1. /\ r2.count = kept.count
        /\ r2.providers = [kept.providers EXCEPT ![q] = kept.providers[q] + moved]
        /\ r2.marks = [kept.marks EXCEPT ![c] = "open"]
        /\ r2 = [count |-> r2.count, providers |-> r2.providers, marks |-> r2.marks]
    BY <1>11, <1>12, <1>16
  <2>2. \A x \in Providers : r2.providers[x] =
          r.providers[x] - (IF x = p THEN moved + fewer ELSE 0)
                         + (IF x = q THEN more + moved ELSE 0)
    BY <2>1, <1>1, <1>4, <1>11, <1>14
  <2>3. \A x \in Providers : r2.providers[x] =
          r.providers[x] - (IF x = p THEN k ELSE 0) + (IF x = q THEN l ELSE 0)
    <3>1. CASE p = q
      BY <3>1, <2>2, <1>1, <1>3
    <3>2. CASE p # q
      BY <3>2, <2>2, <1>1, <1>3
    <3> QED
      BY <3>1, <3>2
  <2>4. \A d \in Clients \ {c} : r2.marks[d] = r.marks[d]
    BY <2>1, <1>6, <1>9, <1>10, <1>11
  <2>5. kept.providers[q] + moved \in Nat
    BY <1>4, <1>11
  <2>6. r2.providers \in [Providers -> Nat]
    BY <2>1, <2>5, <1>11
  <2>7. r2.marks \in [Clients -> Kinds \cup {"open", "other"}]
    BY <2>1, <1>10, <1>11
  <2>8. r2 \in Registrations
    BY <2>1, <2>6, <2>7, <1>11 DEF Registrations
  <2> QED
    BY <2>1, <2>3, <2>4, <2>8, <1>11, <1>13, <1>16 DEF Replaced, r2
<1> QED
  BY <1>15, <1>16

-----------------------------------------------------------------------------
(* The registry: types, and the recount.                                   *)

RegistryTypes ==
    /\ models \in [Models -> Registrations]
    /\ clients \in [Clients -> [provider : Providers \cup {NoProvider}, copies : [Models -> Nat],
                                epoch : Nat, generation : Nat]]
    /\ \A c \in Clients : IsRegistered(c) => clients[c].provider \in Providers

CopiesOf(m) == [c \in Clients |-> clients[c].copies[m]]

HomeOf == [c \in Clients |-> clients[c].provider]

Recounted == \A m \in Models : Exact(models[m], CopiesOf(m), HomeOf)

Listing == availableModels # NoList => availableModels = {m \in Models : Available(models[m])}

\* Registrations that count exactly what is listed are what BookkeepingExact asks for.
LEMMA RecountedIsExact ==
  ASSUME RegistryTypes, Recounted, Listing
  PROVE  BookkeepingExact
<1> SUFFICES ASSUME NEW m \in Models
             PROVE  /\ models[m].count = Cardinality(Copies(m, Clients))
                    /\ \A p \in Providers :
                         models[m].providers[p] =
                           Cardinality(Copies(m, {c \in Clients : clients[c].provider = p}))
                    /\ \A c \in Clients : models[m].marks[c] # "open" => m \in Offered(c)
  BY DEF BookkeepingExact, Listing
<1>1. Exact(models[m], CopiesOf(m), HomeOf)
  BY DEF Recounted
<1>2. Copies(m, Clients) = Listed(CopiesOf(m))
  BY DEF Copies, Listed, CopiesOf
<1>3. ASSUME NEW p \in Providers
      PROVE  Copies(m, {c \in Clients : clients[c].provider = p})
               = Listed(Via(CopiesOf(m), HomeOf, p))
  <2> DEFINE via == Via(CopiesOf(m), HomeOf, p)
             there == {c \in Clients : clients[c].provider = p}
  <2>1. \A c \in Clients : via[c] = IF clients[c].provider = p THEN clients[c].copies[m] ELSE 0
    BY DEF Via, CopiesOf, HomeOf
  <2>2. ASSUME NEW x \in Copies(m, there)
        PROVE  x \in Listed(via)
    <3>1. PICK c \in there : x \in {c} \X (1..clients[c].copies[m])
      BY DEF Copies
    <3> HIDE DEF via
    <3> QED
      BY <3>1, <2>1 DEF Listed
  <2>3. ASSUME NEW x \in Listed(via)
        PROVE  x \in Copies(m, there)
    <3>1. PICK c \in Clients : x \in {c} \X (1..via[c])
      BY DEF Listed
    <3>2. 1..0 = {}
      OBVIOUS
    <3> HIDE DEF via
    <3>3. clients[c].provider = p /\ via[c] = clients[c].copies[m]
      BY <3>1, <3>2, <2>1
    <3> QED
      BY <3>1, <3>3 DEF Copies
  <2> QED
    BY <2>2, <2>3
<1>4. \A c \in Clients : CopiesOf(m)[c] > 0 => m \in Offered(c)
  BY DEF CopiesOf, Offered
<1> QED
  BY <1>1, <1>2, <1>3, <1>4 DEF Exact, Total

\* Client c's list is exchanged for copies of models at q, in the registrations as well.
Relisted(c, q, copies) ==
    /\ models' \in [Models -> Registrations]
    /\ \A m \in Models : Replaced(models'[m], models[m], c, clients[c].provider,
                                  clients[c].copies[m], q, copies[m])
    /\ clients' \in [Clients -> [provider : Providers \cup {NoProvider}, copies : [Models -> Nat],
                                 epoch : Nat, generation : Nat]]
    /\ clients'[c].provider = q /\ clients'[c].copies = copies
    /\ clients'[c].epoch = clients[c].epoch + 1
    /\ \A d \in Clients \ {c} : clients'[d] = clients[d]
    /\ availableModels' = NoList

\* What a client's copies are worth in a recounted registration.
LEMMA ClientHolds ==
  ASSUME RegistryTypes, Recounted, NEW c \in Clients, NEW m \in Models
  PROVE  /\ models[m] \in Registrations
         /\ clients[c].copies[m] \in Nat
         /\ Holding(models[m], c, clients[c].provider, clients[c].copies[m])
<1>1. models[m] \in Registrations /\ clients[c].copies \in [Models -> Nat]
  BY DEF RegistryTypes
<1>2. CopiesOf(m) \in Counts /\ HomeOf \in Homes
  BY DEF RegistryTypes, CopiesOf, HomeOf, Counts, Homes
<1>3. CopiesOf(m)[c] = clients[c].copies[m] /\ HomeOf[c] = clients[c].provider
  BY DEF CopiesOf, HomeOf
<1>4. clients[c].copies[m] > 0 => clients[c].provider \in Providers
  <2>1. clients[c].copies[m] > 0 => clients[c].copies # Nothing
    BY DEF Nothing
  <2> QED
    BY <2>1 DEF RegistryTypes, IsRegistered
<1>5. Exact(models[m], CopiesOf(m), HomeOf)
  BY DEF Recounted
<1> QED
  BY <1>1, <1>2, <1>3, <1>4, <1>5, ExactHolds

\* Registering a client exchanges its list for the offer.
LEMMA RegisterRelists ==
  ASSUME RegistryTypes, Recounted, NEW c \in Clients, NEW offer \in Offers \cup OtherOffers,
         RegisterClient(c, offer)
  PROVE  /\ Relisted(c, offer.provider, offer.copies)
         /\ clients'[c].generation = 0
         /\ offer.provider \in Providers /\ offer.copies # Nothing
<1> DEFINE old == clients[c]
<1>1. offer.provider \in Providers /\ offer.copies \in [Models -> Nat] /\ offer.copies # Nothing
  BY OffersAssumption
<1>2. old.epoch \in Nat /\ old.provider \in Providers \cup {NoProvider}
  BY DEF RegistryTypes
<1>3. /\ clients' = [clients EXCEPT
            ![c] = [provider |-> offer.provider, copies |-> offer.copies,
                    epoch |-> old.epoch + 1, generation |-> 0]]
      /\ availableModels' = NoList
  BY DEF RegisterClient
<1>4. ASSUME NEW m \in Models
      PROVE  Replaced(models'[m], models[m], c, old.provider, old.copies[m],
                      offer.provider, offer.copies[m])
  <2>1. /\ models[m] \in Registrations /\ old.copies[m] \in Nat
        /\ Holding(models[m], c, old.provider, old.copies[m])
    BY ClientHolds
  <2>2. offer.copies[m] \in Nat
    BY <1>1
  <2>3. CASE IsRegistered(c)
    <3>1. models'[m] = Reconciled(models[m], c, old.provider, old.copies[m],
                                  offer.provider, offer.copies[m])
      BY <2>3 DEF RegisterClient
    <3>2. old.provider \in Providers
      BY <2>3 DEF RegistryTypes
    <3> QED
      BY <3>1, <3>2, <2>1, <2>2, <1>1, ReconciledReplaced
  <2>4. CASE ~IsRegistered(c)
    <3>1. models'[m] = Added(models[m], offer.provider, offer.copies[m])
      BY <2>4 DEF RegisterClient
    <3>2. old.copies[m] = 0
      BY <2>4 DEF IsRegistered, Nothing
    <3> QED
      BY <3>1, <3>2, <2>1, <2>2, <1>1, AddedReplaced
  <2> QED
    BY <2>3, <2>4
<1>5. models' \in [Models -> Registrations]
  <2>1. \A m \in Models : models'[m] \in Registrations
    BY <1>4 DEF Replaced
  <2>2. models' = [m \in Models |-> models'[m]]
    BY DEF RegisterClient
  <2> QED
    BY <2>1, <2>2
<1>6. clients' \in [Clients -> [provider : Providers \cup {NoProvider}, copies : [Models -> Nat],
                                epoch : Nat, generation : Nat]]
  BY <1>1, <1>2, <1>3 DEF RegistryTypes
<1>7. /\ clients'[c] = [provider |-> offer.provider, copies |-> offer.copies,
                        epoch |-> old.epoch + 1, generation |-> 0]
      /\ \A d \in Clients \ {c} : clients'[d] = clients[d]
  BY <1>3 DEF RegistryTypes
<1> QED
  BY <1>1, <1>3, <1>4, <1>5, <1>6, <1>7 DEF Relisted

\* Unregistering a client exchanges its list for an empty one.
LEMMA UnregisterRelists ==
  ASSUME RegistryTypes, Recounted, NEW c \in Clients, UnregisterClient(c)
  PROVE  Relisted(c, NoProvider, Nothing)
<1> DEFINE old == clients[c]
<1>1. Nothing \in [Models -> Nat] /\ \A m \in Models : Nothing[m] = 0
  BY DEF Nothing
<1>2. old.epoch \in Nat /\ old.generation \in Nat
  BY DEF RegistryTypes
<1>3. /\ clients' = [clients EXCEPT
            ![c] = [provider |-> NoProvider, copies |-> Nothing,
                    epoch |-> old.epoch + 1, generation |-> old.generation + 1]]
      /\ availableModels' = NoList
  <2>1. ASSUME NEW e, NEW g
        PROVE  [Unknown EXCEPT !.epoch = e, !.generation = g]
                 = [provider |-> NoProvider, copies |-> Nothing, epoch |-> e, generation |-> g]
    <3> DEFINE u == [provider |-> NoProvider, copies |-> Nothing, epoch |-> e, generation |-> 0]
    <3>1. [Unknown EXCEPT !.epoch = e] = u
      BY DEF Unknown
    <3>2. [u EXCEPT !.generation = g]
            = [provider |-> NoProvider, copies |-> Nothing, epoch |-> e, generation |-> g]
      OBVIOUS
    <3> HIDE DEF u
    <3>3. [Unknown EXCEPT !.epoch = e, !.generation = g]
            = [[Unknown EXCEPT !.epoch = e] EXCEPT !.generation = g]
      OBVIOUS
    <3> QED
      BY <3>1, <3>2, <3>3
  <2> QED
    BY <2>1 DEF UnregisterClient
<1>4. ASSUME NEW m \in Models
      PROVE  Replaced(models'[m], models[m], c, old.provider, old.copies[m],
                      NoProvider, Nothing[m])
  <2>1. /\ models[m] \in Registrations /\ old.copies[m] \in Nat
        /\ Holding(models[m], c, old.provider, old.copies[m])
    BY ClientHolds
  <2>2. models'[m] = Removed(models[m], c, old.provider, old.copies[m])
    BY DEF UnregisterClient
  <2> QED
    BY <2>1, <2>2, <1>1, RemovedReplaced
<1>5. models' \in [Models -> Registrations]
  <2>1. \A m \in Models : models'[m] \in Registrations
    BY <1>4 DEF Replaced
  <2>2. models' = [m \in Models |-> models'[m]]
    BY DEF UnregisterClient
  <2> QED
    BY <2>1, <2>2
<1>6. clients' \in [Clients -> [provider : Providers \cup {NoProvider}, copies : [Models -> Nat],
                                epoch : Nat, generation : Nat]]
  BY <1>1, <1>2, <1>3 DEF RegistryTypes
<1>7. /\ clients'[c] = [provider |-> NoProvider, copies |-> Nothing,
                        epoch |-> old.epoch + 1, generation |-> old.generation + 1]
      /\ \A d \in Clients \ {c} : clients'[d] = clients[d]
  BY <1>3 DEF RegistryTypes
<1> QED
  BY <1>1, <1>3, <1>4, <1>5, <1>6, <1>7 DEF Relisted

\* After the exchange everything is counted again.
LEMMA RelistedRecounts ==
  ASSUME RegistryTypes, Recounted, NEW c \in Clients, NEW q \in Providers \cup {NoProvider},
         NEW copies \in [Models -> Nat], copies # Nothing => q \in Providers,
         Relisted(c, q, copies)
  PROVE  RegistryTypes' /\ Recounted' /\ Listing'
<1>1. RegistryTypes'
  <2> SUFFICES ASSUME NEW d \in Clients, IsRegistered(d)'
               PROVE  clients'[d].provider \in Providers
    BY DEF Relisted, RegistryTypes
  <2>1. CASE d = c
    BY <2>1 DEF Relisted, IsRegistered, Nothing
  <2>2. CASE d # c
    BY <2>2 DEF Relisted, IsRegistered, RegistryTypes, Nothing
  <2> QED
    BY <2>1, <2>2
<1>2. HomeOf' = [HomeOf EXCEPT ![c] = q]
  BY DEF HomeOf, Relisted
<1>3. ASSUME NEW m \in Models
      PROVE  Exact(models'[m], CopiesOf(m)', HomeOf')
  <2>1. CopiesOf(m)' = [CopiesOf(m) EXCEPT ![c] = copies[m]]
    BY DEF CopiesOf, Relisted
  <2>2. CopiesOf(m) \in Counts /\ HomeOf \in Homes
    BY DEF RegistryTypes, CopiesOf, HomeOf, Counts, Homes
  <2>3. CopiesOf(m)[c] = clients[c].copies[m] /\ HomeOf[c] = clients[c].provider
    BY DEF CopiesOf, HomeOf
  <2>4. Replaced(models'[m], models[m], c, HomeOf[c], CopiesOf(m)[c], q, copies[m])
    BY <2>3 DEF Relisted
  <2>5. Exact(models[m], CopiesOf(m), HomeOf) /\ models[m] \in Registrations
    BY DEF Recounted, RegistryTypes
  <2>6. copies[m] \in Nat
    OBVIOUS
  <2> DEFINE f == CopiesOf(m)
             home == HomeOf
             r == models[m]
             r2 == models'[m]
             l == copies[m]
  <2>7. /\ f \in Counts /\ home \in Homes /\ r \in Registrations /\ l \in Nat
        /\ Exact(r, f, home) /\ Replaced(r2, r, c, home[c], f[c], q, l)
    BY <2>2, <2>4, <2>5, <2>6
  <2>8. CopiesOf(m)' = [f EXCEPT ![c] = l] /\ HomeOf' = [home EXCEPT ![c] = q]
    BY <2>1, <1>2
  <2> HIDE DEF f, home, r, r2, l
  <2>9. Exact(r2, [f EXCEPT ![c] = l], [home EXCEPT ![c] = q])
    BY <2>7, ReplacedExact
  <2> QED
    BY <2>8, <2>9 DEF r2
<1>4. Recounted'
  BY <1>3 DEF Recounted
<1>5. Listing'
  BY DEF Listing, Relisted
<1> QED
  BY <1>1, <1>4, <1>5

\* An accepted projection moves marks of models the client offers, and counts nothing anew.
LEMMA ApplyRecounts ==
  ASSUME RegistryTypes, Recounted, Listing, NEW epoch, NEW generation \in Nat,
         NEW supported \in SUBSET Models,
         NEW marks \in [supported -> Kinds \cup {"open", "other"}], Client \in Clients,
         ApplyClientModelProjections(Client, epoch, generation, marks)
  PROVE  /\ RegistryTypes' /\ Recounted' /\ Listing'
         /\ clients'[Client] = [clients[Client] EXCEPT !.generation = generation]
         /\ \A c \in Clients \ {Client} : clients'[c] = clients[c]
         /\ \A m \in supported \cap Offered(Client) : models'[m].marks[Client] = marks[m]
<1>1. /\ clients' = [clients EXCEPT ![Client].generation = generation]
      /\ models' = [m \in Models |->
            IF m \in supported \cap Offered(Client)
            THEN [models[m] EXCEPT !.marks[Client] = marks[m]] ELSE models[m]]
      /\ availableModels' = IF models' = models THEN availableModels ELSE NoList
  BY DEF ApplyClientModelProjections
<1>2. /\ clients'[Client] = [clients[Client] EXCEPT !.generation = generation]
      /\ \A c \in Clients \ {Client} : clients'[c] = clients[c]
      /\ clients' \in [Clients -> [provider : Providers \cup {NoProvider},
                                   copies : [Models -> Nat],
                                   epoch : Nat, generation : Nat]]
  <2> DEFINE Entries == [provider : Providers \cup {NoProvider}, copies : [Models -> Nat],
                         epoch : Nat, generation : Nat]
  <2>1. clients \in [Clients -> Entries]
    BY DEF RegistryTypes
  <2>2. ASSUME NEW e \in Entries
        PROVE  [e EXCEPT !.generation = generation] \in Entries
    OBVIOUS
  <2>3. clients' = [clients EXCEPT ![Client] = [clients[Client] EXCEPT !.generation = generation]]
    BY <1>1
  <2> HIDE DEF Entries
  <2>4. clients' \in [Clients -> Entries]
    BY <2>1, <2>2, <2>3
  <2> QED
    BY <2>1, <2>3, <2>4 DEF Entries
<1>3. \A c \in Clients : /\ clients'[c].copies = clients[c].copies
                         /\ clients'[c].provider = clients[c].provider
  BY <1>2 DEF RegistryTypes
<1>4. /\ HomeOf' = HomeOf
      /\ \A m \in Models : CopiesOf(m)' = CopiesOf(m)
      /\ \A c \in Clients : IsRegistered(c)' = IsRegistered(c)
  BY <1>3 DEF HomeOf, CopiesOf, IsRegistered, Nothing
<1>5. ASSUME NEW m \in Models
      PROVE  /\ models'[m] \in Registrations
             /\ models'[m].count = models[m].count
             /\ models'[m].providers = models[m].providers
             /\ \A c \in Clients \ {Client} : models'[m].marks[c] = models[m].marks[c]
             /\ m \in supported \cap Offered(Client) =>
                  models'[m].marks[Client] = marks[m]
             /\ m \notin supported \cap Offered(Client) => models'[m] = models[m]
  <2>1. models[m] \in Registrations
    BY DEF RegistryTypes
  <2>2. CASE m \in supported \cap Offered(Client)
    <3>1. models'[m] = [models[m] EXCEPT !.marks[Client] = marks[m]]
      BY <1>1, <2>2
    <3>2. marks[m] \in Kinds \cup {"open", "other"}
      BY <2>2
    <3> QED
      BY <2>1, <2>2, <3>1, <3>2 DEF Registrations
  <2>3. CASE m \notin supported \cap Offered(Client)
    BY <1>1, <2>1, <2>3
  <2> QED
    BY <2>2, <2>3
<1>6. RegistryTypes'
  <2>1. models' \in [Models -> Registrations]
    BY <1>1, <1>5
  <2> QED
    BY <2>1, <1>2, <1>3, <1>4 DEF RegistryTypes
<1>7. ASSUME NEW m \in Models
      PROVE  Exact(models'[m], CopiesOf(m), HomeOf)
  <2>1. Exact(models[m], CopiesOf(m), HomeOf)
    BY DEF Recounted
  <2>2. m \in Offered(Client) => CopiesOf(m)[Client] > 0
    BY DEF CopiesOf, Offered
  <2>3. ASSUME NEW c \in Clients, models'[m].marks[c] # "open"
        PROVE  CopiesOf(m)[c] > 0
    BY <2>1, <2>2, <2>3, <1>5 DEF Exact
  <2> QED
    BY <2>1, <2>3, <1>5 DEF Exact
<1>8. Recounted'
  BY <1>4, <1>7 DEF Recounted
<1>9. Listing'
  <2>1. CASE models' = models
    <3>1. {m \in Models : Available(models[m])}' = {m \in Models : Available(models[m])}
      BY <2>1 DEF Available
    <3> QED
      BY <2>1, <3>1, <1>1 DEF Listing
  <2>2. CASE models' # models
    <3>1. availableModels' = NoList
      BY <2>2, <1>1
    <3> QED
      BY <3>1 DEF Listing
  <2> QED
    BY <2>1, <2>2, Zenon
<1> QED
  BY <1>2, <1>5, <1>6, <1>8, <1>9

\* Nothing happens to the registry, or a listing is built.
LEMMA RegistryRests ==
  ASSUME RegistryTypes, Recounted, Listing, GetAvailableModels \/ UNCHANGED registryVars
  PROVE  RegistryTypes' /\ Recounted' /\ Listing'
<1>1. UNCHANGED <<models, clients>>
  BY DEF GetAvailableModels, registryVars
<1>2. RegistryTypes'
  BY <1>1 DEF RegistryTypes, IsRegistered, Nothing
<1>3. Recounted'
  BY <1>1 DEF Recounted, CopiesOf, HomeOf
<1>4. Listing'
  BY <1>1 DEF Listing, Available, GetAvailableModels, registryVars
<1> QED
  BY <1>2, <1>3, <1>4

-----------------------------------------------------------------------------
(* Goroutines: who can be where, and what a step does.                     *)

PCs == {"idle", "read", "project", "bind", "reconcile", "lookAgain", "drop", "register",
        "update", "remove"}

Holdings == [pc : PCs, copy : AuthRecord \cup {NoAuth}, epoch : Nat, supported : SUBSET Models]

HeldTypes ==
    /\ auth \in AuthRecord \cup {NoAuth}
    /\ registrations \in Nat /\ shown \in Nat
    /\ actor \in [Actors -> Holdings]
    /\ pass \in {"first", "last"}
    /\ overlap \in BOOLEAN

Placed ==
    /\ \A w \in Workers : actor[w].pc \in {"idle", "read", "project"}
    /\ actor[Queue].pc \in {"idle", "register", "update", "remove", "bind", "reconcile",
                            "project"}
    /\ actor[Registrar].pc \in {"idle", "bind", "reconcile", "project", "lookAgain",
                                "drop"}
    /\ At(Registrar, "lookAgain") => pass = "first"
    /\ At(Registrar, "drop") => pass = "last"
    /\ At(Queue, "register") => auth = NoAuth
    /\ \A pc \in {"update", "remove", "bind"} : At(Queue, pc) => auth # NoAuth
    /\ \A x \in Actors : actor[x].pc \in {"read", "project", "register", "update", "bind"} =>
                           actor[x].copy # NoAuth

Registry == RegistryTypes /\ Recounted /\ Listing

Ground == Registry /\ HeldTypes /\ Placed

\* Only x moves: to pc, with that copy of the credential.
Moves(x, pc, copy) ==
    /\ actor' \in [Actors -> Holdings]
    /\ \A y \in Actors \ {x} : actor'[y] = actor[y]
    /\ actor'[x].pc = pc /\ actor'[x].copy = copy

AfterProjection(x) == IF x = Registrar /\ pass = "first" THEN "lookAgain" ELSE "idle"

\* a is b, the credential, written once more or, when it is not "changed", as it was.
Rewritten(a, b, changed) ==
    /\ a \in AuthRecord
    /\ a.registration = b.registration
    /\ IF changed THEN a.generation = b.generation + 1 ELSE a = b

Records(w) ==
    /\ auth # NoAuth /\ At(w, "idle")
    /\ Rewritten(auth', auth, TRUE) /\ auth'.disabled = auth.disabled
    /\ Moves(w, "read", auth')
    /\ UNCHANGED <<registryVars, registrations, pass, shown, overlap>>

Reads(w) ==
    /\ At(w, "read")
    /\ Moves(w, "project", actor[w].copy)
    /\ actor'[w].epoch = clients[Client].epoch /\ actor'[w].supported = Offered(Client)
    /\ UNCHANGED <<registryVars, managerVars, pass, shown, overlap>>

Accepted(x) ==
    /\ IsRegistered(Client) /\ actor[x].epoch = clients[Client].epoch
    /\ actor[x].copy.generation >= clients[Client].generation
    /\ clients'[Client] = [clients[Client] EXCEPT !.generation = actor[x].copy.generation]
    /\ \A m \in actor[x].supported \cap Offered(Client) :
         models'[m].marks[Client] = Projection(actor[x].copy, actor[x].supported)[m]
    /\ shown' = actor[x].copy.registration

Refused(x) ==
    /\ ~Current(Client, actor[x].epoch, actor[x].copy.generation,
                Projection(actor[x].copy, actor[x].supported))
    /\ UNCHANGED <<registryVars, shown>>

Projects(x) ==
    /\ At(x, "project")
    /\ Accepted(x) \/ Refused(x)
    /\ Moves(x, AfterProjection(x), NoAuth)
    /\ UNCHANGED <<managerVars, pass, overlap>>

Binds(x) ==
    /\ At(x, "bind")
    /\ clients'[Client].epoch = clients[Client].epoch + 1
    /\ IF actor[x].copy.disabled THEN ~IsRegistered(Client)'
       ELSE IsRegistered(Client)' /\ clients'[Client].generation = 0
    /\ Moves(x, "reconcile", NoAuth)
    /\ UNCHANGED <<managerVars, pass, shown, overlap>>

Reconciles(x) ==
    /\ At(x, "reconcile")
    /\ \/ auth = NoAuth /\ UNCHANGED auth /\ Moves(x, AfterProjection(x), NoAuth)
       \/ /\ auth # NoAuth
          /\ \E changed \in BOOLEAN : Rewritten(auth', auth, changed)
          /\ auth'.disabled = auth.disabled
          /\ Moves(x, "project", auth')
          /\ actor'[x].epoch = clients[Client].epoch /\ actor'[x].supported = Offered(Client)
    /\ UNCHANGED <<registryVars, registrations, pass, shown, overlap>>

TakesUpdate ==
    /\ At(Queue, "idle")
    /\ \E a \in AuthRecord : Moves(Queue, IF auth = NoAuth THEN "register" ELSE "update", a)
    /\ overlap' = Unchecked
    /\ UNCHANGED <<registryVars, managerVars, pass, shown>>

Registers ==
    /\ At(Queue, "register")
    /\ registrations' = registrations + 1
    /\ auth' \in AuthRecord /\ auth'.registration = registrations'
    /\ Moves(Queue, "bind", auth')
    /\ UNCHANGED <<registryVars, pass, shown, overlap>>

Updates ==
    /\ At(Queue, "update")
    /\ Rewritten(auth', auth, TRUE)
    /\ Moves(Queue, "bind", auth')
    /\ UNCHANGED <<registryVars, registrations, pass, shown, overlap>>

\* The client leaves the registry.
Leaves ==
    /\ clients'[Client].epoch = clients[Client].epoch + 1
    /\ ~IsRegistered(Client)'

TakesRemoval ==
    /\ At(Queue, "idle") /\ auth # NoAuth
    /\ Leaves
    /\ Moves(Queue, "remove", NoAuth)
    /\ overlap' = Unchecked
    /\ UNCHANGED <<managerVars, pass, shown>>

Removes ==
    /\ At(Queue, "remove")
    /\ auth' = NoAuth /\ registrations' = registrations + 1
    /\ Moves(Queue, "idle", NoAuth)
    /\ UNCHANGED <<registryVars, pass, shown, overlap>>

StartsPass ==
    /\ At(Registrar, "idle") /\ auth # NoAuth
    /\ \/ pass' = "first" /\ UNCHANGED overlap
       \/ pass' = "last" /\ overlap' = ~At(Queue, "idle")
    /\ Moves(Registrar, "bind", auth)
    /\ UNCHANGED <<registryVars, managerVars, shown>>

LooksAgain ==
    /\ At(Registrar, "lookAgain")
    /\ pass' = "last" /\ overlap' = ~At(Queue, "idle")
    /\ Moves(Registrar, IF Enabled(auth) THEN "bind" ELSE "drop", auth)
    /\ UNCHANGED <<registryVars, managerVars, shown>>

Drops ==
    /\ At(Registrar, "drop")
    /\ Leaves
    /\ Moves(Registrar, "idle", NoAuth)
    /\ UNCHANGED <<managerVars, pass, shown, overlap>>

\* The registry goes on without the credential.
Elsewhere ==
    /\ clients'[Client] = clients[Client]
    /\ \A m \in Models : models'[m].marks[Client] = models[m].marks[Client]
    /\ UNCHANGED <<managerVars, actor, pass, shown, overlap>>

Steps ==
    \/ \E w \in Workers : Records(w) \/ Reads(w)
    \/ \E x \in Actors : Projects(x)
    \/ \E x \in {Queue, Registrar} : Binds(x) \/ Reconciles(x)
    \/ TakesUpdate \/ Registers \/ Updates \/ TakesRemoval \/ Removes
    \/ StartsPass \/ LooksAgain \/ Drops
    \/ Elsewhere

-----------------------------------------------------------------------------

\* A goroutine that keeps what it knows of the registry.
LEMMA HoldsMoves ==
  ASSUME actor \in [Actors -> Holdings], NEW x \in Actors, NEW pc \in PCs,
         NEW copy \in AuthRecord \cup {NoAuth}, Holds(x, pc, copy)
  PROVE  Moves(x, pc, copy)
<1> DEFINE there == [actor EXCEPT ![x].pc = pc]
<1>1. ASSUME NEW h \in Holdings
      PROVE  /\ [h EXCEPT !.pc = pc] \in Holdings
             /\ [h EXCEPT !.copy = copy] \in Holdings
             /\ [h EXCEPT !.pc = pc].pc = pc
             /\ [h EXCEPT !.copy = copy].copy = copy /\ [h EXCEPT !.copy = copy].pc = h.pc
  BY DEF Holdings
<1>2. /\ there \in [Actors -> Holdings]
      /\ there[x].pc = pc
      /\ \A y \in Actors \ {x} : there[y] = actor[y]
  BY <1>1
<1>3. actor' = [there EXCEPT ![x].copy = copy]
  BY DEF Holds
<1> HIDE DEF there
<1> DEFINE h == [there[x] EXCEPT !.copy = copy]
<1>4. actor' = [there EXCEPT ![x] = h]
  BY <1>3
<1>5. there[x] \in Holdings
  BY <1>2
<1>6. h \in Holdings /\ h.copy = copy /\ h.pc = pc
  BY <1>1, <1>2, <1>5
<1> HIDE DEF h
<1>7. /\ actor' \in [Actors -> Holdings]
      /\ actor'[x] = h
      /\ \A y \in Actors \ {x} : actor'[y] = there[y]
  BY <1>2, <1>4, <1>6
<1> QED
  BY <1>2, <1>6, <1>7 DEF Moves

\* A goroutine that forgets all it knew.
LEMMA OnlyMoves ==
  ASSUME actor \in [Actors -> Holdings], NEW x \in Actors, NEW pc \in PCs, Only(x, pc)
  PROVE  Moves(x, pc, NoAuth)
<1> DEFINE h == [pc |-> pc, copy |-> NoAuth, epoch |-> 0, supported |-> {}]
<1>1. h \in Holdings
  BY DEF Holdings
<1>2. [AtRest EXCEPT !.pc = pc] = h
  BY DEF AtRest
<1> HIDE DEF h
<1>3. actor' = [actor EXCEPT ![x] = h]
  BY <1>2 DEF Only
<1>4. h.pc = pc /\ h.copy = NoAuth
  BY DEF h
<1> QED
  BY <1>1, <1>3, <1>4 DEF Moves

\* A goroutine whose projection is done.
LEMMA ProjectedMoves ==
  ASSUME actor \in [Actors -> Holdings], NEW x \in Actors, Projected(x)
  PROVE  Moves(x, AfterProjection(x), NoAuth)
<1>1. Only(x, AfterProjection(x))
  BY DEF Projected, Rests, AfterProjection
<1> QED
  BY <1>1, OnlyMoves DEF AfterProjection, PCs

\* Every goroutine holds something of the right kind, and what it projects or writes
\* is a copy of a credential.
LEMMA HeldThings ==
  ASSUME Ground
  PROVE  /\ actor \in [Actors -> Holdings]
         /\ \A x \in Actors : actor[x] \in Holdings
         /\ \A x \in Actors : actor[x].pc \in {"read", "project", "register", "update", "bind"} =>
              actor[x].copy \in AuthRecord
         /\ auth # NoAuth => auth \in AuthRecord
         /\ Workers \subseteq Actors /\ Queue \in Actors /\ Registrar \in Actors
<1>1. actor \in [Actors -> Holdings]
  BY DEF Ground, HeldTypes
<1>2. \A x \in Actors : actor[x] \in Holdings
  BY <1>1
<1>3. \A x \in Actors : actor[x].copy \in AuthRecord \cup {NoAuth}
  BY <1>2 DEF Holdings
<1> QED
  BY <1>1, <1>2, <1>3 DEF Ground, Placed, HeldTypes, Actors

\* A credential with other states, or with another generation, is a credential.
LEMMA RewrittenFields ==
  ASSUME NEW a \in AuthRecord
  PROVE  /\ \A st \in [Models -> Kinds \cup {"clean", "none"}] :
              LET b == [a EXCEPT !.states = st]
              IN  /\ b \in AuthRecord /\ b.registration = a.registration
                  /\ b.generation = a.generation /\ b.disabled = a.disabled
                  /\ b.states = st
         /\ \A n \in Nat :
              LET b == [a EXCEPT !.generation = n]
              IN  /\ b \in AuthRecord /\ b.registration = a.registration
                  /\ b.generation = n /\ b.disabled = a.disabled
                  /\ b.states = a.states
  BY DEF AuthRecord

\* A result or a reset: the credential is written once more, and the worker has a copy.
LEMMA RecordStep ==
  ASSUME Ground, NEW w \in Workers, MarkResult(w) \/ ResetQuota(w)
  PROVE  Records(w)
<1>1. auth # NoAuth /\ auth \in AuthRecord
  BY HeldThings DEF MarkResult, ResetQuota
<1>2. /\ auth' \in AuthRecord /\ auth'.registration = auth.registration
      /\ auth'.generation = auth.generation + 1 /\ auth'.disabled = auth.disabled
  <2>1. /\ auth.generation + 1 \in Nat
        /\ auth.states \in [Models -> Kinds \cup {"clean", "none"}]
    BY <1>1 DEF AuthRecord
  <2>2. ASSUME NEW m \in Models, NEW s \in Kinds \cup {"clean"},
               auth' = [auth EXCEPT !.states[m] = s, !.generation = @ + 1]
        PROVE  /\ auth' \in AuthRecord /\ auth'.registration = auth.registration
               /\ auth'.generation = auth.generation + 1 /\ auth'.disabled = auth.disabled
    <3> DEFINE st == [auth.states EXCEPT ![m] = s]
               b == [auth EXCEPT !.states = st]
    <3>1. st \in [Models -> Kinds \cup {"clean", "none"}]
      BY <2>1
    <3>2. /\ b \in AuthRecord /\ b.registration = auth.registration
          /\ b.generation = auth.generation /\ b.disabled = auth.disabled
      BY <1>1, <3>1, RewrittenFields
    <3>3. auth' = [b EXCEPT !.generation = b.generation + 1]
      BY <2>2
    <3> HIDE DEF b
    <3> QED
      BY <2>1, <3>2, <3>3, RewrittenFields
  <2>3. ASSUME auth' = [auth EXCEPT !.generation = @ + 1,
                          !.states = [m \in Models |-> IF @[m] = "none" THEN "none" ELSE "clean"]]
        PROVE  /\ auth' \in AuthRecord /\ auth'.registration = auth.registration
               /\ auth'.generation = auth.generation + 1 /\ auth'.disabled = auth.disabled
    <3> DEFINE b == [auth EXCEPT !.generation = auth.generation + 1]
               st == [m \in Models |-> IF b.states[m] = "none" THEN "none" ELSE "clean"]
    <3>1. /\ b \in AuthRecord /\ b.registration = auth.registration
          /\ b.generation = auth.generation + 1 /\ b.disabled = auth.disabled
      BY <1>1, <2>1, RewrittenFields
    <3>2. st \in [Models -> Kinds \cup {"clean", "none"}]
      OBVIOUS
    <3>3. auth' = [b EXCEPT !.states = st]
      BY <2>3
    <3> HIDE DEF b, st
    <3> QED
      BY <3>1, <3>2, <3>3, RewrittenFields
  <2> QED
    BY <2>2, <2>3 DEF MarkResult, ResetQuota
<1>3. Holds(w, "read", auth')
  BY DEF MarkResult, ResetQuota
<1>4. Moves(w, "read", auth')
  BY <1>2, <1>3, HeldThings, HoldsMoves DEF PCs
<1> QED
  BY <1>1, <1>2, <1>4 DEF Records, Rewritten, MarkResult, ResetQuota

\* A worker reads the registration.
LEMMA ReadStep ==
  ASSUME Ground, NEW w \in Workers, ReadRegistration(w)
  PROVE  Reads(w)
<1> DEFINE h == actor[w]
           g == [h EXCEPT !.pc = "project", !.epoch = clients[Client].epoch,
                          !.supported = Offered(Client)]
<1>1. h \in Holdings /\ w \in Actors /\ actor \in [Actors -> Holdings]
  BY HeldThings
<1>2. clients[Client].epoch \in Nat /\ Offered(Client) \in SUBSET Models
  BY ActorsAssumption DEF Ground, Registry, RegistryTypes, Offered
<1>3. /\ g \in Holdings /\ g.pc = "project" /\ g.copy = h.copy
      /\ g.epoch = clients[Client].epoch /\ g.supported = Offered(Client)
  BY <1>1, <1>2 DEF Holdings, PCs
<1>4. actor' = [actor EXCEPT ![w] = g]
  BY <1>1 DEF ReadRegistration
<1> HIDE DEF g
<1>5. Moves(w, "project", h.copy) /\ actor'[w] = g
  BY <1>1, <1>3, <1>4 DEF Moves
<1> QED
  BY <1>3, <1>5 DEF Reads, ReadRegistration

\* A projection is accepted, and shows what it holds, or it is refused.
LEMMA ProjectStep ==
  ASSUME Ground, NEW x \in Actors, Project(x)
  PROVE  Projects(x) /\ Registry'
<1> DEFINE h == actor[x]
           marks == Projection(h.copy, h.supported)
<1>1. At(x, "project") /\ h.copy \in AuthRecord /\ h \in Holdings
  BY HeldThings DEF Project, At
<1>2. h.copy.generation \in Nat /\ h.supported \in SUBSET Models
  BY <1>1 DEF Holdings, AuthRecord
<1>3. marks \in [h.supported -> Kinds \cup {"open", "other"}]
  BY <1>2 DEF Projection
<1>4. Moves(x, AfterProjection(x), NoAuth)
  BY HeldThings, ProjectedMoves DEF Project
<1>5. CASE /\ ApplyClientModelProjections(Client, h.epoch, h.copy.generation, marks)
           /\ shown' = h.copy.registration
  <2>1. /\ Registry'
        /\ clients'[Client] = [clients[Client] EXCEPT !.generation = h.copy.generation]
        /\ \A m \in h.supported \cap Offered(Client) : models'[m].marks[Client] = marks[m]
    <3> HIDE DEF marks
    <3>1. RegistryTypes /\ Recounted /\ Listing /\ Client \in Clients
      BY ActorsAssumption DEF Ground, Registry
    <3>2. /\ RegistryTypes' /\ Recounted' /\ Listing'
          /\ clients'[Client] = [clients[Client] EXCEPT !.generation = h.copy.generation]
          /\ \A m \in h.supported \cap Offered(Client) : models'[m].marks[Client] = marks[m]
      BY <1>2, <1>3, <1>5, <3>1, ApplyRecounts
    <3> QED
      BY <3>2 DEF Registry
  <2>2. /\ IsRegistered(Client) /\ h.epoch = clients[Client].epoch
        /\ h.copy.generation >= clients[Client].generation
    BY <1>5 DEF ApplyClientModelProjections, Current
  <2>3. Accepted(x)
    BY <1>5, <2>1, <2>2 DEF Accepted
  <2> QED
    BY <1>1, <1>4, <2>1, <2>3 DEF Projects, Project
<1>6. CASE /\ ~Current(Client, h.epoch, h.copy.generation, marks)
           /\ UNCHANGED <<registryVars, shown>>
  <2>1. Refused(x)
    BY <1>6 DEF Refused
  <2>2. Registry'
    BY <1>6, RegistryRests DEF Ground, Registry
  <2> QED
    BY <1>1, <1>4, <2>1, <2>2 DEF Projects, Project
<1> QED
  BY <1>5, <1>6 DEF Project

\* The credential's client leaves the registry.
LEMMA LeaveStep ==
  ASSUME Ground, UnregisterClient(Client)
  PROVE  Leaves /\ Registry'
<1>1. Relisted(Client, NoProvider, Nothing)
  BY ActorsAssumption, UnregisterRelists DEF Ground, Registry
<1>2. Nothing \in [Models -> Nat]
  BY DEF Nothing
<1>3. Registry'
  BY <1>1, <1>2, ActorsAssumption, RelistedRecounts DEF Ground, Registry
<1>4. clients'[Client].copies = Nothing /\ clients'[Client].epoch = clients[Client].epoch + 1
  BY <1>1 DEF Relisted
<1> QED
  BY <1>3, <1>4 DEF Leaves, IsRegistered, Nothing

\* The client's list is exchanged for an offer.
LEMMA OfferStep ==
  ASSUME Registry, NEW c \in Clients, NEW o \in Offers \cup OtherOffers, RegisterClient(c, o)
  PROVE  /\ Registry'
         /\ Relisted(c, o.provider, o.copies)
         /\ IsRegistered(c)' /\ clients'[c].generation = 0
<1>1. /\ Relisted(c, o.provider, o.copies)
      /\ clients'[c].generation = 0
      /\ o.provider \in Providers /\ o.copies # Nothing
  BY RegisterRelists DEF Registry
<1>2. o.copies \in [Models -> Nat]
  BY OffersAssumption
<1>3. Registry'
  BY <1>1, <1>2, RelistedRecounts DEF Registry
<1>4. IsRegistered(c)'
  BY <1>1 DEF Relisted, IsRegistered, Nothing
<1> QED
  BY <1>1, <1>3, <1>4

\* Binding: registered anew, or gone if the copy says disabled.
LEMMA BindStep ==
  ASSUME Ground, NEW x \in {Queue, Registrar}, Bind(x)
  PROVE  Binds(x) /\ Registry'
<1>1. At(x, "bind") /\ Moves(x, "reconcile", NoAuth)
  BY HeldThings, OnlyMoves DEF Bind, PCs
<1>2. CASE actor[x].copy.disabled
  <2>1. UnregisterClient(Client)
    BY <1>2 DEF Bind
  <2> QED
    BY <1>1, <1>2, <2>1, LeaveStep DEF Leaves, Binds, Bind
<1>3. CASE ~actor[x].copy.disabled
  <2>1. PICK o \in Offers : RegisterClient(Client, o)
    BY <1>3 DEF Bind
  <2>2. /\ Registry' /\ Relisted(Client, o.provider, o.copies)
        /\ IsRegistered(Client)' /\ clients'[Client].generation = 0
    BY <2>1, ActorsAssumption, OfferStep DEF Ground
  <2> QED
    BY <1>1, <1>3, <2>2 DEF Relisted, Binds, Bind
<1> QED
  BY <1>2, <1>3

\* Reconciling: the states follow the offer, and the goroutine has a fresh copy.
LEMMA ReconcileStep ==
  ASSUME Ground, NEW x \in {Queue, Registrar}, Reconcile(x)
  PROVE  Reconciles(x)
<1>1. At(x, "reconcile") /\ x \in Actors
  BY HeldThings DEF Reconcile
<1>2. CASE auth = NoAuth
  BY <1>1, <1>2, HeldThings, ProjectedMoves DEF Reconciles, Reconcile
<1>3. CASE auth # NoAuth
  <2>1. auth \in AuthRecord
    BY <1>3, HeldThings
  <2>2. PICK over \in SUBSET {m \in Models : auth.states[m] \in Kinds} :
          LET states == [m \in Models |-> IF m \notin Offered(Client) THEN "none"
                                          ELSE IF m \in over THEN "clean"
                                          ELSE auth.states[m]]
          IN  /\ auth' = [auth EXCEPT
                    !.states = states,
                    !.generation = IF states = auth.states THEN @ ELSE @ + 1]
              /\ actor' = [actor EXCEPT
                    ![x] = [pc |-> "project", copy |-> auth',
                            epoch |-> clients[Client].epoch,
                            supported |-> Offered(Client)]]
    BY <1>3 DEF Reconcile
  <2> DEFINE states == [m \in Models |-> IF m \notin Offered(Client) THEN "none"
                                         ELSE IF m \in over THEN "clean"
                                         ELSE auth.states[m]]
             b == [auth EXCEPT !.states = states]
             g == [pc |-> "project", copy |-> auth', epoch |-> clients[Client].epoch,
                   supported |-> Offered(Client)]
  <2>3. /\ auth' = [b EXCEPT !.generation = IF states = auth.states THEN b.generation
                                            ELSE b.generation + 1]
        /\ actor' = [actor EXCEPT ![x] = g]
    BY <2>2
  <2>4. /\ auth.states \in [Models -> Kinds \cup {"clean", "none"}]
        /\ auth.generation \in Nat /\ auth.generation + 1 \in Nat
    BY <2>1 DEF AuthRecord
  <2>5. states \in [Models -> Kinds \cup {"clean", "none"}]
    BY <2>4
  <2>6. states = auth.states => b = auth
    BY <2>1 DEF AuthRecord
  <2> HIDE DEF states
  <2>7. /\ b \in AuthRecord /\ b.registration = auth.registration
        /\ b.generation = auth.generation /\ b.disabled = auth.disabled
    BY <2>1, <2>5, RewrittenFields
  <2> HIDE DEF b
  <2>8. /\ auth' \in AuthRecord /\ auth'.disabled = auth.disabled
        /\ \E changed \in BOOLEAN : Rewritten(auth', auth, changed)
    <3>1. CASE states = auth.states
      <4>1. auth' = [b EXCEPT !.generation = b.generation] /\ b = auth
        BY <3>1, <2>3, <2>6
      <4>2. [auth EXCEPT !.generation = auth.generation] = auth
        BY <2>1 DEF AuthRecord
      <4>3. auth' = auth
        BY <4>1, <4>2
      <4> QED
        BY <4>3, <2>1 DEF Rewritten
    <3>2. CASE states # auth.states
      <4>1. auth' = [b EXCEPT !.generation = b.generation + 1]
        BY <3>2, <2>3
      <4>2. /\ auth' \in AuthRecord /\ auth'.registration = auth.registration
            /\ auth'.generation = auth.generation + 1 /\ auth'.disabled = auth.disabled
        BY <4>1, <2>4, <2>7, RewrittenFields
      <4> QED
        BY <4>2 DEF Rewritten
    <3> QED
      BY <3>1, <3>2
  <2>9. clients[Client].epoch \in Nat /\ Offered(Client) \in SUBSET Models
    BY ActorsAssumption DEF Ground, Registry, RegistryTypes, Offered
  <2>10. g \in Holdings /\ g.pc = "project" /\ g.copy = auth'
         /\ g.epoch = clients[Client].epoch /\ g.supported = Offered(Client)
    BY <2>8, <2>9 DEF Holdings, PCs
  <2> HIDE DEF g
  <2>11. Moves(x, "project", auth') /\ actor'[x] = g
    BY <1>1, <2>3, <2>10, HeldThings DEF Moves
  <2> QED
    BY <1>1, <1>3, <2>8, <2>10, <2>11 DEF Reconciles, Reconcile
<1> QED
  BY <1>2, <1>3

\* The queue takes a change: what it will write is ready.
LEMMA TakeUpdateStep ==
  ASSUME Ground, TakeUpdate
  PROVE  TakesUpdate
<1> DEFINE pc == IF auth = NoAuth THEN "register" ELSE "update"
           states == IF Enabled(auth) THEN auth.states ELSE NoStates
<1>1. NoStates \in [Models -> Kinds \cup {"clean", "none"}]
  BY DEF NoStates
<1>2. Enabled(auth) => auth.states \in [Models -> Kinds \cup {"clean", "none"}]
  BY HeldThings DEF Enabled, AuthRecord
<1>3. PICK disabled \in BOOLEAN :
        Holds(Queue, pc,
              [registration |-> 0, generation |-> 0, disabled |-> disabled,
               states |-> IF Enabled(auth) /\ ~disabled THEN auth.states ELSE NoStates])
  BY DEF TakeUpdate
<1> DEFINE a == [registration |-> 0, generation |-> 0, disabled |-> disabled,
                 states |-> IF Enabled(auth) /\ ~disabled THEN auth.states ELSE NoStates]
<1>4. a \in AuthRecord
  BY <1>1, <1>2 DEF AuthRecord
<1> HIDE DEF a
<1>5. Moves(Queue, pc, a)
  BY <1>3, <1>4, HeldThings, HoldsMoves DEF a, PCs
<1> QED
  BY <1>4, <1>5 DEF TakesUpdate, TakeUpdate

\* Manager.Register and Manager.Update write what the queue brought.
LEMMA WriteStep ==
  ASSUME Ground, Register \/ Update
  PROVE  Registers \/ Updates
<1> DEFINE a == actor[Queue].copy
<1>1. a \in AuthRecord
  <2>1. actor[Queue].pc \in {"register", "update"}
    BY DEF Register, Update, At
  <2> QED
    BY <2>1, HeldThings
<1>2. CASE Register
  <2>1. registrations' = registrations + 1 /\ registrations + 1 \in Nat
    BY <1>2 DEF Register, Ground, HeldTypes
  <2>2. auth' = [a EXCEPT !.registration = registrations + 1, !.generation = 1]
    BY <1>2, <2>1 DEF Register
  <2>3. ASSUME NEW n \in Nat
        PROVE  /\ [a EXCEPT !.registration = n] \in AuthRecord
               /\ [a EXCEPT !.registration = n].registration = n
    BY <1>1 DEF AuthRecord
  <2> DEFINE b == [a EXCEPT !.registration = registrations + 1]
  <2>4. auth' = [b EXCEPT !.generation = 1] /\ b \in AuthRecord
        /\ b.registration = registrations + 1
    BY <2>1, <2>2, <2>3
  <2> HIDE DEF b
  <2>5. auth' \in AuthRecord /\ auth'.registration = registrations + 1
    BY <2>4, RewrittenFields
  <2>6. Moves(Queue, "bind", auth')
    BY <1>2, <2>5, HeldThings, HoldsMoves DEF Register, PCs
  <2> QED
    BY <1>2, <2>1, <2>5, <2>6 DEF Registers, Register
<1>3. CASE Update
  <2>1. auth \in AuthRecord
    <3>1. auth # NoAuth
      BY <1>3 DEF Ground, Placed, Update
    <3> QED
      BY <3>1, HeldThings
  <2> DEFINE keep == Enabled(auth) /\ ~a.disabled /\ a.states = NoStates
             st == IF keep THEN auth.states ELSE a.states
             b == [a EXCEPT !.registration = auth.registration]
             d == [b EXCEPT !.generation = auth.generation + 1]
  <2>2. auth' = [d EXCEPT !.states = st]
    <3>1. d.states = a.states
      BY <1>1 DEF AuthRecord
    <3>2. auth' = [d EXCEPT !.states = IF keep THEN auth.states ELSE d.states]
      BY <1>3 DEF Update
    <3> QED
      BY <3>1, <3>2
  <2>3. /\ auth.registration \in Nat /\ auth.generation + 1 \in Nat
        /\ st \in [Models -> Kinds \cup {"clean", "none"}]
    BY <1>1, <2>1 DEF AuthRecord
  <2>4. b \in AuthRecord /\ b.registration = auth.registration
    BY <1>1, <2>3 DEF AuthRecord
  <2> HIDE DEF b, st
  <2>5. /\ d \in AuthRecord /\ d.registration = auth.registration
        /\ d.generation = auth.generation + 1
    BY <2>3, <2>4, RewrittenFields
  <2> HIDE DEF d
  <2>6. /\ auth' \in AuthRecord /\ auth'.registration = auth.registration
        /\ auth'.generation = auth.generation + 1
    BY <2>2, <2>3, <2>5, RewrittenFields
  <2>7. Moves(Queue, "bind", auth')
    BY <1>3, <2>6, HeldThings, HoldsMoves DEF Update, PCs
  <2> QED
    BY <1>3, <2>6, <2>7 DEF Updates, Rewritten, Update
<1> QED
  BY <1>2, <1>3

\* A removal: out of the registry, then out of the manager.
LEMMA RemovalStep ==
  ASSUME Ground
  PROVE  /\ TakeRemoval => TakesRemoval /\ Registry'
         /\ Remove => Removes
<1>1. ASSUME TakeRemoval
      PROVE  TakesRemoval /\ Registry'
  <2>1. Leaves /\ Registry'
    BY <1>1, LeaveStep DEF TakeRemoval
  <2>2. Moves(Queue, "remove", NoAuth)
    BY <1>1, HeldThings, OnlyMoves DEF TakeRemoval, PCs
  <2> QED
    BY <1>1, <2>1, <2>2 DEF TakesRemoval, TakeRemoval
<1>2. ASSUME Remove
      PROVE  Removes
  <2>1. Moves(Queue, "idle", NoAuth)
    BY <1>2, HeldThings, OnlyMoves DEF Remove, Rests, PCs
  <2> QED
    BY <1>2, <2>1 DEF Removes, Remove
<1> QED
  BY <1>1, <1>2

\* The registrar's pass: a copy, a second look, the end of a client.
LEMMA PassStep ==
  ASSUME Ground
  PROVE  /\ StartPass => StartsPass
         /\ LookAgain => LooksAgain
         /\ Drop => Drops /\ Registry'
<1>1. ASSUME StartPass
      PROVE  StartsPass
  <2>1. Moves(Registrar, "bind", auth)
    BY <1>1, HeldThings, HoldsMoves DEF StartPass, PCs
  <2> QED
    BY <1>1, <2>1 DEF StartsPass, StartPass
<1>2. ASSUME LookAgain
      PROVE  LooksAgain
  <2> DEFINE pc == IF Enabled(auth) THEN "bind" ELSE "drop"
  <2>1. auth \in AuthRecord \cup {NoAuth} /\ pc \in PCs /\ Holds(Registrar, pc, auth)
    BY <1>2, HeldThings DEF LookAgain, PCs
  <2> HIDE DEF pc
  <2>2. Moves(Registrar, pc, auth)
    BY <2>1, HeldThings, HoldsMoves
  <2> QED
    BY <1>2, <2>2 DEF pc, LooksAgain, LookAgain
<1>3. ASSUME Drop
      PROVE  Drops /\ Registry'
  <2>1. Leaves /\ Registry'
    BY <1>3, LeaveStep DEF Drop
  <2>2. Moves(Registrar, "idle", NoAuth)
    BY <1>3, HeldThings, OnlyMoves DEF Drop, Rests, PCs
  <2> QED
    BY <1>3, <2>1, <2>2 DEF Drops, Drop
<1> QED
  BY <1>1, <1>2, <1>3

\* Other clients, and listings, leave this client's entry and its marks alone.
LEMMA ElsewhereStep ==
  ASSUME Ground, OtherClient \/ List \/ UNCHANGED vars
  PROVE  Elsewhere /\ Registry'
<1>1. ASSUME NEW c \in Clients \ {Client}, NEW q, NEW copies, Relisted(c, q, copies)
      PROVE  /\ clients'[Client] = clients[Client]
             /\ \A m \in Models : models'[m].marks[Client] = models[m].marks[Client]
  BY <1>1, ActorsAssumption DEF Relisted, Replaced
<1>2. CASE OtherClient
  <2>1. PICK c \in Clients \ {Client} : \/ \E o \in OtherOffers : RegisterClient(c, o)
                                        \/ IsRegistered(c) /\ UnregisterClient(c)
    BY <1>2 DEF OtherClient
  <2>2. CASE \E o \in OtherOffers : RegisterClient(c, o)
    <3>1. PICK o \in OtherOffers : RegisterClient(c, o)
      BY <2>2
    <3>2. Registry' /\ Relisted(c, o.provider, o.copies)
      BY <3>1, OfferStep DEF Ground
    <3> QED
      BY <3>2, <1>1, <1>2 DEF Elsewhere, OtherClient
  <2>3. CASE UnregisterClient(c)
    <3>1. Relisted(c, NoProvider, Nothing) /\ Nothing \in [Models -> Nat]
      BY <2>3, UnregisterRelists DEF Ground, Registry, Nothing
    <3>2. Registry'
      BY <3>1, RelistedRecounts DEF Ground, Registry
    <3> QED
      BY <3>1, <3>2, <1>1, <1>2 DEF Elsewhere, OtherClient
  <2> QED
    BY <2>1, <2>2, <2>3
<1>3. CASE List \/ UNCHANGED vars
  <2>1. GetAvailableModels \/ UNCHANGED registryVars
    BY <1>3 DEF List, vars
  <2>2. Registry'
    BY <2>1, RegistryRests DEF Ground, Registry
  <2>3. UNCHANGED <<models, clients>>
    BY <2>1 DEF GetAvailableModels, registryVars
  <2> QED
    BY <1>3, <2>2, <2>3 DEF Elsewhere, List, vars
<1> QED
  BY <1>2, <1>3

\* Every step is one of the kinds above, and the registry stays as it should be.
LEMMA StepKinds ==
  ASSUME Ground, [Next]_vars
  PROVE  Steps /\ Registry'
<1>1. ASSUME UNCHANGED registryVars
      PROVE  Registry'
  BY <1>1, RegistryRests DEF Ground, Registry
<1>2. ASSUME NEW w \in Workers, MarkResult(w) \/ ResetQuota(w)
      PROVE  Steps /\ Registry'
  BY <1>1, <1>2, RecordStep DEF Steps, Records
<1>3. ASSUME NEW w \in Workers, ReadRegistration(w)
      PROVE  Steps /\ Registry'
  BY <1>1, <1>3, ReadStep DEF Steps, Reads
<1>4. ASSUME NEW x \in Actors, Project(x)
      PROVE  Steps /\ Registry'
  BY <1>4, ProjectStep DEF Steps
<1>5. ASSUME NEW x \in {Queue, Registrar}, Bind(x)
      PROVE  Steps /\ Registry'
  BY <1>5, BindStep DEF Steps
<1>6. ASSUME NEW x \in {Queue, Registrar}, Reconcile(x)
      PROVE  Steps /\ Registry'
  BY <1>1, <1>6, ReconcileStep DEF Steps, Reconciles
<1>7. ASSUME TakeUpdate
      PROVE  Steps /\ Registry'
  BY <1>1, <1>7, TakeUpdateStep DEF Steps, TakesUpdate
<1>8. ASSUME Register \/ Update
      PROVE  Steps /\ Registry'
  BY <1>1, <1>8, WriteStep DEF Steps, Registers, Updates
<1>9. ASSUME TakeRemoval
      PROVE  Steps /\ Registry'
  BY <1>9, RemovalStep DEF Steps
<1>10. ASSUME Remove
       PROVE  Steps /\ Registry'
  BY <1>1, <1>10, RemovalStep DEF Steps, Removes
<1>11. ASSUME StartPass
       PROVE  Steps /\ Registry'
  BY <1>1, <1>11, PassStep DEF Steps, StartsPass
<1>12. ASSUME LookAgain
       PROVE  Steps /\ Registry'
  BY <1>1, <1>12, PassStep DEF Steps, LooksAgain
<1>13. ASSUME Drop
       PROVE  Steps /\ Registry'
  BY <1>13, PassStep DEF Steps
<1>14. ASSUME OtherClient \/ List \/ UNCHANGED vars
       PROVE  Steps /\ Registry'
  BY <1>14, ElsewhereStep DEF Steps
<1> QED
  BY <1>2, <1>3, <1>4, <1>5, <1>6, <1>7, <1>8, <1>9, <1>10, <1>11, <1>12, <1>13, <1>14 DEF Next

-----------------------------------------------------------------------------
(* Types and places.                                                       *)

\* The goroutines are different ones.
LEMMA Apart ==
  /\ \A w \in Workers : w \in Actors /\ w # Queue /\ w # Registrar
  /\ Queue \in Actors /\ Registrar \in Actors /\ Queue # Registrar
  BY ActorsAssumption DEF Actors

\* Every kind of step keeps the types.
LEMMA HeldTypesStep ==
  ASSUME Ground, Steps
  PROVE  HeldTypes'
<1> USE DEF Ground, HeldTypes
<1>1. ASSUME NEW x, NEW pc, NEW copy, Moves(x, pc, copy)
      PROVE  actor' \in [Actors -> Holdings]
  BY <1>1 DEF Moves
<1>2. ASSUME NEW w \in Workers, Records(w) \/ Reads(w)
      PROVE  HeldTypes'
  BY <1>1, <1>2 DEF Records, Reads, Rewritten, managerVars
<1>3. ASSUME NEW x \in Actors, Projects(x)
      PROVE  HeldTypes'
  <2>1. actor[x].copy.registration \in Nat
    <3>1. actor[x].copy \in AuthRecord
      BY <1>3, HeldThings DEF Projects, At
    <3> QED
      BY <3>1 DEF AuthRecord
  <2>2. shown' \in Nat
    BY <1>3, <2>1 DEF Projects, Accepted, Refused
  <2> QED
    BY <1>1, <1>3, <2>2 DEF Projects, managerVars
<1>4. ASSUME NEW x \in {Queue, Registrar}, Binds(x) \/ Reconciles(x)
      PROVE  HeldTypes'
  BY <1>1, <1>4 DEF Binds, Reconciles, Rewritten, managerVars
<1>5. CASE TakesUpdate
  BY <1>1, <1>5 DEF TakesUpdate, Unchecked, managerVars
<1>6. CASE Registers \/ Updates
  BY <1>1, <1>6 DEF Registers, Updates, Rewritten
<1>7. CASE TakesRemoval
  BY <1>1, <1>7 DEF TakesRemoval, Unchecked, managerVars
<1>8. CASE Removes
  BY <1>1, <1>8 DEF Removes
<1>9. CASE StartsPass \/ LooksAgain
  BY <1>1, <1>9 DEF StartsPass, LooksAgain, managerVars
<1>10. CASE Drops
  BY <1>1, <1>10 DEF Drops, managerVars
<1>11. CASE Elsewhere
  BY <1>11 DEF Elsewhere, managerVars
<1> QED
  BY <1>2, <1>3, <1>4, <1>5, <1>6, <1>7, <1>8, <1>9, <1>10, <1>11 DEF Steps

\* Every kind of step leaves everybody where they can be.
LEMMA PlacedStep ==
  ASSUME Ground, Steps
  PROVE  Placed'
<1> USE Apart DEF Placed, At, Moves
<1>1. Placed /\ \A x \in Actors : actor[x].pc \in {"read", "project", "register", "update", "bind"} =>
                                    actor[x].copy # NoAuth
  BY DEF Ground
<1>2. ASSUME NEW w \in Workers, Records(w)
      PROVE  Placed'
  <2>1. auth' # NoAuth
    BY <1>2, NoAuthAssumption DEF Records, Rewritten
  <2> QED
    BY <1>1, <1>2, <2>1 DEF Records
<1>3. ASSUME NEW w \in Workers, Reads(w)
      PROVE  Placed'
  BY <1>1, <1>3 DEF Reads, managerVars
<1>4. ASSUME NEW x \in Actors, Projects(x)
      PROVE  Placed'
  <2>1. AfterProjection(x) \in {"idle", "lookAgain"}
    BY DEF AfterProjection
  <2>2. AfterProjection(x) = "lookAgain" => x = Registrar /\ pass = "first"
    BY DEF AfterProjection
  <2>3. x \in Workers \/ x = Queue \/ x = Registrar
    BY DEF Actors
  <2> QED
    BY <1>1, <1>4, <2>1, <2>2, <2>3 DEF Projects, managerVars
<1>5. ASSUME NEW x \in {Queue, Registrar}, Binds(x)
      PROVE  Placed'
  BY <1>1, <1>5 DEF Binds, managerVars
<1>6. ASSUME NEW x \in {Queue, Registrar}, Reconciles(x)
      PROVE  Placed'
  <2>1. CASE auth = NoAuth
    BY <1>1, <1>6, <2>1 DEF Reconciles, AfterProjection
  <2>2. CASE auth # NoAuth
    <3>1. auth' # NoAuth
      BY <1>6, <2>2, NoAuthAssumption DEF Reconciles, Rewritten
    <3> QED
      BY <1>1, <1>6, <2>2, <3>1 DEF Reconciles
  <2> QED
    BY <2>1, <2>2
<1>7. CASE TakesUpdate
  BY <1>1, <1>7, NoAuthAssumption DEF TakesUpdate, managerVars
<1>8. CASE Registers \/ Updates
  BY <1>1, <1>8, NoAuthAssumption DEF Registers, Updates, Rewritten
<1>9. CASE TakesRemoval \/ Removes
  BY <1>1, <1>9 DEF TakesRemoval, Removes, managerVars
<1>10. CASE StartsPass
  BY <1>1, <1>10 DEF StartsPass, managerVars
<1>11. CASE LooksAgain
  BY <1>1, <1>11 DEF LooksAgain, managerVars, Enabled
<1>12. CASE Drops
  BY <1>1, <1>12 DEF Drops, managerVars
<1>13. CASE Elsewhere
  BY <1>1, <1>13 DEF Elsewhere, managerVars
<1> QED
  BY <1>2, <1>3, <1>4, <1>5, <1>6, <1>7, <1>8, <1>9, <1>10, <1>11, <1>12, <1>13 DEF Steps

-----------------------------------------------------------------------------
(* What the copies still say.                                              *)

\* A copy is of a registration that was made, and of the present one only with a
\* generation that was reached; of the same generation it is the credential itself.
CopyTrue(copy) ==
    /\ copy.registration <= registrations
    /\ auth # NoAuth /\ copy.registration = auth.registration =>
         /\ copy.generation <= auth.generation
         /\ copy.generation = auth.generation => copy = auth

\* What a goroutine knows of the registry is outdated or true.
ReadTrue(h) ==
    /\ h.epoch <= clients[Client].epoch
    /\ h.epoch = clients[Client].epoch => h.supported = Offered(Client)

Copied ==
    /\ auth # NoAuth => auth.registration \in 1..registrations
    /\ shown <= registrations
    /\ \A x \in Actors : actor[x].pc \in {"read", "project"} => CopyTrue(actor[x].copy)
    /\ \A x \in Actors : actor[x].pc = "project" => ReadTrue(actor[x])

\* A copy stays true while the credential is rewritten, replaced or removed.
LEMMA CopiesStayTrue ==
  ASSUME Ground, Ground', Copied,
         \/ UNCHANGED managerVars
         \/ auth # NoAuth /\ UNCHANGED registrations /\
              \E changed \in BOOLEAN : Rewritten(auth', auth, changed)
         \/ registrations' = registrations + 1 /\ (auth' # NoAuth => auth'.registration = registrations'),
         NEW copy \in AuthRecord, CopyTrue(copy)
  PROVE  CopyTrue(copy)'
<1>1. registrations \in Nat /\ copy.registration \in Nat /\ copy.generation \in Nat
  BY DEF AuthRecord, Ground, HeldTypes
<1>2. auth # NoAuth => auth \in AuthRecord /\ auth.registration \in Nat /\ auth.generation \in Nat
  BY HeldThings DEF AuthRecord
<1>3. CASE UNCHANGED managerVars
  BY <1>3 DEF CopyTrue, managerVars
<1>4. CASE auth # NoAuth /\ UNCHANGED registrations /\
             \E changed \in BOOLEAN : Rewritten(auth', auth, changed)
  <2>1. PICK changed \in BOOLEAN : Rewritten(auth', auth, changed)
    BY <1>4
  <2>2. CASE changed
    BY <1>1, <1>2, <1>4, <2>1, <2>2 DEF Rewritten, CopyTrue
  <2>3. CASE ~changed
    BY <1>1, <1>2, <1>4, <2>1, <2>3 DEF Rewritten, CopyTrue
  <2> QED
    BY <2>2, <2>3
<1>5. CASE registrations' = registrations + 1 /\ (auth' # NoAuth => auth'.registration = registrations')
  BY <1>1, <1>5 DEF CopyTrue
<1> QED
  BY <1>3, <1>4, <1>5

\* What was read stays outdated, or true as long as the client keeps its epoch.
LEMMA ReadsStayTrue ==
  ASSUME Ground, \/ /\ clients'[Client].epoch = clients[Client].epoch
                    /\ clients'[Client].copies = clients[Client].copies
                 \/ clients'[Client].epoch = clients[Client].epoch + 1,
         NEW h \in Holdings, ReadTrue(h)
  PROVE  ReadTrue(h)'
<1>1. clients[Client].epoch \in Nat /\ h.epoch \in Nat
  BY ActorsAssumption DEF Ground, Registry, RegistryTypes, Holdings
<1> QED
  BY <1>1 DEF ReadTrue, Offered

\* Copies that stay true, a goroutine that moves on: its new copy has to be true as well.
LEMMA MoversCopies ==
  ASSUME Ground, Copied,
         \A c \in AuthRecord : CopyTrue(c) => CopyTrue(c)',
         \A h \in Holdings : ReadTrue(h) => ReadTrue(h)',
         NEW x \in Actors, NEW pc, NEW copy, Moves(x, pc, copy),
         pc \in {"read", "project"} => CopyTrue(actor[x].copy)',
         pc = "project" => ReadTrue(actor[x])'
  PROVE  /\ \A y \in Actors : (actor[y].pc \in {"read", "project"} => CopyTrue(actor[y].copy))'
         /\ \A y \in Actors : (actor[y].pc = "project" => ReadTrue(actor[y]))'
<1>1. ASSUME NEW y \in Actors
      PROVE  /\ (actor[y].pc \in {"read", "project"} => CopyTrue(actor[y].copy))'
             /\ (actor[y].pc = "project" => ReadTrue(actor[y]))'
  <2>1. CASE y = x
    <3>1. actor'[y].pc = pc
      BY <2>1 DEF Moves
    <3> QED
      BY <2>1, <3>1
  <2>2. CASE y # x
    <3> DEFINE h == actor[y]
    <3>1. actor'[y] = h /\ h \in Holdings
      BY <2>2, HeldThings DEF Moves
    <3>2. h.pc \in {"read", "project"} => h.copy \in AuthRecord /\ CopyTrue(h.copy)
      BY HeldThings DEF Copied
    <3>3. h.pc = "project" => ReadTrue(h)
      BY DEF Copied
    <3>4. h.pc \in {"read", "project"} =>
            /\ h.copy.registration <= registrations'
            /\ auth' # NoAuth /\ h.copy.registration = auth'.registration =>
                 /\ h.copy.generation <= auth'.generation
                 /\ h.copy.generation = auth'.generation => h.copy = auth'
      BY <3>2 DEF CopyTrue
    <3>5. h.pc = "project" =>
            /\ h.epoch <= clients'[Client].epoch
            /\ h.epoch = clients'[Client].epoch => h.supported = Offered(Client)'
      BY <3>1, <3>3 DEF ReadTrue
    <3> HIDE DEF h
    <3> QED
      BY <3>1, <3>4, <3>5 DEF CopyTrue, ReadTrue
  <2> QED
    BY <2>1, <2>2
<1> QED
  BY <1>1

\* Every kind of step leaves the copies as true as that.
LEMMA CopiedStep ==
  ASSUME Ground, Ground', Copied, Steps
  PROVE  Copied'
<1> DEFINE CopiesKeep == \A c \in AuthRecord : CopyTrue(c) => CopyTrue(c)'
           ReadsKeep == \A h \in Holdings : ReadTrue(h) => ReadTrue(h)'
           All == /\ \A y \in Actors : (actor[y].pc \in {"read", "project"} =>
                                          CopyTrue(actor[y].copy))'
                  /\ \A y \in Actors : (actor[y].pc = "project" => ReadTrue(actor[y]))'
           Numbers == /\ auth' # NoAuth => auth'.registration \in 1..registrations'
                      /\ shown' <= registrations'
<1>1. /\ \A x \in Actors : actor[x] \in Holdings
      /\ \A x \in Actors : actor[x].pc \in {"read", "project"} => actor[x].copy \in AuthRecord
      /\ auth # NoAuth => auth \in AuthRecord
  BY HeldThings
<1>2. /\ registrations \in Nat /\ shown \in Nat /\ shown <= registrations
      /\ auth # NoAuth => auth.registration \in 1..registrations
      /\ clients[Client].epoch \in Nat
  BY ActorsAssumption DEF Ground, HeldTypes, Copied, Registry, RegistryTypes
<1>3. ASSUME UNCHANGED managerVars
      PROVE  CopiesKeep
  BY <1>3, CopiesStayTrue
<1>4. ASSUME UNCHANGED registryVars
      PROVE  ReadsKeep
  BY <1>4, ReadsStayTrue DEF registryVars
<1>5. ASSUME clients'[Client].epoch = clients[Client].epoch + 1
      PROVE  ReadsKeep
  BY <1>5, ReadsStayTrue
<1>6. ASSUME auth # NoAuth, UNCHANGED registrations, NEW changed \in BOOLEAN,
             Rewritten(auth', auth, changed)
      PROVE  CopiesKeep
  BY <1>6, CopiesStayTrue
<1>7. ASSUME NEW x \in Actors, actor'[x].copy = auth', Numbers, auth' \in AuthRecord
      PROVE  CopyTrue(actor[x].copy)'
  <2>1. auth' # NoAuth /\ registrations' \in Nat /\ auth'.generation \in Nat
    BY <1>7, NoAuthAssumption DEF AuthRecord, Ground, HeldTypes
  <2> QED
    BY <1>7, <2>1 DEF CopyTrue
<1>8. Numbers /\ All => Copied'
  BY DEF Copied
<1> HIDE DEF CopiesKeep, ReadsKeep, All
<1>9. ASSUME CopiesKeep, ReadsKeep, NEW x \in Actors, NEW pc, NEW copy, Moves(x, pc, copy),
             pc \in {"read", "project"} => CopyTrue(actor[x].copy)',
             pc = "project" => ReadTrue(actor[x])'
      PROVE  All
  BY <1>9, MoversCopies DEF CopiesKeep, ReadsKeep, All
<1>10. ASSUME NEW w \in Workers, Records(w)
       PROVE  Copied'
  <2>1. Rewritten(auth', auth, TRUE) /\ auth # NoAuth /\ UNCHANGED registrations
    BY <1>10 DEF Records
  <2>2. CopiesKeep /\ ReadsKeep
    BY <2>1, <1>4, <1>6, <1>10 DEF Records
  <2>3. Numbers
    BY <2>1, <1>2, <1>10 DEF Records, Rewritten
  <2>4. w \in Actors /\ Moves(w, "read", auth')
    BY <1>10, Apart DEF Records
  <2>5. CopyTrue(actor[w].copy)'
    BY <2>1, <2>3, <2>4, <1>7 DEF Rewritten, Moves
  <2>6. All
    BY <2>2, <2>4, <2>5, <1>9
  <2> QED
    BY <2>3, <2>6, <1>8
<1>11. ASSUME NEW w \in Workers, Reads(w)
       PROVE  Copied'
  <2>1. UNCHANGED <<registryVars, managerVars, shown>>
    BY <1>11 DEF Reads
  <2>2. CopiesKeep /\ ReadsKeep /\ Numbers
    BY <2>1, <1>2, <1>3, <1>4 DEF managerVars
  <2>3. w \in Actors /\ Moves(w, "project", actor[w].copy)
    BY <1>11, Apart DEF Reads
  <2>4. CopyTrue(actor[w].copy)'
    <3>1. actor[w].copy \in AuthRecord /\ CopyTrue(actor[w].copy)
      BY <2>3, <1>1, <1>11 DEF Reads, At, Copied
    <3>2. actor'[w].copy = actor[w].copy
      BY <2>3 DEF Moves
    <3> QED
      BY <2>1, <3>1, <3>2 DEF CopyTrue, managerVars
  <2>5. ReadTrue(actor[w])'
    BY <2>1, <1>2, <1>11 DEF Reads, ReadTrue, registryVars, Offered
  <2>6. All
    BY <2>2, <2>3, <2>4, <2>5, <1>9
  <2> QED
    BY <2>2, <2>6, <1>8
<1>12. ASSUME NEW x \in Actors, Projects(x)
       PROVE  Copied'
  <2>1. CopiesKeep
    BY <1>3, <1>12 DEF Projects
  <2>2. ReadsKeep
    <3>1. CASE Accepted(x)
      <4>1. /\ clients'[Client].epoch = clients[Client].epoch
            /\ clients'[Client].copies = clients[Client].copies
        <5>1. clients[Client] \in [provider : Providers \cup {NoProvider}, copies : [Models -> Nat],
                                   epoch : Nat, generation : Nat]
          BY ActorsAssumption DEF Ground, Registry, RegistryTypes
        <5> QED
          BY <3>1, <5>1 DEF Accepted
      <4> QED
        BY <4>1, ReadsStayTrue DEF ReadsKeep
    <3>2. CASE Refused(x)
      BY <3>2, <1>4 DEF Refused
    <3> QED
      BY <3>1, <3>2, <1>12 DEF Projects
  <2>3. Numbers
    <3>1. actor[x].copy.registration <= registrations
      BY <1>12 DEF Projects, At, Copied, CopyTrue
    <3>2. shown' \in {shown, actor[x].copy.registration}
      BY <1>12 DEF Projects, Accepted, Refused
    <3>3. UNCHANGED managerVars
      BY <1>12 DEF Projects
    <3> QED
      BY <3>1, <3>2, <3>3, <1>2 DEF managerVars
  <2>4. Moves(x, AfterProjection(x), NoAuth) /\ AfterProjection(x) \in {"idle", "lookAgain"}
    BY <1>12 DEF Projects, AfterProjection
  <2>5. All
    BY <2>1, <2>2, <2>4, <1>9
  <2> QED
    BY <2>3, <2>5, <1>8
<1>13. ASSUME NEW x \in {Queue, Registrar}, Binds(x)
       PROVE  Copied'
  <2>1. CopiesKeep /\ ReadsKeep
    BY <1>3, <1>5, <1>13 DEF Binds
  <2>2. Numbers
    BY <1>2, <1>13 DEF Binds, managerVars
  <2>3. x \in Actors /\ Moves(x, "reconcile", NoAuth)
    BY <1>13, Apart DEF Binds
  <2>4. All
    BY <2>1, <2>3, <1>9
  <2> QED
    BY <2>2, <2>4, <1>8
<1>14. ASSUME NEW x \in {Queue, Registrar}, Reconciles(x)
       PROVE  Copied'
  <2>1. ReadsKeep /\ x \in Actors
    BY <1>4, <1>14, Apart DEF Reconciles
  <2>2. CASE auth = NoAuth
    <3>1. /\ UNCHANGED managerVars /\ UNCHANGED shown
          /\ Moves(x, AfterProjection(x), NoAuth) /\ AfterProjection(x) \in {"idle", "lookAgain"}
      BY <1>14, <2>2 DEF Reconciles, managerVars, AfterProjection
    <3>2. CopiesKeep /\ Numbers
      BY <3>1, <1>2, <1>3 DEF managerVars
    <3>3. All
      BY <2>1, <3>1, <3>2, <1>9
    <3> QED
      BY <3>2, <3>3, <1>8
  <2>3. CASE auth # NoAuth
    <3>1. PICK changed \in BOOLEAN : Rewritten(auth', auth, changed)
      BY <1>14, <2>3 DEF Reconciles
    <3>2. UNCHANGED <<registrations, shown>> /\ Moves(x, "project", auth')
      BY <1>14, <2>3 DEF Reconciles
    <3>3. CopiesKeep
      BY <2>3, <3>1, <3>2, <1>6
    <3>4. Numbers
      BY <2>3, <3>1, <3>2, <1>2 DEF Rewritten
    <3>5. CopyTrue(actor[x].copy)'
      BY <2>1, <3>1, <3>2, <3>4, <1>7 DEF Rewritten, Moves
    <3>6. ReadTrue(actor[x])'
      BY <1>2, <1>14, <2>3 DEF Reconciles, ReadTrue, registryVars, Offered
    <3>7. All
      BY <2>1, <3>2, <3>3, <3>5, <3>6, <1>9
    <3> QED
      BY <3>4, <3>7, <1>8
  <2> QED
    BY <2>2, <2>3
<1>15. CASE TakesUpdate
  <2>1. UNCHANGED <<registryVars, managerVars, shown>>
    BY <1>15 DEF TakesUpdate
  <2>2. CopiesKeep /\ ReadsKeep /\ Numbers
    BY <2>1, <1>2, <1>3, <1>4 DEF managerVars
  <2>3. PICK a \in AuthRecord : Moves(Queue, IF auth = NoAuth THEN "register" ELSE "update", a)
    BY <1>15 DEF TakesUpdate
  <2>4. All
    BY <2>2, <2>3, <1>9, Apart
  <2> QED
    BY <2>2, <2>4, <1>8
<1>16. CASE Registers
  <2>1. /\ registrations' = registrations + 1 /\ auth'.registration = registrations'
        /\ UNCHANGED <<registryVars, shown>> /\ Moves(Queue, "bind", auth')
    BY <1>16 DEF Registers
  <2>2. CopiesKeep
    BY <2>1, CopiesStayTrue DEF CopiesKeep
  <2>3. ReadsKeep /\ Numbers
    BY <2>1, <1>2, <1>4
  <2>4. All
    BY <2>1, <2>2, <2>3, <1>9, Apart
  <2> QED
    BY <2>3, <2>4, <1>8
<1>17. CASE Updates
  <2>1. /\ Rewritten(auth', auth, TRUE) /\ auth # NoAuth
        /\ UNCHANGED <<registryVars, registrations, shown>> /\ Moves(Queue, "bind", auth')
    BY <1>17 DEF Updates, Ground, Placed
  <2>2. CopiesKeep /\ ReadsKeep
    BY <2>1, <1>4, <1>6
  <2>3. Numbers
    BY <2>1, <1>2 DEF Rewritten
  <2>4. All
    BY <2>1, <2>2, <1>9, Apart
  <2> QED
    BY <2>3, <2>4, <1>8
<1>18. CASE TakesRemoval
  <2>1. /\ UNCHANGED <<managerVars, shown>> /\ Moves(Queue, "remove", NoAuth)
        /\ clients'[Client].epoch = clients[Client].epoch + 1
    BY <1>18 DEF TakesRemoval, Leaves
  <2>2. CopiesKeep /\ ReadsKeep /\ Numbers
    BY <2>1, <1>2, <1>3, <1>5 DEF managerVars
  <2>3. All
    BY <2>1, <2>2, <1>9, Apart
  <2> QED
    BY <2>2, <2>3, <1>8
<1>19. CASE Removes
  <2>1. /\ auth' = NoAuth /\ registrations' = registrations + 1
        /\ UNCHANGED <<registryVars, shown>> /\ Moves(Queue, "idle", NoAuth)
    BY <1>19 DEF Removes
  <2>2. CopiesKeep
    BY <2>1, CopiesStayTrue DEF CopiesKeep
  <2>3. ReadsKeep /\ Numbers
    BY <2>1, <1>2, <1>4
  <2>4. All
    BY <2>1, <2>2, <2>3, <1>9, Apart
  <2> QED
    BY <2>3, <2>4, <1>8
<1>20. CASE StartsPass \/ LooksAgain
  <2>1. UNCHANGED <<registryVars, managerVars, shown>>
    BY <1>20 DEF StartsPass, LooksAgain
  <2>2. CopiesKeep /\ ReadsKeep /\ Numbers
    BY <2>1, <1>2, <1>3, <1>4 DEF managerVars
  <2>3. PICK pc \in {"bind", "drop"} : Moves(Registrar, pc, auth)
    BY <1>20 DEF StartsPass, LooksAgain
  <2>4. All
    BY <2>2, <2>3, <1>9, Apart
  <2> QED
    BY <2>2, <2>4, <1>8
<1>21. CASE Drops
  <2>1. /\ UNCHANGED <<managerVars, shown>> /\ Moves(Registrar, "idle", NoAuth)
        /\ clients'[Client].epoch = clients[Client].epoch + 1
    BY <1>21 DEF Drops, Leaves
  <2>2. CopiesKeep /\ ReadsKeep /\ Numbers
    BY <2>1, <1>2, <1>3, <1>5 DEF managerVars
  <2>3. All
    BY <2>1, <2>2, <1>9, Apart
  <2> QED
    BY <2>2, <2>3, <1>8
<1>22. CASE Elsewhere
  <2>1. UNCHANGED <<managerVars, shown, actor>> /\ clients'[Client] = clients[Client]
    BY <1>22 DEF Elsewhere
  <2>2. Numbers
    BY <2>1, <1>2 DEF managerVars
  <2>3. All
    BY <2>1 DEF All, Copied, CopyTrue, ReadTrue, Offered, managerVars
  <2> QED
    BY <2>2, <2>3, <1>8
<1> QED
  BY <1>10, <1>11, <1>12, <1>13, <1>14, <1>15, <1>16, <1>17, <1>18, <1>19, <1>20, <1>21, <1>22
     DEF Steps

-----------------------------------------------------------------------------
(* What the registry shows.                                                *)

\* The registry shows the credential as it is ...
Synced ==
    /\ clients[Client].generation = auth.generation
    /\ \A m \in Offered(Client) :
         models[m].marks[Client] = Projection(auth, Offered(Client))[m]

\* ... or something of another registration, with a generation that is not yet reached ...
Superseded ==
    /\ clients[Client].generation >= auth.generation
    /\ shown # auth.registration

\* ... or x is about to show the credential as it is.
WillShow(x) ==
    \/ actor[x].pc \in {"bind", "reconcile"}
    \/ actor[x].pc = "read" /\ actor[x].copy = auth
    \/ /\ actor[x].pc = "project" /\ actor[x].copy = auth
       /\ actor[x].epoch = clients[Client].epoch

Visible == auth # NoAuth /\ IsRegistered(Client)

NotAhead == shown = auth.registration => clients[Client].generation <= auth.generation

Shown == Visible => NotAhead /\ (Synced \/ Superseded \/ \E x \in Actors : WillShow(x))

\* An accepted projection leaves the registry in sync, superseded, or to somebody else.
LEMMA AcceptedShown ==
  ASSUME Ground, Ground', Copied, Shown, NEW x \in Actors, Projects(x), Accepted(x), Visible'
  PROVE  Shown'
<1> DEFINE h == actor[x]
           copy == h.copy
           entry == clients[Client]
<1>1. /\ UNCHANGED managerVars /\ At(x, "project") /\ Moves(x, AfterProjection(x), NoAuth)
      /\ entry.epoch = h.epoch /\ copy.generation >= entry.generation
      /\ clients'[Client] = [entry EXCEPT !.generation = copy.generation]
      /\ \A m \in h.supported \cap Offered(Client) :
           models'[m].marks[Client] = Projection(copy, h.supported)[m]
      /\ shown' = copy.registration
  BY DEF Projects, Accepted
<1>2. /\ entry.generation \in Nat /\ auth.generation \in Nat /\ copy.generation \in Nat
      /\ entry \in [provider : Providers \cup {NoProvider}, copies : [Models -> Nat],
                    epoch : Nat, generation : Nat]
      /\ auth \in AuthRecord
  <2>1. auth \in AuthRecord /\ copy \in AuthRecord
    BY <1>1, HeldThings DEF Visible, managerVars, At
  <2> QED
    BY <2>1, ActorsAssumption DEF AuthRecord, Ground, Registry, RegistryTypes
<1>3. /\ clients'[Client].epoch = entry.epoch /\ clients'[Client].copies = entry.copies
      /\ clients'[Client].generation = copy.generation
  BY <1>1, <1>2
<1>4. Offered(Client)' = Offered(Client) /\ Visible
  BY <1>1, <1>3 DEF Offered, Visible, IsRegistered, Nothing, managerVars
<1>5. auth' = auth
  BY <1>1 DEF managerVars
<1>6. CopyTrue(copy) /\ h.supported = Offered(Client)
  BY <1>1 DEF Copied, ReadTrue, At
<1>7. NotAhead'
  BY <1>1, <1>3, <1>4, <1>5, <1>6 DEF NotAhead, CopyTrue, Visible
<1>8. CASE copy = auth
  <2>1. Synced'
    BY <1>1, <1>3, <1>4, <1>5, <1>6, <1>8 DEF Synced, Projection
  <2> QED
    BY <1>7, <2>1 DEF Shown
<1>9. CASE \E y \in Actors \ {x} : WillShow(y)
  <2>1. PICK y \in Actors \ {x} : WillShow(y)
    BY <1>9
  <2>2. actor'[y] = actor[y]
    BY <1>1, <2>1 DEF Moves
  <2>3. WillShow(y)'
    BY <1>3, <1>5, <2>1, <2>2 DEF WillShow
  <2> QED
    BY <1>7, <2>1, <2>3 DEF Shown
<1>10. CASE copy # auth /\ ~\E y \in Actors \ {x} : WillShow(y)
  <2>1. ~WillShow(x)
    BY <1>1, <1>10 DEF WillShow, At
  <2>2. Synced \/ Superseded
    BY <1>4, <1>10, <2>1 DEF Shown
  <2>3. copy.registration # auth.registration
    <3>1. SUFFICES ASSUME copy.registration = auth.registration
                   PROVE  FALSE
      OBVIOUS
    <3>2. copy.generation < auth.generation
      BY <1>2, <1>4, <1>6, <1>10, <3>1 DEF CopyTrue, Visible
    <3>3. entry.generation >= auth.generation
      BY <1>2, <2>2 DEF Synced, Superseded
    <3> QED
      BY <1>1, <1>2, <3>2, <3>3
  <2>4. Superseded'
    <3>1. entry.generation >= auth.generation
      BY <1>2, <2>2 DEF Synced, Superseded
    <3>2. copy.generation >= auth.generation
      BY <1>1, <1>2, <3>1
    <3> QED
      BY <1>1, <1>3, <1>5, <2>3, <3>2 DEF Superseded
  <2> QED
    BY <1>7, <2>4 DEF Shown
<1> QED
  BY <1>8, <1>9, <1>10

\* A refused projection changes nothing; if it was of the credential as it is, the
\* registry was ahead of it.
LEMMA RefusedShown ==
  ASSUME Ground, Ground', Copied, Shown, NEW x \in Actors, Projects(x), Refused(x), Visible'
  PROVE  Shown'
<1> DEFINE h == actor[x]
           copy == h.copy
           entry == clients[Client]
<1>1. /\ UNCHANGED managerVars /\ At(x, "project") /\ Moves(x, AfterProjection(x), NoAuth)
      /\ UNCHANGED registryVars /\ UNCHANGED shown
      /\ ~Current(Client, h.epoch, copy.generation, Projection(copy, h.supported))
  BY DEF Projects, Refused
<1>2. UNCHANGED <<models, clients, auth>>
  BY <1>1 DEF registryVars, managerVars
<1>3. Offered(Client)' = Offered(Client) /\ Visible /\ IsRegistered(Client)
  BY <1>2 DEF Offered, Visible, IsRegistered, Nothing
<1>4. NotAhead' /\ NotAhead
  BY <1>1, <1>2, <1>3 DEF NotAhead, Shown
<1>5. /\ Synced => Synced'
      /\ Superseded => Superseded'
  BY <1>1, <1>2, <1>3 DEF Synced, Superseded, Projection
<1>6. ASSUME NEW y \in Actors \ {x}, WillShow(y)
      PROVE  WillShow(y)'
  <2>1. actor'[y] = actor[y]
    BY <1>1 DEF Moves
  <2> QED
    BY <1>2, <1>6, <2>1 DEF WillShow
<1>7. ASSUME WillShow(x)
      PROVE  Superseded
  <2>1. copy = auth /\ h.epoch = entry.epoch
    BY <1>1, <1>7 DEF WillShow, At
  <2>2. h.supported = Offered(Client)
    BY <1>1, <2>1 DEF Copied, ReadTrue, At
  <2>3. Offered(Client) # {}
    <3>1. entry.copies \in [Models -> Nat]
      BY ActorsAssumption DEF Ground, Registry, RegistryTypes
    <3>2. PICK m \in Models : entry.copies[m] # 0
      BY <1>3, <3>1 DEF IsRegistered, Nothing
    <3>3. m \in Offered(Client)
      BY <3>1, <3>2 DEF Offered
    <3> QED
      BY <3>3
  <2>4. DOMAIN Projection(copy, h.supported) = Offered(Client)
    BY <2>2 DEF Projection
  <2>5. ~(copy.generation >= entry.generation)
    BY <1>1, <1>3, <2>1, <2>3, <2>4 DEF Current
  <2>6. auth.generation \in Nat /\ entry.generation \in Nat
    BY <1>3, HeldThings, ActorsAssumption DEF Visible, AuthRecord, Ground, Registry, RegistryTypes
  <2> QED
    BY <1>4, <2>1, <2>5, <2>6 DEF NotAhead, Superseded
<1>8. Synced \/ Superseded \/ \E y \in Actors : WillShow(y)
  BY <1>3 DEF Shown
<1>9. Synced' \/ Superseded' \/ \E y \in Actors \ {x} : WillShow(y)'
  BY <1>5, <1>6, <1>7, <1>8
<1> QED
  BY <1>4, <1>9 DEF Shown

\* Every other kind of step leaves the credential shown, or somebody who is about to show it.
LEMMA ShownStep ==
  ASSUME Ground, Ground', Copied, Shown, Steps
  PROVE  Shown'
<1>1. /\ auth # NoAuth => auth \in AuthRecord /\ auth.generation \in Nat
      /\ clients[Client].generation \in Nat
      /\ registrations \in Nat
  BY HeldThings, ActorsAssumption DEF AuthRecord, Ground, Registry, RegistryTypes, HeldTypes
<1>2. ASSUME NotAhead', NEW x \in Actors, WillShow(x)'
      PROVE  Shown'
  BY <1>2 DEF Shown
<1>3. ASSUME ~Visible'
      PROVE  Shown'
  BY <1>3 DEF Shown
\* The credential and the client stay, and x, who was not about to show it, moves.
<1>4. ASSUME UNCHANGED <<auth, shown>>, UNCHANGED <<models, clients>>,
             NEW x \in Actors, NEW pc, NEW copy, Moves(x, pc, copy), ~WillShow(x)
      PROVE  Shown'
  <2>1. /\ Visible' => Visible
        /\ NotAhead => NotAhead'
        /\ Synced => Synced'
        /\ Superseded => Superseded'
    BY <1>4 DEF Visible, IsRegistered, Nothing, NotAhead, Synced, Superseded, Projection, Offered
  <2>2. ASSUME NEW y \in Actors, WillShow(y)
        PROVE  WillShow(y)'
    <3>1. actor'[y] = actor[y]
      BY <1>4, <2>2 DEF Moves
    <3> QED
      BY <1>4, <2>2, <3>1 DEF WillShow
  <2> QED
    BY <2>1, <2>2 DEF Shown
\* The credential is rewritten: what was not ahead of it is not now.
<1>5. ASSUME auth # NoAuth, UNCHANGED <<clients, shown>>, NEW changed \in BOOLEAN,
             Rewritten(auth', auth, changed), Visible'
      PROVE  NotAhead'
  <2>1. NotAhead
    BY <1>5 DEF Visible, IsRegistered, Nothing, Shown
  <2> QED
    BY <1>1, <1>5, <2>1 DEF NotAhead, Rewritten
<1>6. ASSUME NEW w \in Workers, Records(w)
      PROVE  Shown'
  <2>1. Visible' => NotAhead'
    BY <1>5, <1>6 DEF Records, registryVars
  <2>2. w \in Actors /\ WillShow(w)'
    BY <1>6, Apart DEF Records, Moves, WillShow
  <2> QED
    BY <2>1, <2>2, <1>2, <1>3
<1>7. ASSUME NEW w \in Workers, Reads(w)
      PROVE  Shown'
  <2>1. UNCHANGED <<models, clients, auth, shown>> /\ w \in Actors
    BY <1>7, Apart DEF Reads, registryVars, managerVars
  <2>2. CASE ~WillShow(w)
    BY <2>1, <2>2, <1>4, <1>7 DEF Reads
  <2>3. CASE WillShow(w)
    <3>1. actor[w].copy = auth
      BY <2>3, <1>7 DEF Reads, At, WillShow
    <3>2. WillShow(w)'
      BY <2>1, <3>1, <1>7 DEF Reads, Moves, WillShow
    <3>3. Visible' => NotAhead'
      BY <2>1 DEF Visible, IsRegistered, Nothing, Shown, NotAhead
    <3> QED
      BY <2>1, <3>2, <3>3, <1>2, <1>3
  <2> QED
    BY <2>2, <2>3
<1>8. ASSUME NEW x \in Actors, Projects(x)
      PROVE  Shown'
  <2>1. Accepted(x) \/ Refused(x)
    BY <1>8 DEF Projects
  <2> QED
    BY <2>1, <1>3, <1>8, AcceptedShown, RefusedShown
<1>9. ASSUME NEW x \in {Queue, Registrar}, Binds(x)
      PROVE  Shown'
  <2>1. x \in Actors /\ WillShow(x)'
    BY <1>9, Apart DEF Binds, Moves, WillShow
  <2>2. Visible' => NotAhead'
    BY <1>1, <1>9 DEF Binds, Visible, NotAhead, managerVars
  <2> QED
    BY <2>1, <2>2, <1>2, <1>3
<1>10. ASSUME NEW x \in {Queue, Registrar}, Reconciles(x)
       PROVE  Shown'
  <2>1. CASE auth = NoAuth
    BY <2>1, <1>3, <1>10 DEF Reconciles, Visible
  <2>2. CASE auth # NoAuth
    <3>1. x \in Actors /\ WillShow(x)'
      BY <2>2, <1>10, Apart DEF Reconciles, Moves, WillShow, registryVars
    <3>2. Visible' => NotAhead'
      BY <2>2, <1>5, <1>10 DEF Reconciles, registryVars
    <3> QED
      BY <3>1, <3>2, <1>2, <1>3
  <2> QED
    BY <2>1, <2>2
<1>11. CASE TakesUpdate
  <2>1. UNCHANGED <<auth, shown>> /\ UNCHANGED <<models, clients>>
    BY <1>11 DEF TakesUpdate, registryVars, managerVars
  <2>2. ~WillShow(Queue)
    BY <1>11 DEF TakesUpdate, At, WillShow
  <2>3. PICK a \in AuthRecord : Moves(Queue, IF auth = NoAuth THEN "register" ELSE "update", a)
    BY <1>11 DEF TakesUpdate
  <2> QED
    BY <2>1, <2>2, <2>3, <1>4, Apart
<1>12. CASE Registers
  <2>1. WillShow(Queue)'
    BY <1>12 DEF Registers, Moves, WillShow
  <2>2. NotAhead'
    <3>1. shown' <= registrations /\ shown' \in Nat
      BY <1>12 DEF Registers, Copied, Ground, HeldTypes
    <3> QED
      BY <3>1, <1>1, <1>12 DEF Registers, NotAhead
  <2> QED
    BY <2>1, <2>2, <1>2, Apart
<1>13. CASE Updates
  <2>1. WillShow(Queue)'
    BY <1>13 DEF Updates, Moves, WillShow
  <2>2. auth # NoAuth
    BY <1>13 DEF Updates, Ground, Placed
  <2>3. Visible' => NotAhead'
    BY <2>2, <1>5, <1>13 DEF Updates, registryVars
  <2> QED
    BY <2>1, <2>3, <1>2, <1>3, Apart
<1>14. CASE TakesRemoval \/ Removes \/ Drops
  BY <1>3, <1>14 DEF TakesRemoval, Removes, Drops, Leaves, Visible
<1>15. CASE StartsPass
  <2>1. UNCHANGED <<auth, shown>> /\ UNCHANGED <<models, clients>>
    BY <1>15 DEF StartsPass, registryVars, managerVars
  <2>2. ~WillShow(Registrar)
    BY <1>15 DEF StartsPass, At, WillShow
  <2> QED
    BY <2>1, <2>2, <1>4, <1>15, Apart DEF StartsPass
<1>16. CASE LooksAgain
  <2>1. UNCHANGED <<auth, shown>> /\ UNCHANGED <<models, clients>>
    BY <1>16 DEF LooksAgain, registryVars, managerVars
  <2>2. ~WillShow(Registrar)
    BY <1>16 DEF LooksAgain, At, WillShow
  <2> QED
    BY <2>1, <2>2, <1>4, <1>16, Apart DEF LooksAgain
<1>17. CASE Elsewhere
  <2>1. /\ UNCHANGED <<auth, shown, actor>> /\ clients'[Client] = clients[Client]
        /\ \A m \in Models : models'[m].marks[Client] = models[m].marks[Client]
    BY <1>17 DEF Elsewhere, managerVars
  <2>2. Offered(Client)' = Offered(Client) /\ (Visible' => Visible)
    BY <2>1 DEF Offered, Visible, IsRegistered, Nothing
  <2>3. Offered(Client) \subseteq Models
    BY DEF Offered
  <2>4. /\ NotAhead => NotAhead'
        /\ Synced => Synced'
        /\ Superseded => Superseded'
        /\ \A x \in Actors : WillShow(x) => WillShow(x)'
    BY <2>1, <2>2, <2>3 DEF NotAhead, Synced, Superseded, WillShow, Projection
  <2> QED
    BY <2>2, <2>4 DEF Shown
<1> QED
  BY <1>6, <1>7, <1>8, <1>9, <1>10, <1>11, <1>12, <1>13, <1>14, <1>15, <1>16, <1>17 DEF Steps

-----------------------------------------------------------------------------
(* Who has models.                                                         *)

Matches == IsRegistered(Client) <=> Enabled(auth)

\* The queue binds what it wrote.
QueueBinds == At(Queue, "bind") => actor[Queue].copy.disabled = auth.disabled

\* With the registrar at rest, the client is registered when the credential is enabled,
\* or the queue is about to see to it.
Served ==
    ~overlap /\ At(Registrar, "idle") =>
      /\ actor[Queue].pc \in {"idle", "reconcile", "project"} => Matches
      /\ At(Queue, "remove") => ~IsRegistered(Client)

\* In an unchecked pass without interference the queue rests, and the registrar knows
\* whether the credential is enabled.
Undisturbed ==
    ~overlap /\ Unchecked =>
      /\ At(Queue, "idle")
      /\ At(Registrar, "bind") => /\ auth # NoAuth
                                  /\ actor[Registrar].copy.disabled = auth.disabled
      /\ At(Registrar, "drop") => ~Enabled(auth)
      /\ actor[Registrar].pc \in {"reconcile", "project"} => Matches

Repaired == QueueBinds /\ Served /\ Undisturbed

\* Every kind of step leaves the registration right, or somebody who is about to repair it.
LEMMA RepairedStep ==
  ASSUME Ground, Ground', Repaired, Steps
  PROVE  Repaired'
<1> USE Apart DEF QueueBinds, Served, Undisturbed, Unchecked, At, Moves
<1>1. QueueBinds /\ Served /\ Undisturbed /\ Placed /\ overlap \in BOOLEAN
      /\ pass \in {"first", "last"}
  BY DEF Repaired, Ground, HeldTypes
<1>2. ASSUME auth # NoAuth, NEW changed \in BOOLEAN, Rewritten(auth', auth, changed),
             auth'.disabled = auth.disabled
      PROVE  auth' # NoAuth /\ Enabled(auth)' = Enabled(auth)
  BY <1>2, NoAuthAssumption DEF Rewritten, Enabled
<1>3. ASSUME UNCHANGED clients
      PROVE  IsRegistered(Client)' = IsRegistered(Client)
  BY <1>3 DEF IsRegistered, Nothing
<1>4. ASSUME UNCHANGED auth
      PROVE  Enabled(auth)' = Enabled(auth)
  BY <1>4 DEF Enabled
<1>5. ASSUME NEW w \in Workers, Records(w)
      PROVE  Repaired'
  <2>1. Matches' = Matches /\ IsRegistered(Client)' = IsRegistered(Client)
        /\ Enabled(auth)' = Enabled(auth) /\ auth' # NoAuth /\ auth'.disabled = auth.disabled
    BY <1>2, <1>3, <1>5 DEF Records, registryVars, Matches
  <2>2. /\ actor'[Queue] = actor[Queue] /\ actor'[Registrar] = actor[Registrar]
        /\ UNCHANGED <<pass, overlap>>
    BY <1>5 DEF Records
  <2> QED
    BY <1>1, <2>1, <2>2 DEF Repaired
<1>6. ASSUME NEW w \in Workers, Reads(w)
      PROVE  Repaired'
  <2>1. Matches' = Matches /\ IsRegistered(Client)' = IsRegistered(Client)
        /\ Enabled(auth)' = Enabled(auth) /\ auth' = auth
    BY <1>3, <1>4, <1>6 DEF Reads, registryVars, managerVars, Matches
  <2>2. /\ actor'[Queue] = actor[Queue] /\ actor'[Registrar] = actor[Registrar]
        /\ UNCHANGED <<pass, overlap>>
    BY <1>6 DEF Reads
  <2> QED
    BY <1>1, <2>1, <2>2 DEF Repaired
<1>7. ASSUME NEW x \in Actors, Projects(x)
      PROVE  Repaired'
  <2>1. IsRegistered(Client)' = IsRegistered(Client)
    <3>1. CASE Accepted(x)
      <4>1. clients'[Client].copies = clients[Client].copies
        <5>1. clients[Client] \in [provider : Providers \cup {NoProvider}, copies : [Models -> Nat],
                                   epoch : Nat, generation : Nat]
          BY ActorsAssumption DEF Ground, Registry, RegistryTypes
        <5> QED
          BY <3>1, <5>1 DEF Accepted
      <4> QED
        BY <4>1 DEF IsRegistered, Nothing
    <3>2. CASE Refused(x)
      BY <3>2, <1>3 DEF Refused, registryVars
    <3> QED
      BY <3>1, <3>2, <1>7 DEF Projects
  <2>2. /\ Enabled(auth)' = Enabled(auth) /\ auth' = auth /\ UNCHANGED <<pass, overlap>>
        /\ Matches' = Matches
    BY <2>1, <1>4, <1>7 DEF Projects, managerVars, Matches
  <2>3. CASE x \in Workers
    <3>1. actor'[Queue] = actor[Queue] /\ actor'[Registrar] = actor[Registrar]
      BY <2>3, <1>7 DEF Projects
    <3> QED
      BY <1>1, <2>1, <2>2, <3>1 DEF Repaired
  <2>4. CASE x = Queue
    <3>1. /\ actor[Queue].pc = "project" /\ actor'[Queue].pc = "idle"
          /\ actor'[Registrar] = actor[Registrar]
      BY <2>4, <1>7 DEF Projects, AfterProjection
    <3> QED
      BY <1>1, <2>1, <2>2, <3>1 DEF Repaired
  <2>5. CASE x = Registrar
    <3>1. /\ actor[Registrar].pc = "project" /\ actor'[Queue] = actor[Queue]
          /\ actor'[Registrar].pc = IF pass = "first" THEN "lookAgain" ELSE "idle"
      BY <2>5, <1>7 DEF Projects, AfterProjection
    <3> QED
      BY <1>1, <2>1, <2>2, <3>1 DEF Repaired
  <2> QED
    BY <2>3, <2>4, <2>5 DEF Actors
<1>8. ASSUME NEW x \in {Queue, Registrar}, Binds(x)
      PROVE  Repaired'
  <2>1. auth' = auth /\ Enabled(auth)' = Enabled(auth) /\ UNCHANGED <<pass, overlap>>
        /\ actor[x].pc = "bind" /\ actor'[x].pc = "reconcile"
    BY <1>4, <1>8 DEF Binds, managerVars
  <2>2. actor[x].copy.disabled = auth.disabled /\ auth # NoAuth => Matches'
    BY <2>1, <1>8 DEF Binds, Matches, Enabled
  <2>3. CASE x = Queue
    <3>1. actor'[Registrar] = actor[Registrar]
      BY <2>3, <1>8 DEF Binds
    <3>2. auth # NoAuth /\ Matches'
      BY <1>1, <2>1, <2>2, <2>3 DEF Placed
    <3> QED
      BY <1>1, <2>1, <2>3, <3>1, <3>2 DEF Repaired
  <2>4. CASE x = Registrar
    <3>1. actor'[Queue] = actor[Queue]
      BY <2>4, <1>8 DEF Binds
    <3> QED
      BY <1>1, <2>1, <2>2, <2>4, <3>1 DEF Repaired
  <2> QED
    BY <2>3, <2>4
<1>9. ASSUME NEW x \in {Queue, Registrar}, Reconciles(x)
      PROVE  Repaired'
  <2>1. IsRegistered(Client)' = IsRegistered(Client) /\ UNCHANGED <<pass, overlap>>
        /\ actor[x].pc = "reconcile"
    BY <1>3, <1>9 DEF Reconciles, registryVars
  <2>2. /\ Enabled(auth)' = Enabled(auth)
        /\ auth # NoAuth => auth' # NoAuth /\ auth'.disabled = auth.disabled
        /\ auth = NoAuth => auth' = NoAuth
    <3>1. CASE auth = NoAuth
      BY <3>1, <1>4, <1>9 DEF Reconciles
    <3>2. CASE auth # NoAuth
      BY <3>2, <1>2, <1>9 DEF Reconciles
    <3> QED
      BY <3>1, <3>2
  <2>3. Matches' = Matches
    BY <2>1, <2>2 DEF Matches
  <2>4. actor'[x].pc \in {"project", AfterProjection(x)}
    BY <1>9 DEF Reconciles
  <2>5. CASE x = Queue
    <3>1. actor'[Registrar] = actor[Registrar] /\ actor'[Queue].pc \in {"project", "idle"}
      BY <2>4, <2>5, <1>9 DEF Reconciles, AfterProjection
    <3> QED
      BY <1>1, <2>1, <2>3, <2>5, <3>1 DEF Repaired
  <2>6. CASE x = Registrar
    <3>1. /\ actor'[Queue] = actor[Queue]
          /\ actor'[Registrar].pc \in {"project", IF pass = "first" THEN "lookAgain" ELSE "idle"}
      BY <2>4, <2>6, <1>9 DEF Reconciles, AfterProjection
    <3>2. QueueBinds'
      BY <1>1, <2>2, <3>1 DEF Placed
    <3> QED
      BY <1>1, <2>1, <2>3, <2>6, <3>1, <3>2 DEF Repaired
  <2> QED
    BY <2>5, <2>6
<1>10. CASE TakesUpdate
  <2>1. /\ actor'[Queue].pc \in {"register", "update"} /\ actor'[Registrar] = actor[Registrar]
        /\ pass' = pass /\ overlap' = Unchecked
    BY <1>10 DEF TakesUpdate
  <2> QED
    BY <1>1, <2>1 DEF Repaired
<1>11. CASE Registers \/ Updates
  <2>1. /\ actor[Queue].pc \in {"register", "update"} /\ actor'[Queue].pc = "bind"
        /\ actor'[Queue].copy = auth' /\ actor'[Registrar] = actor[Registrar]
        /\ UNCHANGED <<pass, overlap>>
    BY <1>11 DEF Registers, Updates
  <2> QED
    BY <1>1, <2>1 DEF Repaired
<1>12. CASE TakesRemoval
  <2>1. /\ actor'[Queue].pc = "remove" /\ actor'[Registrar] = actor[Registrar]
        /\ pass' = pass /\ overlap' = Unchecked /\ ~IsRegistered(Client)'
    BY <1>12 DEF TakesRemoval, Leaves
  <2> QED
    BY <1>1, <2>1 DEF Repaired
<1>13. CASE Removes
  <2>1. /\ actor[Queue].pc = "remove" /\ actor'[Queue].pc = "idle"
        /\ actor'[Registrar] = actor[Registrar] /\ UNCHANGED <<pass, overlap>>
        /\ IsRegistered(Client)' = IsRegistered(Client) /\ auth' = NoAuth
    BY <1>3, <1>13 DEF Removes, registryVars
  <2>2. ~IsRegistered(Client) => Matches'
    BY <2>1 DEF Matches, Enabled
  <2> QED
    BY <1>1, <2>1, <2>2 DEF Repaired
<1>14. CASE StartsPass
  <2>1. /\ auth # NoAuth /\ auth' = auth /\ actor'[Queue] = actor[Queue]
        /\ actor'[Registrar].pc = "bind" /\ actor'[Registrar].copy = auth
        /\ pass' = "last" => overlap' = ~At(Queue, "idle")
        /\ pass' \in {"first", "last"}
    BY <1>14 DEF StartsPass, managerVars
  <2> QED
    BY <1>1, <2>1 DEF Repaired
<1>15. CASE LooksAgain
  <2>1. /\ auth' = auth /\ actor'[Queue] = actor[Queue]
        /\ actor'[Registrar].pc = IF Enabled(auth) THEN "bind" ELSE "drop"
        /\ actor'[Registrar].copy = auth
        /\ pass' = "last" /\ overlap' = ~At(Queue, "idle")
        /\ Enabled(auth)' = Enabled(auth)
    BY <1>4, <1>15 DEF LooksAgain, managerVars
  <2>2. Enabled(auth) => auth # NoAuth
    BY DEF Enabled
  <2> QED
    BY <1>1, <2>1, <2>2 DEF Repaired
<1>16. CASE Drops
  <2>1. /\ auth' = auth /\ actor'[Queue] = actor[Queue]
        /\ actor[Registrar].pc = "drop" /\ actor'[Registrar].pc = "idle"
        /\ UNCHANGED <<pass, overlap>> /\ ~IsRegistered(Client)'
        /\ Enabled(auth)' = Enabled(auth)
    BY <1>4, <1>16 DEF Drops, Leaves, managerVars
  <2>2. ~Enabled(auth) => Matches'
    BY <2>1 DEF Matches
  <2>3. pass = "last"
    BY <1>1, <2>1 DEF Placed
  <2> QED
    BY <1>1, <2>1, <2>2, <2>3 DEF Repaired
<1>17. CASE Elsewhere
  <2>1. /\ auth' = auth /\ actor' = actor /\ UNCHANGED <<pass, overlap>>
        /\ Enabled(auth)' = Enabled(auth) /\ IsRegistered(Client)' = IsRegistered(Client)
    BY <1>4, <1>17 DEF Elsewhere, managerVars, IsRegistered, Nothing
  <2> QED
    BY <1>1, <2>1 DEF Repaired, Matches
<1> QED
  BY <1>5, <1>6, <1>7, <1>8, <1>9, <1>10, <1>11, <1>12, <1>13, <1>14, <1>15, <1>16, <1>17 DEF Steps

-----------------------------------------------------------------------------
(* The theorems.                                                           *)

Inv == Ground /\ Copied /\ Shown /\ Repaired

\* In the beginning nothing is registered, and everybody rests.
LEMMA InitInv ==
  ASSUME Init
  PROVE  Inv
<1>1. /\ models = [m \in Models |-> Absent]
      /\ clients = [c \in Clients |-> Unknown]
      /\ availableModels = NoList
      /\ auth = NoAuth /\ registrations = 0 /\ shown = 0 /\ pass = "last" /\ overlap = FALSE
      /\ actor = [x \in Actors |-> AtRest]
  BY DEF Init, RegistryInit
<1>2. \A c \in Clients : ~IsRegistered(c)
  BY <1>1 DEF IsRegistered, Unknown
<1>3. RegistryTypes
  <2>1. Unknown \in [provider : Providers \cup {NoProvider}, copies : [Models -> Nat],
                     epoch : Nat, generation : Nat]
    BY DEF Unknown, Nothing
  <2>2. Absent \in Registrations
    BY AbsentFields
  <2> QED
    BY <1>1, <1>2, <2>1, <2>2 DEF RegistryTypes
<1>4. Recounted
  <2> SUFFICES ASSUME NEW m \in Models
               PROVE  Exact(models[m], CopiesOf(m), HomeOf)
    BY DEF Recounted
  <2>1. CopiesOf(m) \in Counts /\ HomeOf \in Homes
    BY <1>3 DEF RegistryTypes, CopiesOf, HomeOf, Counts, Homes
  <2>2. \A c \in Clients : CopiesOf(m)[c] = 0
    BY <1>1 DEF CopiesOf, Unknown, Nothing
  <2>3. models[m] = Absent
    BY <1>1
  <2> QED
    BY <2>1, <2>2, <2>3, AbsentExact
<1>5. Listing
  BY <1>1 DEF Listing
<1>6. HeldTypes
  <2>1. AtRest \in Holdings
    BY DEF AtRest, Holdings, PCs
  <2> QED
    BY <1>1, <2>1 DEF HeldTypes
<1>7. \A x \in Actors : actor[x].pc = "idle"
  BY <1>1 DEF AtRest
<1>8. Placed
  BY <1>7, Apart DEF Placed, At
<1>9. Copied
  BY <1>1, <1>7 DEF Copied
<1>10. Shown
  BY <1>1 DEF Shown, Visible
<1>11. Repaired
  BY <1>1, <1>2, <1>7, Apart, ActorsAssumption
     DEF Repaired, QueueBinds, Served, Undisturbed, Unchecked, At, Matches, Enabled
<1> QED
  BY <1>3, <1>4, <1>5, <1>6, <1>8, <1>9, <1>10, <1>11 DEF Inv, Ground, Registry

\* Every step keeps the invariant.
LEMMA NextInv ==
  ASSUME Inv, [Next]_vars
  PROVE  Inv'
<1>1. Ground /\ Copied /\ Shown /\ Repaired
  BY DEF Inv
<1>2. Steps /\ Registry'
  BY <1>1, StepKinds
<1>3. Ground'
  BY <1>1, <1>2, HeldTypesStep, PlacedStep DEF Ground
<1> QED
  BY <1>1, <1>2, <1>3, CopiedStep, ShownStep, RepairedStep DEF Inv

\* The invariant, in every behaviour of the registry, the manager and its goroutines.
THEOREM ProjectionInvariance == Spec => []Inv
<1>1. Init => Inv
  BY InitInv
<1>2. Inv /\ [Next]_vars => Inv'
  BY NextInv
<1> QED
  BY <1>1, <1>2, PTL DEF Spec

\* Types and places of all that is kept and held: the registry's entries, the manager's
\* credential, and what every goroutine does and has copied.
THEOREM ProjectionTypeCorrect == Spec => [](RegistryTypes /\ HeldTypes /\ Placed)
<1>1. Inv => RegistryTypes /\ HeldTypes /\ Placed
  BY DEF Inv, Ground, Registry
<1> QED
  BY <1>1, ProjectionInvariance, PTL

\* The registry's counters, marks and cached list are what a recount of the clients'
\* lists gives, after any sequence of registrations, exchanges, removals and projections.
THEOREM BookkeepingIsExact == Spec => []BookkeepingExact
<1>1. Inv => BookkeepingExact
  BY RecountedIsExact DEF Inv, Ground, Registry
<1> QED
  BY <1>1, ProjectionInvariance, PTL

\* Once all goroutines are done, the registry marks the models the latest state of the
\* credential blocks, unless what it shows is of an earlier registration.
THEOREM MarksFollowTheManager == Spec => []MarksFollowManager
<1>1. Inv => MarksFollowManager
  <2> SUFFICES ASSUME Inv, Quiet, auth # NoAuth, IsRegistered(Client), shown = auth.registration,
                      NEW m \in Offered(Client)
               PROVE  models[m].marks[Client] = Projection(auth, Offered(Client))[m]
    BY DEF MarksFollowManager
  <2>1. Synced \/ Superseded \/ \E x \in Actors : WillShow(x)
    BY DEF Inv, Shown, Visible
  <2>2. ~\E x \in Actors : WillShow(x)
    BY DEF Quiet, At, WillShow
  <2> QED
    BY <2>1, <2>2 DEF Synced, Superseded
<1> QED
  BY <1>1, ProjectionInvariance, PTL

\* Once all goroutines are done, the registry has models for the credential exactly if it
\* exists and is enabled, unless the queue interfered with an unchecked pass.
THEOREM RegistrationsMatch == Spec => []RegistrationsMatchCredentials
<1>1. Inv => RegistrationsMatchCredentials
  BY Apart DEF Inv, Repaired, Served, Quiet, At, Matches, RegistrationsMatchCredentials
<1> QED
  BY <1>1, ProjectionInvariance, PTL
=============================================================================
