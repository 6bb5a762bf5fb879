------------------------ MODULE RequestExecutionProofs ------------------------
(***************************************************************************)
(* Safety of RequestExecution for any requests, credentials, caps, retry   *)
(* limits, model pools and bounds on credentials.                          *)
(***************************************************************************)
EXTENDS RequestExecution, FiniteSetTheorems, TLAPS

-----------------------------------------------------------------------------
(* Types *)

\* Only errors of a call are judged after a call.
FailedWithError == \A r \in Requests : pc[r] = "failed" => pool[r].err \in CallErrors \union {"slow"}

\* A request has a credential exactly while it works with one.
Working == {"picked", "holding", "ready", "calling", "failed", "streaming", "draining",
            "closing"}
Between == {"idle", "picking", "deciding", "measuring", "waiting", "returned"}
CredPlaced ==
    \A r \in Requests : /\ pc[r] \in Working => cred[r] \in Creds
                        /\ pc[r] \in Between => cred[r] = NoCred

Typed == TypeOK /\ FailedWithError /\ CredPlaced

Blocks == {"free", "short", "long", "stuck"}

\* A result leaves its credential with one of the blocks.
LEMMA MarkResultTyped ==
    ASSUME TypeOK, NEW c \in Creds, NEW k \in CallErrors \union {"ok", "slow"},
           MarkResult(c, k)
    PROVE blocked' \in [Creds -> Blocks]
<1>1. After(c, k) \subseteq Blocks
  BY SettingAssumption DEF After, CallErrors, TypeOK, Blocks
<1> QED BY <1>1 DEF MarkResult, TypeOK, Blocks

\* No request has started.
LEMMA InitTyped == Init => Typed
BY DEF Init, Typed, TypeOK, FailedWithError, CredPlaced, Working, Between, PCs, FreshWalk, FreshPool, None

\* A request that returns leaves nothing of its walk.
LEMMA ForgetTyped ==
    ASSUME TypeOK, NEW r \in Requests, Forget(r)
    PROVE /\ round' \in [Requests -> Nat]
          /\ walk' \in [Requests ->
                   [tried : SUBSET Creds, attempted : SUBSET Creds,
                    err : Errors \union {None}, up : BOOLEAN, full : BOOLEAN]]
          /\ pool' \in [Requests ->
                   [model : Nat, same : Nat, refreshed : BOOLEAN,
                    err : Errors \union {None}]]
          /\ calls' \in [Requests -> [Creds -> Nat]]
          /\ \A q \in Requests : q # r => pool'[q] = pool[q]
BY DEF Forget, TypeOK, FreshWalk, FreshPool

\* A new round starts with a new walk.
LEMMA NextRoundTyped ==
    ASSUME TypeOK, NEW r \in Requests, NextRound(r)
    PROVE /\ pc' \in [Requests -> PCs]
          /\ cred' \in [Requests -> Creds \union {NoCred}]
          /\ round' \in [Requests -> Nat]
          /\ walk' \in [Requests ->
                   [tried : SUBSET Creds, attempted : SUBSET Creds,
                    err : Errors \union {None}, up : BOOLEAN, full : BOOLEAN]]
          /\ pc' = [pc EXCEPT ![r] = "loopTop"]
<1>1. Excluded(round[r] + 1) \in SUBSET Creds
  BY DEF Excluded
<1> QED BY <1>1 DEF NextRound, TypeOK, FreshWalk, PCs

\* Releasing a connection leaves a count.
LEMMA ReleasedTyped ==
    ASSUME TypeOK, NEW c \in Creds \union {NoCred}
    PROVE Released(c) \in [Creds -> Nat]
BY DEF TypeOK, Released


Walks == [tried : SUBSET Creds, attempted : SUBSET Creds,
          err : Errors \union {None}, up : BOOLEAN, full : BOOLEAN]
Pools == [model : Nat, same : Nat, refreshed : BOOLEAN, err : Errors \union {None}]

\* One request moves; what it may not get wrong.
LEMMA Moves ==
    ASSUME Typed, NEW r \in Requests, NEW p \in PCs,
           pc' = [pc EXCEPT ![r] = p],
           cred' \in [Requests -> Creds \union {NoCred}],
           \A q \in Requests : q # r => cred'[q] = cred[q] /\ pool'[q] = pool[q],
           p \in Working => cred'[r] \in Creds,
           p \in Between => cred'[r] = NoCred,
           p = "failed" => pool'[r].err \in CallErrors \union {"slow"},
           round' \in [Requests -> Nat],
           walk' \in [Requests -> Walks],
           pool' \in [Requests -> Pools],
           conn' \in [Creds -> Nat],
           blocked' \in [Creds -> Blocks],
           calls' \in [Requests -> [Creds -> Nat]],
           reached' \in [Requests -> BOOLEAN]
    PROVE Typed'
<1>1. TypeOK'
  BY DEF Typed, TypeOK, Walks, Pools, Blocks
<1>2. FailedWithError'
  BY DEF Typed, TypeOK, FailedWithError
<1>3. CredPlaced'
  BY DEF Typed, TypeOK, CredPlaced
<1> QED BY <1>1, <1>2, <1>3 DEF Typed

\* Marking a walk leaves a walk.
LEMMA WalkRecords ==
    ASSUME NEW w \in Walks
    PROVE /\ \A S \in SUBSET Creds : [w EXCEPT !.tried = S] \in Walks
          /\ \A S \in SUBSET Creds : [w EXCEPT !.attempted = S] \in Walks
          /\ \A e \in Errors \union {None} : [w EXCEPT !.err = e] \in Walks
          /\ [w EXCEPT !.full = TRUE] \in Walks
          /\ [w EXCEPT !.up = TRUE] \in Walks
<1>1. \A S \in SUBSET Creds : [w EXCEPT !.tried = S] \in Walks
  BY DEF Walks
<1>2. \A S \in SUBSET Creds : [w EXCEPT !.attempted = S] \in Walks
  BY DEF Walks
<1>3. \A e \in Errors \union {None} : [w EXCEPT !.err = e] \in Walks
  BY DEF Walks
<1>4. [w EXCEPT !.full = TRUE] \in Walks
  BY DEF Walks
<1>5. [w EXCEPT !.up = TRUE] \in Walks
  BY DEF Walks
<1> QED BY <1>1, <1>2, <1>3, <1>4, <1>5

\* So does marking the walk of one request.
LEMMA WalkTyped ==
    ASSUME walk \in [Requests -> Walks], NEW r \in Requests
    PROVE /\ \A S \in SUBSET Creds : [walk EXCEPT ![r].tried = S] \in [Requests -> Walks]
          /\ \A S \in SUBSET Creds : [walk EXCEPT ![r].attempted = S] \in [Requests -> Walks]
          /\ \A e \in Errors \union {None} : [walk EXCEPT ![r].err = e] \in [Requests -> Walks]
          /\ [walk EXCEPT ![r].full = TRUE] \in [Requests -> Walks]
          /\ \A e \in Errors : [walk EXCEPT ![r].err = e, ![r].up = TRUE] \in [Requests -> Walks]
          /\ \A S \in SUBSET Creds, e \in Errors \union {None} :
               [walk EXCEPT ![r].attempted = S, ![r].err = e] \in [Requests -> Walks]
<1>0. walk[r] \in Walks /\ \A w \in Walks : [walk EXCEPT ![r] = w] \in [Requests -> Walks]
  OBVIOUS
<1>1. \A S \in SUBSET Creds : [walk EXCEPT ![r].tried = S] \in [Requests -> Walks]
  BY <1>0, WalkRecords
<1>2. \A S \in SUBSET Creds : [walk EXCEPT ![r].attempted = S] \in [Requests -> Walks]
  BY <1>0, WalkRecords
<1>3. \A e \in Errors \union {None} : [walk EXCEPT ![r].err = e] \in [Requests -> Walks]
  BY <1>0, WalkRecords
<1>4. [walk EXCEPT ![r].full = TRUE] \in [Requests -> Walks]
  BY <1>0, WalkRecords
<1>5. \A e \in Errors : [walk EXCEPT ![r].err = e, ![r].up = TRUE] \in [Requests -> Walks]
  <2> TAKE e \in Errors
  <2>1. [walk EXCEPT ![r].err = e] \in [Requests -> Walks]
    BY <1>3
  <2>2. [walk[r] EXCEPT !.err = e] \in Walks
    BY <1>0, WalkRecords
  <2> QED BY <1>0, <2>1, <2>2, WalkRecords
<1>6. \A S \in SUBSET Creds, e \in Errors \union {None} :
        [walk EXCEPT ![r].attempted = S, ![r].err = e] \in [Requests -> Walks]
  <2> TAKE S \in SUBSET Creds, e \in Errors \union {None}
  <2>2. [walk[r] EXCEPT !.attempted = S] \in Walks
    BY <1>0, WalkRecords
  <2> QED BY <1>0, <1>2, <2>2, WalkRecords
<1> QED BY <1>1, <1>2, <1>3, <1>4, <1>5, <1>6

\* Marking a pool leaves a pool.
LEMMA PoolRecords ==
    ASSUME NEW w \in Pools
    PROVE /\ \A e \in Errors \union {None} : [w EXCEPT !.err = e] \in Pools
          /\ [w EXCEPT !.same = @ + 1] \in Pools
<1>1. \A e \in Errors \union {None} : [w EXCEPT !.err = e] \in Pools
  BY DEF Pools
<1>2. [w EXCEPT !.same = @ + 1] \in Pools
  BY DEF Pools
<1> QED BY <1>1, <1>2

\* The next model starts with a fresh pool that remembers a refresh.
LEMMA FreshPools ==
    ASSUME NEW w \in Pools
    PROVE /\ FreshPool \in Pools
          /\ [FreshPool EXCEPT !.model = w.model + 1, !.refreshed = w.refreshed] \in Pools
<1>1. FreshPool \in Pools
  BY DEF FreshPool, Pools
<1>2. w.model + 1 \in Nat /\ w.refreshed \in BOOLEAN
  BY DEF Pools
<1>3. \A m \in Nat : [FreshPool EXCEPT !.model = m] \in Pools
  BY <1>1 DEF Pools
<1>4. \A v \in Pools, b \in BOOLEAN : [v EXCEPT !.refreshed = b] \in Pools
  BY DEF Pools
<1> QED BY <1>1, <1>2, <1>3, <1>4

\* A request with a credential it has no lease of is neither between credentials nor failed.
LEMMA PickedPlace == "picked" \in PCs /\ "picked" \notin Between /\ "picked" # "failed"
  BY DEF Between, PCs

\* Every step of a request keeps the types.
LEMMA StepTyped ==
    ASSUME Typed, NEW r \in Requests, Start(r) \/ Step(r) \/ Forward(r)
    PROVE Typed'
<1>0. /\ TypeOK
      /\ walk \in [Requests -> Walks]
      /\ pool \in [Requests -> Pools]
      /\ blocked \in [Creds -> Blocks]
      /\ cred \in [Requests -> Creds \union {NoCred}]
      /\ round \in [Requests -> Nat]
      /\ conn \in [Creds -> Nat]
      /\ calls \in [Requests -> [Creds -> Nat]]
      /\ reached \in [Requests -> BOOLEAN]
      /\ pc[r] \in Working => cred[r] \in Creds
      /\ pc[r] = "failed" => pool[r].err \in CallErrors \union {"slow"}
  BY DEF Typed, TypeOK, Walks, Pools, Blocks, CredPlaced, FailedWithError
<1>1. CASE Start(r)
  BY <1>1 DEF Start, Typed, TypeOK, FailedWithError, CredPlaced, Working, Between, PCs, Goto, loopVars
<1>2. CASE LoopTop(r)
  BY <1>2, ReleasedTyped DEF LoopTop, Typed, TypeOK, FailedWithError, CredPlaced, Working, Between, PCs, Goto, loopVars
<1>3. CASE \E c \in Creds : Pick(r, c)
  <2>1. PICK c \in Creds : Pick(r, c)
    BY <1>3
  <2>2. walk' \in [Requests -> Walks]
    <3>1. walk[r].tried \union {c} \in SUBSET Creds
      BY <1>0 DEF Walks
    <3>2. walk' = [walk EXCEPT ![r].tried = walk[r].tried \union {c}]
      BY <2>1 DEF Pick
    <3> QED BY <1>0, <3>1, <3>2, WalkTyped
  <2>3. cred' \in [Requests -> Creds \union {NoCred}] /\ cred'[r] = c
    BY <1>0, <2>1 DEF Pick, TypeOK
  <2>4. /\ pc' = [pc EXCEPT ![r] = "picked"]
        /\ UNCHANGED <<round, pool, conn, blocked, calls, reached>>
    BY <2>1 DEF Pick, Goto
  <2>5. \A q \in Requests : q # r => cred'[q] = cred[q]
    BY <1>0, <2>1 DEF Pick
  <2> QED BY <1>0, <2>2, <2>3, <2>4, <2>5, PickedPlace, Moves
<1>4. CASE PickFails(r)
  <2>1. walk' \in [Requests -> Walks]
    <3>1. PICK e \in Errors \union {None} : walk' = [walk EXCEPT ![r].err = e]
      <4>1. walk[r].err \in Errors \union {None}
        BY <1>0 DEF Walks
      <4>2. CASE walk[r].err # None
        BY <1>4, <4>1, <4>2 DEF PickFails
      <4>3. CASE walk[r].err = None /\ walk[r].full
        <5>1. walk' = [walk EXCEPT ![r].err = "full"]
          BY <1>4, <4>3 DEF PickFails
        <5> QED BY <5>1 DEF Errors
      <4>4. CASE walk[r].err = None /\ ~walk[r].full
        <5>1. \/ walk' = [walk EXCEPT ![r].err = "cooldown"]
              \/ walk' = [walk EXCEPT ![r].err = "other"]
          BY <1>4, <4>4 DEF PickFails
        <5> QED BY <5>1 DEF Errors, CallErrors
      <4> QED BY <4>2, <4>3, <4>4
    <3> QED BY <1>0, <3>1, WalkTyped
  <2>2. pc[r] = "picking" /\ cred[r] = NoCred
    BY <1>4 DEF PickFails, Goto, Typed, CredPlaced, Between
  <2> QED BY <1>0, <1>4, <2>1, <2>2, Moves DEF PickFails, Working, Between, PCs, Goto, loopVars
<1>5. CASE Hold(r)
  <2>1. cred[r] \in Creds /\ pc[r] = "picked"
    BY <1>0, <1>5 DEF Hold, Working
  <2>2. CASE Cap[cred[r]] > 0 /\ conn[cred[r]] >= Cap[cred[r]]
    <3>1. walk' = [walk EXCEPT ![r].full = TRUE]
      BY <1>5, <2>2 DEF Hold
    <3>2. walk' \in [Requests -> Walks]
      BY <1>0, <3>1, WalkTyped
    <3>3. /\ cred' = [cred EXCEPT ![r] = NoCred]
          /\ pc' = [pc EXCEPT ![r] = "loopTop"]
          /\ UNCHANGED <<conn, round, pool, blocked, calls, reached>>
      BY <1>5, <2>2 DEF Hold
    <3> QED BY <1>0, <3>2, <3>3, Moves DEF TypeOK, Working, Between, PCs
  <2>3. CASE ~(Cap[cred[r]] > 0 /\ conn[cred[r]] >= Cap[cred[r]])
    <3>1. conn' \in [Creds -> Nat] /\ pc' = [pc EXCEPT ![r] = "holding"]
            /\ UNCHANGED <<cred, walk, round, pool, blocked, calls, reached>>
      <4>1. conn' = [conn EXCEPT ![cred[r]] = @ + 1]
        BY <1>5, <2>3 DEF Hold
      <4> QED BY <1>0, <1>5, <2>1, <2>3, <4>1 DEF Hold, TypeOK
    <3> QED BY <1>0, <2>1, <3>1, Moves DEF TypeOK, Working, Between, PCs
  <2> QED BY <2>2, <2>3
<1>6. CASE NoModels(r)
  BY <1>6 DEF NoModels, Typed, TypeOK, FailedWithError, CredPlaced, Working, Between, PCs, Goto, loopVars
<1>7. CASE Prepared(r)
  <2>1. cred[r] \in Creds /\ walk[r].attempted \in SUBSET Creds
    BY <1>0, <1>7 DEF Prepared, Goto, Working, Walks
  <2>2. walk' \in [Requests -> Walks]
    <3>1. walk[r].attempted \union {cred[r]} \in SUBSET Creds
      BY <2>1
    <3>2. walk' = [walk EXCEPT ![r].attempted = walk[r].attempted \union {cred[r]}]
      BY <1>7 DEF Prepared
    <3> QED BY <1>0, <3>1, <3>2, WalkTyped
  <2>3. /\ pc' = [pc EXCEPT ![r] = "ready"]
        /\ UNCHANGED <<cred, round, pool, conn, blocked, calls, reached>>
    BY <1>7 DEF Prepared, Goto
  <2>4. "ready" \in PCs /\ "ready" \notin Between /\ "ready" # "failed"
    BY DEF Between, PCs
  <2> QED BY <1>0, <2>1, <2>2, <2>3, <2>4, Moves
<1>8. CASE \E k \in CallErrors : PrepareFails(r, k)
  <2>1. PICK k \in CallErrors : PrepareFails(r, k)
    BY <1>8
  <2>2. cred[r] \in Creds /\ walk[r].attempted \in SUBSET Creds
          /\ walk[r].err \in Errors \union {None} /\ k \in Errors
    BY <1>0, <2>1 DEF PrepareFails, Goto, Working, Walks, Errors
  <2>3. walk' \in [Requests -> Walks]
    <3>1. PICK S \in SUBSET Creds, e \in Errors \union {None} :
            walk' = [walk EXCEPT ![r].attempted = S, ![r].err = e]
      BY <1>0, <2>1, <2>2 DEF PrepareFails
    <3> QED BY <1>0, <3>1, WalkTyped
  <2>4. blocked' \in [Creds -> Blocks]
    BY <1>0, <2>1, <2>2, MarkResultTyped DEF PrepareFails
  <2> QED BY <1>0, <2>1, <2>3, <2>4, Moves DEF PrepareFails, Working, Between, PCs, Goto, loopVars
<1>9. CASE BeginCall(r)
  BY <1>9 DEF BeginCall, Typed, TypeOK, FailedWithError, CredPlaced, Working, Between, PCs, Goto, loopVars
<1>10. CASE Terminate(r)
  BY <1>10 DEF Terminate, Typed, TypeOK, FailedWithError, CredPlaced, Working, Between, PCs, Goto, loopVars
<1>11. CASE \E k \in ErrorsOf(r) : CallFails(r, k)
  <2>1. PICK k \in CallErrors \union {"slow"} : CallFails(r, k)
    BY <1>11 DEF ErrorsOf
  <2>2. k \in Errors
    BY DEF Errors
  <2>3. walk' \in [Requests -> Walks] /\ cred[r] \in Creds
    BY <1>0, <2>1, <2>2, WalkTyped DEF CallFails, Goto, Working
  <2>4. pool' \in [Requests -> Pools] /\ pool'[r].err = k
    <3>1. [pool[r] EXCEPT !.err = k] \in Pools
      BY <1>0, <2>2, PoolRecords
    <3>2. pool' = [pool EXCEPT ![r].err = k]
      BY <2>1 DEF CallFails
    <3>3. pool[r] \in Pools /\ pool' = [pool EXCEPT ![r] = [pool[r] EXCEPT !.err = k]]
      BY <1>0, <3>2
    <3>4. [pool[r] EXCEPT !.err = k].err = k
      BY <3>3 DEF Pools
    <3>5. pool' \in [Requests -> Pools]
      BY <1>0, <3>1, <3>3
    <3>6. pool'[r] = [pool[r] EXCEPT !.err = k]
      BY <1>0, <3>3
    <3> QED BY <3>4, <3>5, <3>6
  <2>5. /\ pc' = [pc EXCEPT ![r] = "failed"]
        /\ UNCHANGED <<cred, round, conn, blocked, calls, reached>>
        /\ \A q \in Requests : q # r => pool'[q] = pool[q]
    BY <1>0, <2>1 DEF CallFails, Goto
  <2> QED BY <1>0, <2>3, <2>4, <2>5, Moves DEF Working, Between, PCs
<1>12. CASE CallSucceeds(r)
  <2>1. cred[r] \in Creds /\ pc[r] = "calling"
    BY <1>0, <1>12 DEF CallSucceeds, Goto, Working
  <2>2. blocked' \in [Creds -> Blocks]
    BY <1>0, <1>12, <2>1, MarkResultTyped DEF CallSucceeds
  <2> QED BY <1>0, <1>12, <2>1, <2>2, Moves DEF CallSucceeds, Working, Between, PCs, Goto, loopVars
<1>13. CASE Refresh(r)
  BY <1>13 DEF Refresh, None, Typed, TypeOK, FailedWithError, CredPlaced, Working, Between, PCs, Goto, loopVars
<1>14. CASE RetrySame(r)
  <2>1. cred[r] \in Creds /\ pc[r] = "failed"
    BY <1>0, <1>14 DEF RetrySame, Working
  <2>2. pool' \in [Requests -> Pools] /\ calls' \in [Requests -> [Creds -> Nat]]
          /\ \A q \in Requests : q # r => pool'[q] = pool[q]
    <3>1. [pool[r] EXCEPT !.same = @ + 1] \in Pools
      BY <1>0, PoolRecords
    <3>2. [pool[r] EXCEPT !.same = @ + 1, !.err = None] \in Pools
      BY <3>1, PoolRecords
    <3>3. pool' = [pool EXCEPT ![r].same = @ + 1, ![r].err = None]
      BY <1>14 DEF RetrySame
    <3>4. calls' = calls \/ calls' = [calls EXCEPT ![r][cred[r]] = @ + 1]
      BY <1>14 DEF RetrySame
    <3>5. calls' \in [Requests -> [Creds -> Nat]]
      <4>1. calls \in [Requests -> [Creds -> Nat]]
        BY <1>0 DEF TypeOK
      <4>2. [calls[r] EXCEPT ![cred[r]] = @ + 1] \in [Creds -> Nat]
        BY <2>1, <4>1
      <4> QED BY <3>4, <4>1, <4>2
    <3> QED BY <1>0, <3>2, <3>3, <3>5
  <2>3. CASE r \in Streams
    BY <1>0, <1>14, <2>1, <2>2, <2>3, Moves DEF RetrySame, TypeOK, Working, Between, PCs, Goto, loopVars
  <2>4. CASE r \notin Streams
    BY <1>0, <1>14, <2>1, <2>2, <2>4, Moves DEF RetrySame, TypeOK, Working, Between, PCs, Goto, loopVars
  <2> QED BY <2>3, <2>4
<1>15. CASE StopRequest(r)
  <2>1. cred[r] \in Creds /\ pc[r] = "failed"
    BY <1>0, <1>15 DEF StopRequest, Goto, Working
  <2>2. blocked' \in [Creds -> Blocks]
    BY <1>0, <1>15, <2>1, MarkResultTyped DEF StopRequest, CallErrors
  <2> QED BY <1>0, <1>15, <2>1, <2>2, Moves DEF StopRequest, Working, Between, PCs, Goto, loopVars
<1>16. CASE NextModel(r)
  <2>1. cred[r] \in Creds /\ pc[r] = "failed" /\ pool[r].err \in CallErrors \union {"slow"}
    BY <1>0, <1>16 DEF NextModel, Working
  <2>2. blocked' \in [Creds -> Blocks]
    BY <1>0, <1>16, <2>1, MarkResultTyped DEF NextModel
  <2>3. pool' \in [Requests -> Pools] /\ \A q \in Requests : q # r => pool'[q] = pool[q]
    <3>1. FreshPool \in Pools
            /\ [FreshPool EXCEPT !.model = pool[r].model + 1, !.refreshed = pool[r].refreshed] \in Pools
      BY <1>0, FreshPools
    <3> QED BY <1>0, <1>16, <3>1 DEF NextModel
  <2>4. \/ pc' = [pc EXCEPT ![r] = "loopTop"]
        \/ pc' = [pc EXCEPT ![r] = "ready"]
    BY <1>16 DEF NextModel
  <2>5. UNCHANGED <<cred, loopVars, conn, calls, reached>>
    BY <1>16 DEF NextModel
  <2> QED BY <1>0, <2>1, <2>2, <2>3, <2>4, <2>5, Moves DEF Working, Between, PCs, loopVars
<1>17. CASE Bootstrapped(r)
  BY <1>17, ForgetTyped DEF Bootstrapped, Typed, TypeOK, FailedWithError, CredPlaced, Working, Between, PCs, Goto, loopVars
<1>18. CASE Forward(r)
  BY <1>18 DEF Forward, Typed, TypeOK, FailedWithError, CredPlaced, Working, Between, PCs, Goto, loopVars
<1>19. CASE StreamEnds(r)
  <2>1. cred[r] \in Creds /\ pc[r] = "streaming"
    BY <1>0, <1>19 DEF StreamEnds, Goto, Working
  <2>2. blocked' \in [Creds -> Blocks]
    BY <1>0, <1>19, <2>1, MarkResultTyped DEF StreamEnds
  <2> QED BY <1>0, <1>19, <2>1, <2>2, Moves DEF StreamEnds, Working, Between, PCs, Goto, loopVars
<1>20. CASE StreamCancelled(r)
  BY <1>20, ReleasedTyped DEF StreamCancelled, Typed, TypeOK, FailedWithError, CredPlaced, Working, Between, PCs, Goto, loopVars
<1>21. CASE Drained(r)
  <2>1. cred[r] \in Creds
    BY <1>0, <1>21 DEF Drained, Goto, Working
  <2>2. blocked' \in [Creds -> Blocks]
    BY <1>0, <1>21, <2>1, MarkResultTyped DEF Drained
  <2> QED BY <1>0, <1>21, <2>2, Moves DEF Drained, Working, Between, PCs, Goto, loopVars
<1>22. CASE Return(r)
  BY <1>22, ForgetTyped, ReleasedTyped DEF Return, Typed, TypeOK, FailedWithError, CredPlaced, Working, Between, PCs, Goto, loopVars
<1>23. CASE RetryAllowed(r)
  BY <1>23 DEF RetryAllowed, Typed, TypeOK, FailedWithError, CredPlaced, Working, Between, PCs, Goto, loopVars
<1>24. CASE ClosestCooldownWait(r) \/ Wait(r)
  <2>1. cred[r] = NoCred /\ UNCHANGED <<pool, conn, blocked, calls, reached>>
    BY <1>24 DEF ClosestCooldownWait, Wait, Typed, CredPlaced, Between
  <2>2. CASE NextRound(r)
    <3>1. \A q \in Requests : q # r => cred'[q] = cred[q]
      BY <1>0, <2>2 DEF NextRound, TypeOK
    <3> QED BY <1>0, <2>1, <2>2, <3>1, NextRoundTyped, Moves DEF TypeOK, Walks, Working, Between, PCs
  <2>3. CASE /\ \/ pc' = [pc EXCEPT ![r] = "waiting"]
                \/ pc' = [pc EXCEPT ![r] = "returning"]
             /\ UNCHANGED <<cred, loopVars>>
    BY <1>0, <2>1, <2>3, Moves DEF TypeOK, Working, Between, PCs, loopVars
  <2>4. CASE ClosestCooldownWait(r)
    <3> DEFINE waits == {blocked[c] : c \in Eligible(r)}
               choices == IF "free" \in waits THEN {"free"}
                          ELSE IF "short" \in waits THEN {"short"}
                          ELSE IF "long" \in waits THEN {"long"}
                          ELSE {"free"} \union Deadlines
    <3>1. PICK w \in choices :
            CASE w = "free" -> NextRound(r)
              [] w = "short" -> /\ pc' = [pc EXCEPT ![r] = "waiting"]
                                /\ UNCHANGED <<cred, loopVars>>
              [] w = "long" -> /\ pc' = [pc EXCEPT ![r] = "returning"]
                               /\ UNCHANGED <<cred, loopVars>>
      BY <2>4, Zenon DEF ClosestCooldownWait
    <3>2. w \in {"free", "short", "long"}
      BY SettingAssumption
    <3> QED BY <2>2, <2>3, <3>1, <3>2
  <2>5. CASE Wait(r)
    BY <2>2, <2>3, <2>5 DEF Wait
  <2> QED BY <1>24, <2>4, <2>5
<1> QED BY <1>1, <1>2, <1>3, <1>4, <1>5, <1>6, <1>7, <1>8, <1>9, <1>10, <1>11, <1>12, <1>13, <1>14, <1>15, <1>16, <1>17, <1>18, <1>19, <1>20, <1>21, <1>22, <1>23, <1>24 DEF Step

\* So does every step.
LEMMA NextTyped == Typed /\ [Next]_vars => Typed'
<1> SUFFICES ASSUME Typed, [Next]_vars PROVE Typed'
  OBVIOUS
<1>1. CASE \E r \in Requests : Start(r) \/ Step(r) \/ Forward(r)
  BY <1>1, StepTyped
<1>2. CASE \E c \in Creds : Change(c)
  BY <1>2, SettingAssumption DEF Change, Typed, TypeOK, FailedWithError, CredPlaced, loopVars
<1>3. CASE UNCHANGED vars
  BY <1>3 DEF vars, Typed, TypeOK, FailedWithError, CredPlaced, loopVars
<1> QED BY <1>1, <1>2, <1>3 DEF Next

\* Types, and where requests have a credential, hold of every behaviour.
THEOREM TypeInvariance == Spec => []Typed
BY InitTyped, NextTyped, PTL DEF Spec

\* The local state of a request and the shared counters keep their shapes.
THEOREM RequestTypeCorrect == Spec => []TypeOK
BY TypeInvariance, PTL DEF Typed

-----------------------------------------------------------------------------
(* Connections *)

\* What a request occupies.
Occupied(r) == IF pc[r] \in Holding THEN cred[r] ELSE NoCred

Exact == ConnectionsExact

\* The holders of a credential are the requests that occupy it, and finitely many.
LEMMA HoldersFinite ==
    \A c \in Creds : IsFiniteSet(Holders(c)) /\ Holders(c) = {r \in Requests : Occupied(r) = c}
<1> SUFFICES ASSUME NEW c \in Creds
             PROVE IsFiniteSet(Holders(c)) /\ Holders(c) = {r \in Requests : Occupied(r) = c}
  OBVIOUS
<1>1. Holders(c) \subseteq Requests
  BY DEF Holders
<1>2. IsFiniteSet(Holders(c))
  BY <1>1, RequestAssumption, FS_Subset
<1> QED BY <1>2, CredAssumption DEF Holders, Occupied

\* The other requests stay where they are.
Alone(r) == \A q \in Requests : q # r => pc'[q] = pc[q] /\ cred'[q] = cred[q]

\* A step that occupies the same and counts the same.
LEMMA NothingAcquired ==
    ASSUME Typed, Exact, NEW r \in Requests, Alone(r), Occupied(r)' = Occupied(r), conn' = conn
    PROVE Exact'
<1>1. ASSUME NEW c \in Creds
      PROVE Holders(c)' = Holders(c)
  BY HoldersFinite, CredAssumption DEF Alone, Occupied, Holders
<1> QED BY <1>1 DEF Exact, ConnectionsExact

\* A connection is taken only below the cap, and counted.
LEMMA OneAcquired ==
    ASSUME Typed, Exact, NEW r \in Requests, NEW c \in Creds, Alone(r),
           Occupied(r) = NoCred, Occupied(r)' = c,
           ~(Cap[c] > 0 /\ conn[c] >= Cap[c]),
           conn' = [conn EXCEPT ![c] = @ + 1]
    PROVE Exact'
<1>0. conn \in [Creds -> Nat] /\ Cap \in [Creds -> Nat]
  BY SettingAssumption DEF Typed, TypeOK
<1>1. Holders(c)' = Holders(c) \union {r} /\ r \notin Holders(c)
  BY CredAssumption DEF Alone, Occupied, Holders
<1>2. Cardinality(Holders(c)') = Cardinality(Holders(c)) + 1
  BY <1>1, HoldersFinite, FS_AddElement
<1>3. ASSUME NEW d \in Creds, d # c
      PROVE Holders(d)' = Holders(d)
  BY <1>3, CredAssumption DEF Alone, Occupied, Holders
<1> QED BY <1>0, <1>2, <1>3 DEF Exact, ConnectionsExact

\* A connection given back is counted off.
LEMMA OneReleased ==
    ASSUME Typed, Exact, NEW r \in Requests, Alone(r),
           Occupied(r)' = NoCred, conn' = Released(Occupied(r))
    PROVE Exact'
<1>0. conn \in [Creds -> Nat] /\ Cap \in [Creds -> Nat]
  BY SettingAssumption DEF Typed, TypeOK
<1>1. CASE Occupied(r) = NoCred
  BY <1>1, NothingAcquired DEF Released
<1>2. CASE Occupied(r) # NoCred
  <2>1. PICK c \in Creds : c = Occupied(r)
    BY <1>2 DEF Occupied, Typed, TypeOK
  <2>2. Holders(c)' = Holders(c) \ {r} /\ r \in Holders(c)
    BY <1>2, <2>1, CredAssumption DEF Alone, Occupied, Holders
  <2>3. Cardinality(Holders(c)') = Cardinality(Holders(c)) - 1
    BY <2>1, <2>2, HoldersFinite, FS_RemoveElement
  <2>4. Cardinality(Holders(c)) > 0
    <3>1. Cardinality(Holders(c)) \in Nat
      BY <2>1, HoldersFinite, FS_CardinalityType
    <3>2. Holders(c) # {}
      BY <2>2
    <3> QED BY <2>1, <3>1, <3>2, HoldersFinite, FS_EmptySet
  <2>5. ASSUME NEW d \in Creds, d # c
        PROVE Holders(d)' = Holders(d)
    BY <2>1, <2>5, CredAssumption DEF Alone, Occupied, Holders
  <2>6. conn' = [conn EXCEPT ![c] = @ - 1]
    BY <1>0, <1>2, <2>1, <2>4 DEF Exact, ConnectionsExact, Released
  <2> QED BY <1>0, <2>1, <2>3, <2>5, <2>6 DEF Exact, ConnectionsExact
<1> QED BY <1>1, <1>2

\* Every step counts the connections it takes and gives back.
LEMMA StepExact ==
    ASSUME Typed, Exact, NEW r \in Requests, Start(r) \/ Step(r) \/ Forward(r)
    PROVE Exact'
<1>0. pc \in [Requests -> PCs] /\ cred \in [Requests -> Creds \union {NoCred}] /\ CredPlaced
  BY DEF Typed, TypeOK
<1> USE DEF Alone, Occupied, Holding, Goto, loopVars
<1>1. CASE \/ Start(r) \/ NoModels(r) \/ Prepared(r) \/ BeginCall(r) \/ Terminate(r)
           \/ CallSucceeds(r) \/ Refresh(r) \/ RetrySame(r) \/ StopRequest(r)
           \/ StreamEnds(r) \/ Forward(r) \/ RetryAllowed(r)
           \/ \E k \in CallErrors : PrepareFails(r, k)
           \/ \E k \in ErrorsOf(r) : CallFails(r, k)
  <2>1. Alone(r) /\ Occupied(r)' = Occupied(r) /\ conn' = conn
    BY <1>0, <1>1 DEF Start, NoModels, Prepared, BeginCall, Terminate, CallSucceeds, Refresh,
         RetrySame, StopRequest, StreamEnds, Forward, RetryAllowed, PrepareFails, CallFails,
         CredPlaced, Between
  <2> QED BY <2>1, NothingAcquired
<1>2. CASE \/ PickFails(r) \/ NextModel(r) \/ Bootstrapped(r) \/ Drained(r)
           \/ \E c \in Creds : Pick(r, c)
  <2>1. Alone(r) /\ Occupied(r)' = Occupied(r) /\ conn' = conn
    BY <1>0, <1>2 DEF PickFails, NextModel, Bootstrapped, Drained, Pick, Forget, CredPlaced,
         Between
  <2> QED BY <2>1, NothingAcquired
<1>3. CASE ClosestCooldownWait(r) \/ Wait(r)
  <2>1. conn' = conn /\ cred[r] = NoCred /\ pc[r] \in {"measuring", "waiting"}
    BY <1>3 DEF ClosestCooldownWait, Wait, CredPlaced, Typed, Between
  <2>2. CASE NextRound(r)
    BY <1>0, <2>1, <2>2, NothingAcquired DEF NextRound
  <2>3. CASE \E p \in PCs : pc' = [pc EXCEPT ![r] = p] /\ cred' = cred
    BY <1>0, <2>1, <2>3, NothingAcquired
  <2>4. CASE ClosestCooldownWait(r)
    <3> DEFINE waits == {blocked[c] : c \in Eligible(r)}
               choices == IF "free" \in waits THEN {"free"}
                          ELSE IF "short" \in waits THEN {"short"}
                          ELSE IF "long" \in waits THEN {"long"}
                          ELSE {"free"} \union Deadlines
    <3>1. PICK w \in choices :
            CASE w = "free" -> NextRound(r)
              [] w = "short" -> /\ pc' = [pc EXCEPT ![r] = "waiting"]
                                /\ UNCHANGED <<cred, loopVars>>
              [] w = "long" -> /\ pc' = [pc EXCEPT ![r] = "returning"]
                               /\ UNCHANGED <<cred, loopVars>>
      BY <2>4, Zenon DEF ClosestCooldownWait
    <3>2. w \in {"free", "short", "long"}
      BY SettingAssumption
    <3> QED BY <2>2, <2>3, <3>1, <3>2 DEF PCs
  <2> QED BY <1>3, <2>2, <2>3, <2>4 DEF Wait, PCs
<1>4. CASE Hold(r)
  <2>1. cred[r] \in Creds /\ pc[r] = "picked" /\ Occupied(r) = NoCred
    BY <1>0, <1>4 DEF Hold, CredPlaced, Working
  <2>2. CASE Cap[cred[r]] > 0 /\ conn[cred[r]] >= Cap[cred[r]]
    BY <1>0, <1>4, <2>1, <2>2, NothingAcquired DEF Hold
  <2>3. CASE ~(Cap[cred[r]] > 0 /\ conn[cred[r]] >= Cap[cred[r]])
    <3>1. PICK c \in Creds : c = cred[r]
      BY <2>1
    <3>2. Alone(r) /\ Occupied(r)' = c /\ conn' = [conn EXCEPT ![c] = @ + 1]
      BY <1>0, <1>4, <2>1, <2>3, <3>1 DEF Hold
    <3> QED BY <2>1, <2>3, <3>1, <3>2, OneAcquired
  <2> QED BY <2>2, <2>3
<1>5. CASE LoopTop(r) \/ StreamCancelled(r) \/ Return(r)
  <2>1. Alone(r) /\ Occupied(r)' = NoCred /\ conn' = Released(Occupied(r))
    BY <1>0, <1>5 DEF LoopTop, StreamCancelled, Return, Forget
  <2> QED BY <2>1, OneReleased
<1> QED BY <1>1, <1>2, <1>3, <1>4, <1>5 DEF Step

\* No path through refreshes, retries, failovers, cancellations or streams leaks a
\* lease or releases one twice, for any number of requests and any caps.
THEOREM ConnectionsAreExact == Spec => []ConnectionsExact
<1>1. Init => Exact
  <2> SUFFICES ASSUME Init, NEW c \in Creds
               PROVE conn[c] = Cardinality(Holders(c)) /\ (Cap[c] > 0 => conn[c] <= Cap[c])
    BY DEF Exact, ConnectionsExact
  <2>1. Holders(c) = {}
    BY CredAssumption DEF Init, Holders, Holding
  <2> QED BY <2>1, FS_EmptySet, SettingAssumption DEF Init
<1>2. Typed /\ Exact /\ [Next]_vars => Exact'
  <2> SUFFICES ASSUME Typed, Exact, [Next]_vars PROVE Exact'
    OBVIOUS
  <2>1. CASE \E r \in Requests : Start(r) \/ Step(r) \/ Forward(r)
    BY <2>1, StepExact
  <2>2. CASE UNCHANGED <<pc, cred, conn>>
    BY <2>2 DEF Exact, ConnectionsExact, Holders
  <2> QED BY <2>1, <2>2 DEF Next, Change, vars
<1> QED BY <1>1, <1>2, TypeInvariance, PTL DEF Spec, Exact

\* A lease that is held is counted, and nothing else is: the counter is above zero
\* wherever a release may find it, and zero when no request holds the credential.
LeasesBacked ==
    \A c \in Creds :
      /\ \A r \in Requests : pc[r] \in Holding /\ cred[r] = c => conn[c] > 0
      /\ (\A r \in Requests : pc[r] \in Holding => cred[r] # c) => conn[c] = 0

\* The early return of the release closure at a counter of zero is never taken: it
\* hides no second release of a lease.  An idle service counts no connection.
THEOREM LeasesAreBacked == Spec => []LeasesBacked
<1>1. ConnectionsExact => LeasesBacked
  <2> SUFFICES ASSUME ConnectionsExact, NEW c \in Creds
               PROVE /\ \A r \in Requests : pc[r] \in Holding /\ cred[r] = c => conn[c] > 0
                     /\ (\A r \in Requests : pc[r] \in Holding => cred[r] # c) => conn[c] = 0
    BY DEF LeasesBacked
  <2>1. conn[c] = Cardinality(Holders(c)) /\ IsFiniteSet(Holders(c))
    BY HoldersFinite DEF ConnectionsExact
  <2>2. Cardinality(Holders(c)) \in Nat /\ (Cardinality(Holders(c)) = 0 <=> Holders(c) = {})
    BY <2>1, FS_CardinalityType, FS_EmptySet
  <2>3. ASSUME NEW r \in Requests, pc[r] \in Holding, cred[r] = c PROVE conn[c] > 0
    <3>1. Holders(c) # {}
      BY <2>3 DEF Holders
    <3> QED BY <2>1, <2>2, <3>1
  <2>4. ASSUME \A r \in Requests : pc[r] \in Holding => cred[r] # c PROVE conn[c] = 0
    <3>1. Holders(c) = {}
      BY <2>4 DEF Holders
    <3> QED BY <2>1, <2>2, <3>1
  <2> QED BY <2>3, <2>4
<1> QED BY <1>1, ConnectionsAreExact, PTL

-----------------------------------------------------------------------------
(* Budgets *)

\* Calls one turn of a credential may make: every model, each retried in place, and
\* one refresh.
Turn(c) == Models[c] * (SameRetry[c] + 1) + 1

\* Calls the current turn has used up, the one under way included.
Spent(r) == (pool[r].model - 1) * (SameRetry[cred[r]] + 1) + pool[r].same
              + (IF pool[r].refreshed THEN 1 ELSE 0)
              + (IF pc[r] \in {"calling", "failed"} THEN 1 ELSE 0)

\* Every round is one turn at most, and a credential that still has its turn in this
\* round has used only those of earlier rounds.
RoundsBounded(r) ==
    \A c \in Creds :
      /\ calls[r][c] <= (round[r] + 1) * Turn(c)
      /\ calls[r][c] <= (Retry[c] + 1) * Turn(c)
      /\ c \notin walk[r].tried => /\ round[r] <= Retry[c]
                                   /\ calls[r][c] <= round[r] * Turn(c)

Turning == {"picked", "holding", "ready", "calling", "failed"}
TurnBounded(r) ==
    pc[r] \in Turning =>
      /\ cred[r] \in walk[r].tried
      /\ round[r] <= Retry[cred[r]]
      /\ pool[r].model \in 1..Models[cred[r]]
      /\ pool[r].same <= SameRetry[cred[r]]
      /\ calls[r][cred[r]] <= round[r] * Turn(cred[r]) + Spent(r)

PoolFresh(r) ==
    pc[r] \in {"idle", "loopTop", "picking", "picked", "holding", "deciding", "measuring",
               "waiting"} =>
      pool[r].model = 1 /\ pool[r].same = 0 /\ ~pool[r].refreshed

CredentialsBounded(r) ==
    /\ IsFiniteSet(walk[r].attempted)
    /\ MaxCredentials > 0 =>
         /\ Cardinality(walk[r].attempted) <= MaxCredentials
         /\ pc[r] \in {"picking", "picked", "holding"} =>
              Cardinality(walk[r].attempted) < MaxCredentials

Budgeted(r) == RoundsBounded(r) /\ TurnBounded(r) /\ PoolFresh(r) /\ CredentialsBounded(r)

\* What the multiplications of limits need.
LEMMA Products ==
    ASSUME NEW n \in Nat, NEW k \in Nat, NEW b \in Nat
    PROVE /\ n * b \in Nat /\ (n + 1) * b \in Nat
          /\ (n + 1) * b = n * b + b
          /\ n <= k => n * b <= k * b
<1>1. n * b \in Nat /\ (n + 1) * b \in Nat /\ (n + 1) * b = n * b + b
  OBVIOUS
<1>2. ASSUME n <= k PROVE n * b <= k * b
  <2>1. PICK d \in Nat : k = n + d
    <3>1. k - n \in Nat /\ k = n + (k - n)
      BY <1>2
    <3> QED BY <3>1
  <2>2. d * b \in Nat /\ k * b = n * b + d * b
    BY <2>1
  <2> QED BY <1>1, <2>2
<1> QED BY <1>1, <1>2

\* What a turn has spent never exceeds the turn.
LEMMA SpentBounded ==
    ASSUME NEW c \in Creds, NEW m \in 1..Models[c], NEW s \in 0..SameRetry[c],
           NEW f \in {0, 1}, NEW k \in {0, 1}
    PROVE /\ Turn(c) \in Nat
          /\ (m - 1) * (SameRetry[c] + 1) + s + f + k \in Nat
          /\ (m - 1) * (SameRetry[c] + 1) + s + f + k <= Turn(c)
          /\ s + 1 <= SameRetry[c] + 1
          /\ (m - 1) * (SameRetry[c] + 1) + SameRetry[c] + 1 = m * (SameRetry[c] + 1)
<1> DEFINE b == SameRetry[c] + 1
<1>1. b \in Nat /\ Models[c] \in Nat \ {0} /\ m \in Nat /\ m - 1 \in Nat /\ m <= Models[c]
  BY SettingAssumption
<1>2. m * b = (m - 1) * b + b /\ (m - 1) * b \in Nat /\ m * b \in Nat
  <2>1. m = (m - 1) + 1
    BY <1>1
  <2>2. ((m - 1) + 1) * b = (m - 1) * b + b /\ (m - 1) * b \in Nat /\ ((m - 1) + 1) * b \in Nat
    BY <1>1, Products
  <2> QED BY <2>1, <2>2
<1>3. m * b <= Models[c] * b /\ Models[c] * b \in Nat
  BY <1>1, Products
<1>4. SameRetry[c] \in Nat /\ s \in Nat /\ s <= SameRetry[c]
  BY SettingAssumption
<1>5. PICK x \in Nat : x = (m - 1) * b
  BY <1>2
<1>6. PICK z \in Nat : z = Models[c] * b
  BY <1>3
<1>7. x + b <= z
  BY <1>2, <1>3, <1>5, <1>6
<1>8. x + s + f + k \in Nat /\ x + s + f + k <= z + 1 /\ s + 1 <= b
  BY <1>4, <1>7
<1>9. Turn(c) = z + 1
  BY <1>6 DEF Turn
<1>10. (m - 1) * (SameRetry[c] + 1) + SameRetry[c] + 1 = m * (SameRetry[c] + 1)
  <2>1. x + SameRetry[c] + 1 = x + b
    BY <1>4
  <2>2. x + b = m * b
    BY <1>2, <1>5
  <2> QED BY <1>5, <2>1, <2>2
<1> QED BY <1>5, <1>8, <1>9, <1>10

\* Every constant and counter the bounds are made of is a number.
LEMMA Numbers ==
    ASSUME Typed
    PROVE /\ \A c \in Creds : Turn(c) \in Nat /\ Retry[c] \in Nat /\ SameRetry[c] \in Nat
          /\ \A q \in Requests : round[q] \in Nat /\ \A c \in Creds : calls[q][c] \in Nat
          /\ walk \in [Requests -> Walks] /\ pool \in [Requests -> Pools]
<1>1. \A c \in Creds : Turn(c) \in Nat
  <2> TAKE c \in Creds
  <2>1. Models[c] \in Nat /\ SameRetry[c] + 1 \in Nat
    BY SettingAssumption
  <2> QED BY <2>1, Products DEF Turn
<1> QED BY <1>1, SettingAssumption DEF Typed, TypeOK, Walks, Pools

\* A step that makes no call and starts no round.
LEMMA RoundsKept ==
    ASSUME NEW r \in Requests, RoundsBounded(r), round'[r] = round[r], calls'[r] = calls[r],
           walk[r].tried \subseteq walk'[r].tried
    PROVE RoundsBounded(r)'
BY DEF RoundsBounded

\* One more call with the selected credential, within its turn.
LEMMA RoundsCounted ==
    ASSUME Typed, NEW r \in Requests, RoundsBounded(r), NEW c \in Creds, NEW t \in Nat,
           t <= Turn(c), calls[r][c] + 1 <= round[r] * Turn(c) + t, round[r] <= Retry[c],
           c \in walk[r].tried,
           round'[r] = round[r], walk'[r].tried = walk[r].tried,
           calls' = [calls EXCEPT ![r][c] = @ + 1]
    PROVE RoundsBounded(r)' /\ calls'[r][c] = calls[r][c] + 1
<1>1. /\ calls'[r][c] = calls[r][c] + 1
      /\ \A d \in Creds : d # c => calls'[r][d] = calls[r][d]
  BY DEF Typed, TypeOK
<1>2. calls'[r][c] <= (round[r] + 1) * Turn(c)
  <2>1. PICK x \in Nat : x = round[r] * Turn(c)
    BY Numbers, Products
  <2>2. (round[r] + 1) * Turn(c) = x + Turn(c)
    BY Numbers, Products, <2>1
  <2> QED BY <1>1, <2>1, <2>2, Numbers
<1>3. (round[r] + 1) * Turn(c) <= (Retry[c] + 1) * Turn(c)
  <2>1. round[r] + 1 \in Nat /\ Retry[c] + 1 \in Nat /\ round[r] + 1 <= Retry[c] + 1
    BY Numbers
  <2> QED BY <2>1, Numbers, Products
<1>4. (round[r] + 1) * Turn(c) \in Nat /\ (Retry[c] + 1) * Turn(c) \in Nat
  BY Numbers, Products
<1>5. calls'[r][c] <= (Retry[c] + 1) * Turn(c)
  <2>1. calls'[r][c] \in Nat
    BY <1>1, Numbers
  <2> QED BY <2>1, <1>2, <1>3, <1>4
<1> QED BY <1>1, <1>2, <1>5 DEF RoundsBounded

\* A new round begins with what the earlier ones may have used.
LEMMA RoundsNext ==
    ASSUME Typed, NEW r \in Requests, RoundsBounded(r), NextRound(r), calls' = calls
    PROVE RoundsBounded(r)'
<1>1. round'[r] = round[r] + 1 /\ walk'[r].tried = Excluded(round[r] + 1)
  BY DEF NextRound, Typed, TypeOK, FreshWalk
<1>2. ASSUME NEW c \in Creds
      PROVE (round[r] + 1) * Turn(c) <= (round[r] + 1 + 1) * Turn(c)
  <2>1. round[r] + 1 \in Nat /\ Turn(c) \in Nat
    BY Numbers
  <2>2. /\ (round[r] + 1) * Turn(c) \in Nat
        /\ (round[r] + 1 + 1) * Turn(c) = (round[r] + 1) * Turn(c) + Turn(c)
    BY <2>1, Products
  <2> QED BY <2>1, <2>2
<1>3. ASSUME NEW c \in Creds
      PROVE calls[r][c] <= (round[r] + 1 + 1) * Turn(c)
  <2>1. PICK x \in Nat : x = (round[r] + 1) * Turn(c)
    BY Numbers, Products
  <2>2. PICK y \in Nat : y = (round[r] + 1 + 1) * Turn(c)
    <3>1. round[r] + 1 \in Nat
      BY Numbers
    <3> QED BY <3>1, Numbers, Products
  <2>3. calls[r][c] <= x /\ x <= y /\ calls[r][c] \in Nat
    BY <2>1, <2>2, <1>2, Numbers DEF RoundsBounded
  <2> QED BY <2>2, <2>3
<1>4. ASSUME NEW c \in Creds, c \notin Excluded(round[r] + 1)
      PROVE round[r] + 1 <= Retry[c]
  BY <1>4, Numbers DEF Excluded
<1> QED BY <1>1, <1>3, <1>4 DEF RoundsBounded

\* A request that returns has used nothing any more.
LEMMA Forgotten ==
    ASSUME Typed, NEW r \in Requests, Forget(r), pc'[r] \notin Turning, pc'[r] # "picking"
    PROVE Budgeted(r)'
<1>1. /\ round'[r] = 0 /\ walk'[r].tried = {} /\ walk'[r].attempted = {}
      /\ pool'[r].model = 1 /\ pool'[r].same = 0 /\ pool'[r].refreshed = FALSE
      /\ \A c \in Creds : calls'[r][c] = 0
  BY DEF Forget, FreshWalk, FreshPool, Typed, TypeOK
<1>2. RoundsBounded(r)'
  <2> SUFFICES ASSUME NEW c \in Creds
               PROVE /\ 0 <= (0 + 1) * Turn(c) /\ 0 <= (Retry[c] + 1) * Turn(c)
                     /\ 0 <= Retry[c] /\ 0 <= 0 * Turn(c)
    BY <1>1 DEF RoundsBounded
  <2>1. 0 * Turn(c) \in Nat /\ (0 + 1) * Turn(c) \in Nat /\ (Retry[c] + 1) * Turn(c) \in Nat
    BY Numbers, Products
  <2> QED BY <2>1, Numbers
<1>3. TurnBounded(r)' /\ PoolFresh(r)'
  BY <1>1 DEF TurnBounded, PoolFresh
<1>4. CredentialsBounded(r)'
  <2>1. IsFiniteSet({}) /\ Cardinality({}) = 0
    BY FS_EmptySet
  <2> QED BY <1>1, <2>1, SettingAssumption DEF CredentialsBounded, Turning
<1> QED BY <1>2, <1>3, <1>4 DEF Budgeted

\* A step outside a turn that makes no call and uses no further credential.
LEMMA OutsideTurns ==
    ASSUME Typed, NEW r \in Requests, Budgeted(r),
           round'[r] = round[r], calls'[r] = calls[r], pool'[r] = pool[r],
           walk'[r].tried = walk[r].tried, walk'[r].attempted = walk[r].attempted,
           pc'[r] \notin Turning,
           pc'[r] \in {"idle", "loopTop", "deciding", "measuring", "waiting"} => PoolFresh(r)',
           pc'[r] = "picking" =>
             /\ PoolFresh(r)'
             /\ MaxCredentials > 0 => Cardinality(walk[r].attempted) < MaxCredentials
    PROVE Budgeted(r)'
<1>1. RoundsBounded(r)'
  BY RoundsKept DEF Budgeted
<1>2. TurnBounded(r)' /\ PoolFresh(r)'
  BY DEF TurnBounded, PoolFresh, Turning
<1>3. CredentialsBounded(r)'
  BY DEF Budgeted, CredentialsBounded, Turning
<1> QED BY <1>1, <1>2, <1>3 DEF Budgeted

\* Steps that make no call and end no turn of a credential early.
LEMMA StepsOutside ==
    ASSUME Typed, NEW r \in Requests, Budgeted(r),
           \/ Start(r) \/ LoopTop(r) \/ PickFails(r) \/ NoModels(r) \/ Terminate(r)
           \/ CallSucceeds(r) \/ StopRequest(r) \/ StreamEnds(r) \/ StreamCancelled(r)
           \/ Drained(r) \/ Forward(r) \/ RetryAllowed(r)
    PROVE Budgeted(r)'
<1>0. /\ pc \in [Requests -> PCs] /\ walk \in [Requests -> Walks] /\ pool \in [Requests -> Pools]
      /\ PoolFresh(r) /\ CredentialsBounded(r)
  BY DEF Typed, TypeOK, Walks, Pools, Budgeted
<1> USE DEF Goto, loopVars, Turning
<1>1. UNCHANGED <<round, calls, pool>>
  BY DEF Start, LoopTop, PickFails, NoModels, Terminate, CallSucceeds, StopRequest, StreamEnds,
         StreamCancelled, Drained, Forward, RetryAllowed
<1>2. walk'[r].tried = walk[r].tried /\ walk'[r].attempted = walk[r].attempted
  <2>1. CASE PickFails(r)
    <3>1. \E e \in Errors \union {None} : walk' = [walk EXCEPT ![r].err = e]
      <4>1. walk[r].err \in Errors \union {None}
        BY <1>0 DEF Walks
      <4>2. CASE walk[r].err # None
        BY <2>1, <4>1, <4>2 DEF PickFails
      <4>3. CASE walk[r].err = None /\ walk[r].full
        <5>1. walk' = [walk EXCEPT ![r].err = "full"]
          BY <2>1, <4>3 DEF PickFails
        <5> QED BY <5>1 DEF Errors
      <4>4. CASE walk[r].err = None /\ ~walk[r].full
        <5>1. \/ walk' = [walk EXCEPT ![r].err = "cooldown"]
              \/ walk' = [walk EXCEPT ![r].err = "other"]
          BY <2>1, <4>4 DEF PickFails
        <5> QED BY <5>1 DEF Errors, CallErrors
      <4> QED BY <4>2, <4>3, <4>4
    <3> QED BY <1>0, <3>1 DEF Walks
  <2>2. CASE ~PickFails(r)
    BY <2>2 DEF Start, LoopTop, NoModels, Terminate, CallSucceeds, StopRequest, StreamEnds,
         StreamCancelled, Drained, Forward, RetryAllowed
  <2> QED BY <2>1, <2>2
<1>3. pc'[r] \notin Turning
  BY <1>0 DEF Start, LoopTop, PickFails, NoModels, Terminate, CallSucceeds, StopRequest,
       StreamEnds, StreamCancelled, Drained, Forward, RetryAllowed
<1>4. pc'[r] \in {"idle", "loopTop", "picking", "deciding", "measuring", "waiting"} =>
        PoolFresh(r)'
  <2>1. pc'[r] \in {"idle", "loopTop", "picking", "deciding", "measuring", "waiting"} =>
          pc[r] \in {"idle", "loopTop", "picking", "picked", "holding", "deciding", "measuring",
                     "waiting"}
    BY <1>0 DEF Start, LoopTop, PickFails, NoModels, Terminate, CallSucceeds, StopRequest,
         StreamEnds, StreamCancelled, Drained, Forward, RetryAllowed
  <2> QED BY <1>0, <1>1, <2>1 DEF PoolFresh
<1>5. pc'[r] = "picking" /\ MaxCredentials > 0 =>
        Cardinality(walk[r].attempted) < MaxCredentials
  <2>1. pc'[r] = "picking" =>
          LoopTop(r) /\ ~(MaxCredentials > 0 /\ Cardinality(walk[r].attempted) >= MaxCredentials)
    BY <1>0 DEF Start, LoopTop, PickFails, NoModels, Terminate, CallSucceeds, StopRequest,
         StreamEnds, StreamCancelled, Drained, Forward, RetryAllowed
  <2>2. Cardinality(walk[r].attempted) \in Nat /\ MaxCredentials \in Nat
    BY <1>0, FS_CardinalityType, SettingAssumption DEF CredentialsBounded
  <2> QED BY <2>1, <2>2
<1> QED BY <1>1, <1>2, <1>3, <1>4, <1>5, OutsideTurns

\* Another request's step, or none.
LEMMA Unmoved ==
    ASSUME NEW q \in Requests, Budgeted(q), pc'[q] = pc[q], cred'[q] = cred[q],
           round'[q] = round[q], walk'[q] = walk[q], pool'[q] = pool[q], calls'[q] = calls[q]
    PROVE Budgeted(q)'
<1>1. RoundsBounded(q)'
  BY RoundsKept DEF Budgeted
<1>2. TurnBounded(q)'
  BY DEF Budgeted, TurnBounded, Spent
<1>3. PoolFresh(q)' /\ CredentialsBounded(q)'
  BY DEF Budgeted, PoolFresh, CredentialsBounded
<1> QED BY <1>1, <1>2, <1>3 DEF Budgeted

\* Work on the selected credential: a call is paid for by what the turn has spent.
LEMMA WithinTurn ==
    ASSUME Typed, NEW r \in Requests, Budgeted(r), pc[r] \in Turning,
           pc'[r] \in {"ready", "calling", "failed"},
           cred'[r] = cred[r], round'[r] = round[r], walk'[r].tried = walk[r].tried,
           CredentialsBounded(r)',
           pool'[r].model \in 1..Models[cred[r]], pool'[r].same \in 0..SameRetry[cred[r]],
           \/ calls'[r] = calls[r] /\ Spent(r) <= Spent(r)'
           \/ /\ calls' = [calls EXCEPT ![r][cred[r]] = @ + 1]
              /\ Spent(r) + 1 <= Spent(r)'
    PROVE Budgeted(r)'
<1>0. PICK c \in Creds : c = cred[r]
  BY DEF Typed, CredPlaced, Working, Turning
<1>1. /\ c \in walk[r].tried /\ round[r] <= Retry[c]
      /\ pool[r].model \in 1..Models[c] /\ pool[r].same \in 0..SameRetry[c]
      /\ calls[r][c] <= round[r] * Turn(c) + Spent(r)
  <2>1. pool[r].same \in Nat
    BY Numbers DEF Pools
  <2> QED BY <1>0, <2>1, Numbers DEF Budgeted, TurnBounded
<1>2. Spent(r) \in Nat
  <2>1. /\ (IF pool[r].refreshed THEN 1 ELSE 0) \in {0, 1}
        /\ (IF pc[r] \in {"calling", "failed"} THEN 1 ELSE 0) \in {0, 1}
    OBVIOUS
  <2> QED BY <1>0, <1>1, <2>1, SpentBounded DEF Spent
<1>3. Spent(r)' \in Nat /\ Spent(r)' <= Turn(c)
  <2>1. /\ (IF pool'[r].refreshed THEN 1 ELSE 0) \in {0, 1}
        /\ (IF pc'[r] \in {"calling", "failed"} THEN 1 ELSE 0) \in {0, 1}
    OBVIOUS
  <2> QED BY <1>0, <2>1, SpentBounded DEF Spent
<1>4. PICK x \in Nat : x = round[r] * Turn(c)
  BY Numbers, Products
<1>5. RoundsBounded(r)' /\ calls'[r][c] <= x + Spent(r)'
  <2>1. CASE calls'[r] = calls[r] /\ Spent(r) <= Spent(r)'
    <3>1. RoundsBounded(r)'
      BY <2>1, RoundsKept DEF Budgeted
    <3> QED BY <2>1, <3>1, <1>1, <1>2, <1>3, <1>4, Numbers
  <2>2. CASE calls' = [calls EXCEPT ![r][cred[r]] = @ + 1] /\ Spent(r) + 1 <= Spent(r)'
    <3>1. calls[r][c] + 1 <= x + Spent(r)'
      BY <2>2, <1>1, <1>2, <1>3, <1>4, Numbers
    <3>2. calls' = [calls EXCEPT ![r][c] = @ + 1]
      BY <1>0, <2>2
    <3>3. RoundsBounded(r)' /\ calls'[r][c] = calls[r][c] + 1
      <4>1. PICK t \in Nat : t = Spent(r)'
        BY <1>3
      <4>2. t <= Turn(c) /\ calls[r][c] + 1 <= round[r] * Turn(c) + t
        BY <4>1, <3>1, <1>3, <1>4
      <4> QED BY <1>1, <3>2, <4>2, RoundsCounted DEF Budgeted
    <3> QED BY <3>1, <3>3
  <2> QED BY <2>1, <2>2
<1>6. TurnBounded(r)'
  <2>1. pool'[r].same <= SameRetry[c]
    BY <1>0, Numbers
  <2> QED BY <1>0, <1>1, <1>4, <1>5, <2>1 DEF TurnBounded
<1>7. PoolFresh(r)'
  BY DEF PoolFresh
<1> QED BY <1>5, <1>6, <1>7 DEF Budgeted

\* One more credential is attempted, below the limit.
LEMMA Attempted ==
    ASSUME Typed, NEW r \in Requests, CredentialsBounded(r), pc[r] = "holding",
           NEW c \in Creds, walk'[r].attempted = walk[r].attempted \union {c},
           pc'[r] \notin {"picking", "picked", "holding"}
    PROVE CredentialsBounded(r)'
<1>1. /\ IsFiniteSet(walk[r].attempted \union {c})
      /\ Cardinality(walk[r].attempted) \in Nat
      /\ Cardinality(walk[r].attempted \union {c}) <= Cardinality(walk[r].attempted) + 1
      /\ Cardinality(walk[r].attempted \union {c}) \in Nat
  <2>1. IsFiniteSet(walk[r].attempted)
    BY DEF CredentialsBounded
  <2>2. Cardinality(walk[r].attempted) \in Nat
    BY <2>1, FS_CardinalityType
  <2>3. /\ IsFiniteSet(walk[r].attempted \union {c})
        /\ \/ Cardinality(walk[r].attempted \union {c}) = Cardinality(walk[r].attempted)
           \/ Cardinality(walk[r].attempted \union {c}) = Cardinality(walk[r].attempted) + 1
    BY <2>1, FS_AddElement
  <2> QED BY <2>2, <2>3
<1> QED BY <1>1, SettingAssumption DEF CredentialsBounded

\* Steps within the turn of a credential.
LEMMA StepsWithin ==
    ASSUME Typed, NEW r \in Requests, Budgeted(r),
           \/ BeginCall(r) \/ Refresh(r) \/ RetrySame(r)
           \/ Prepared(r) \/ \E k \in ErrorsOf(r) : CallFails(r, k)
    PROVE Budgeted(r)'
<1>0. /\ pc \in [Requests -> PCs] /\ walk \in [Requests -> Walks] /\ pool \in [Requests -> Pools]
      /\ CredentialsBounded(r)
      /\ calls \in [Requests -> [Creds -> Nat]]
  BY DEF Typed, TypeOK, Walks, Pools, Budgeted
<1>1. pc[r] \in Turning /\ pc[r] # "picked" /\ cred[r] \in Creds
  BY <1>0 DEF BeginCall, Refresh, RetrySame, Prepared, CallFails, Goto, Turning, Typed,
       CredPlaced, Working
<1>2. /\ pool[r].model \in 1..Models[cred[r]] /\ pool[r].same \in 0..SameRetry[cred[r]]
      /\ pool[r].model \in Nat /\ pool[r].same \in Nat /\ pool[r].refreshed \in BOOLEAN
      /\ SameRetry[cred[r]] \in Nat
  <2>1. pool[r] \in Pools
    BY <1>0
  <2>2. pool[r].model \in Nat /\ pool[r].same \in Nat /\ pool[r].refreshed \in BOOLEAN
    BY <2>1 DEF Pools
  <2> QED BY <1>1, <2>2, Numbers DEF Budgeted, TurnBounded
<1>3. PICK x \in Nat : x = (pool[r].model - 1) * (SameRetry[cred[r]] + 1)
  BY <1>1, <1>2, SpentBounded
<1>4. Spent(r) = x + pool[r].same + (IF pool[r].refreshed THEN 1 ELSE 0)
                   + (IF pc[r] \in {"calling", "failed"} THEN 1 ELSE 0)
  BY <1>3 DEF Spent
<1>5. ASSUME cred'[r] = cred[r], pool'[r].model = pool[r].model
      PROVE Spent(r)' = x + pool'[r].same + (IF pool'[r].refreshed THEN 1 ELSE 0)
                          + (IF pc'[r] \in {"calling", "failed"} THEN 1 ELSE 0)
  BY <1>3, <1>5 DEF Spent
<1>6. CASE BeginCall(r)
  <2>1. /\ pc[r] = "ready" /\ pc'[r] = "calling"
        /\ calls' = [calls EXCEPT ![r][cred[r]] = @ + 1]
        /\ UNCHANGED <<cred, round, walk, pool>>
    BY <1>0, <1>6 DEF BeginCall, Goto, loopVars
  <2>2. Spent(r) + 1 <= Spent(r)'
    BY <1>2, <1>4, <1>5, <2>1
  <2>3. CredentialsBounded(r)'
    BY <1>0, <2>1 DEF CredentialsBounded
  <2> QED BY <1>1, <1>2, <2>1, <2>2, <2>3, WithinTurn
<1>7. CASE Refresh(r)
  <2>1. /\ pc[r] = "failed" /\ pc'[r] = "calling" /\ ~pool[r].refreshed
        /\ calls' = [calls EXCEPT ![r][cred[r]] = @ + 1]
        /\ UNCHANGED <<cred, round, walk>>
    BY <1>0, <1>7 DEF Refresh, Goto, loopVars
  <2>2. /\ pool'[r].model = pool[r].model /\ pool'[r].same = pool[r].same
        /\ pool'[r].refreshed = TRUE
    BY <1>0, <1>7 DEF Refresh, Pools
  <2>3. Spent(r) + 1 <= Spent(r)'
    BY <1>2, <1>4, <1>5, <2>1, <2>2
  <2>4. CredentialsBounded(r)'
    BY <1>0, <2>1 DEF CredentialsBounded
  <2> QED BY <1>1, <1>2, <2>1, <2>2, <2>3, <2>4, WithinTurn
<1>8. CASE RetrySame(r)
  <2>1. /\ pc[r] = "failed" /\ pool[r].same < SameRetry[cred[r]]
        /\ \/ pc'[r] = "ready" /\ calls' = calls
           \/ pc'[r] = "calling" /\ calls' = [calls EXCEPT ![r][cred[r]] = @ + 1]
        /\ UNCHANGED <<cred, round, walk>>
    BY <1>0, <1>8 DEF RetrySame, RetriesSame, Goto, loopVars
  <2>2. /\ pool'[r].model = pool[r].model /\ pool'[r].same = pool[r].same + 1
        /\ pool'[r].refreshed = pool[r].refreshed
    BY <1>0, <1>8 DEF RetrySame, Pools
  <2>3. \/ pc'[r] = "ready" /\ Spent(r) <= Spent(r)'
        \/ pc'[r] = "calling" /\ Spent(r) + 1 <= Spent(r)'
    BY <1>2, <1>4, <1>5, <2>1, <2>2
  <2>4. CredentialsBounded(r)'
    BY <1>0, <2>1 DEF CredentialsBounded
  <2>5. pool'[r].same \in 0..SameRetry[cred[r]]
    BY <1>2, <2>1, <2>2
  <2> QED BY <1>1, <1>2, <2>1, <2>2, <2>3, <2>4, <2>5, WithinTurn
<1>9. CASE Prepared(r)
  <2>1. /\ pc[r] = "holding" /\ pc'[r] = "ready"
        /\ UNCHANGED <<cred, round, pool, calls>>
        /\ walk'[r].tried = walk[r].tried
        /\ walk'[r].attempted = walk[r].attempted \union {cred[r]}
    BY <1>0, <1>9 DEF Prepared, Goto, Walks
  <2>2. Spent(r) <= Spent(r)'
    BY <1>2, <1>4, <1>5, <2>1
  <2>3. CredentialsBounded(r)'
    BY <1>0, <1>1, <2>1, Attempted
  <2> QED BY <1>1, <1>2, <2>1, <2>2, <2>3, WithinTurn
<1>10. CASE \E k \in ErrorsOf(r) : CallFails(r, k)
  <2>0. PICK k \in ErrorsOf(r) : CallFails(r, k)
    BY <1>10
  <2>1. /\ pc[r] = "calling" /\ pc'[r] = "failed"
        /\ UNCHANGED <<cred, round, calls>>
    BY <1>0, <2>0 DEF CallFails, Goto, loopVars
  <2>2. /\ walk'[r].tried = walk[r].tried /\ walk'[r].attempted = walk[r].attempted
        /\ pool'[r].model = pool[r].model /\ pool'[r].same = pool[r].same
        /\ pool'[r].refreshed = pool[r].refreshed
    <3>1. /\ walk' = [walk EXCEPT ![r] = [walk[r] EXCEPT !.err = k, !.up = TRUE]]
          /\ pool' = [pool EXCEPT ![r] = [pool[r] EXCEPT !.err = k]]
          /\ walk[r] \in Walks /\ pool[r] \in Pools
      BY <1>0, <2>0 DEF CallFails
    <3>2. /\ walk'[r] = [walk[r] EXCEPT !.err = k, !.up = TRUE]
          /\ pool'[r] = [pool[r] EXCEPT !.err = k]
      BY <1>0, <3>1
    <3>3. /\ walk'[r].tried = walk[r].tried /\ walk'[r].attempted = walk[r].attempted
      BY <3>1, <3>2 DEF Walks
    <3>4. /\ pool'[r].model = pool[r].model /\ pool'[r].same = pool[r].same
          /\ pool'[r].refreshed = pool[r].refreshed
      BY <3>1, <3>2 DEF Pools
    <3> QED BY <3>3, <3>4
  <2>3. Spent(r) <= Spent(r)'
    BY <1>2, <1>4, <1>5, <2>1, <2>2
  <2>4. CredentialsBounded(r)'
    BY <1>0, <2>1, <2>2 DEF CredentialsBounded
  <2> QED BY <1>1, <1>2, <2>1, <2>2, <2>3, <2>4, WithinTurn
<1> QED BY <1>6, <1>7, <1>8, <1>9, <1>10

\* A pick opens the turn of a credential that had none this round.
LEMMA PickBudgeted ==
    ASSUME Typed, NEW r \in Requests, Budgeted(r), NEW c \in Creds, Pick(r, c)
    PROVE Budgeted(r)'
<1>0. /\ pc \in [Requests -> PCs] /\ walk \in [Requests -> Walks] /\ pool \in [Requests -> Pools]
      /\ cred \in [Requests -> Creds \union {NoCred}]
  BY DEF Typed, TypeOK, Walks, Pools
<1>1. /\ pc[r] = "picking" /\ pc'[r] = "picked" /\ cred'[r] = c /\ c \notin walk[r].tried
      /\ UNCHANGED <<round, pool, calls>>
  BY <1>0 DEF Pick, Goto
<1>2. walk'[r].tried = walk[r].tried \union {c} /\ walk'[r].attempted = walk[r].attempted
  BY <1>0 DEF Pick, Walks
<1>3. pool[r].model = 1 /\ pool[r].same = 0 /\ ~pool[r].refreshed
  BY <1>1 DEF Budgeted, PoolFresh
<1>4. round[r] <= Retry[c] /\ calls[r][c] <= round[r] * Turn(c)
  BY <1>1 DEF Budgeted, RoundsBounded
<1>5. RoundsBounded(r)'
  BY <1>1, <1>2, RoundsKept DEF Budgeted
<1>6. TurnBounded(r)'
  <2>1. 1 \in 1..Models[c] /\ 0 <= SameRetry[c]
    BY SettingAssumption
  <2>2. Spent(r)' = 0
    <3>1. Spent(r)' = (1 - 1) * (SameRetry[c] + 1) + 0 + 0 + 0
      BY <1>1, <1>3 DEF Spent
    <3>2. SameRetry[c] + 1 \in Nat
      BY SettingAssumption
    <3> QED BY <3>1, <3>2
  <2>3. calls[r][c] <= round[r] * Turn(c) + 0
    <3>1. PICK x \in Nat : x = round[r] * Turn(c)
      BY Numbers, Products
    <3> QED BY <1>4, <3>1, Numbers
  <2> QED BY <1>1, <1>2, <1>3, <1>4, <2>1, <2>2, <2>3 DEF TurnBounded
<1>7. PoolFresh(r)' /\ CredentialsBounded(r)'
  BY <1>1, <1>2, <1>3 DEF PoolFresh, CredentialsBounded, Budgeted
<1> QED BY <1>5, <1>6, <1>7 DEF Budgeted

\* Holding a connection, or finding none left.
LEMMA HoldBudgeted ==
    ASSUME Typed, NEW r \in Requests, Budgeted(r), Hold(r)
    PROVE Budgeted(r)'
<1>0. /\ pc \in [Requests -> PCs] /\ walk \in [Requests -> Walks] /\ pool \in [Requests -> Pools]
      /\ pc[r] = "picked"
  BY DEF Typed, TypeOK, Walks, Pools, Hold
<1>1. /\ UNCHANGED <<round, pool, calls>>
      /\ walk'[r].tried = walk[r].tried /\ walk'[r].attempted = walk[r].attempted
      /\ \/ pc'[r] = "loopTop"
         \/ pc'[r] = "holding" /\ cred'[r] = cred[r]
  BY <1>0 DEF Hold, Walks
<1>2. PoolFresh(r)'
  BY <1>0, <1>1 DEF Budgeted, PoolFresh
<1>3. CASE pc'[r] = "loopTop"
  BY <1>1, <1>2, <1>3, OutsideTurns DEF Turning
<1>4. CASE pc'[r] = "holding" /\ cred'[r] = cred[r]
  <2>1. RoundsBounded(r)' /\ CredentialsBounded(r)'
    BY <1>0, <1>1, <1>4, RoundsKept DEF Budgeted, CredentialsBounded
  <2>2. TurnBounded(r)'
    <3>1. Spent(r)' = Spent(r)
      BY <1>0, <1>1, <1>4 DEF Spent
    <3> QED BY <1>0, <1>1, <1>4, <3>1 DEF Budgeted, TurnBounded, Turning
  <2> QED BY <1>2, <2>1, <2>2 DEF Budgeted
<1> QED BY <1>1, <1>3, <1>4

\* A credential that cannot be prepared ends its turn.
LEMMA PrepareFailsBudgeted ==
    ASSUME Typed, NEW r \in Requests, Budgeted(r), NEW k \in CallErrors, PrepareFails(r, k)
    PROVE Budgeted(r)'
<1>0. /\ pc \in [Requests -> PCs] /\ walk \in [Requests -> Walks]
      /\ pc[r] = "holding" /\ pc'[r] = "loopTop" /\ cred[r] \in Creds
      /\ UNCHANGED <<round, pool, calls>>
  BY DEF Typed, TypeOK, Walks, PrepareFails, Goto, CredPlaced, Working
<1>1. walk'[r].tried = walk[r].tried /\ walk'[r].attempted = walk[r].attempted \union {cred[r]}
  <2>1. PICK e : walk' = [walk EXCEPT ![r].attempted = walk[r].attempted \union {cred[r]},
                                      ![r].err = e]
    BY <1>0 DEF PrepareFails
  <2> QED BY <1>0, <2>1 DEF Walks
<1>2. RoundsBounded(r)'
  BY <1>0, <1>1, RoundsKept DEF Budgeted
<1>3. TurnBounded(r)' /\ PoolFresh(r)'
  BY <1>0 DEF TurnBounded, PoolFresh, Budgeted, Turning
<1>4. CredentialsBounded(r)'
  BY <1>0, <1>1, Attempted DEF Budgeted
<1> QED BY <1>2, <1>3, <1>4 DEF Budgeted

\* The next model of the pool, or the end of the turn.
LEMMA NextModelBudgeted ==
    ASSUME Typed, NEW r \in Requests, Budgeted(r), NextModel(r)
    PROVE Budgeted(r)'
<1>0. /\ pc \in [Requests -> PCs] /\ walk \in [Requests -> Walks] /\ pool \in [Requests -> Pools]
      /\ pc[r] = "failed"
      /\ UNCHANGED <<cred, round, walk, calls>>
  BY DEF Typed, TypeOK, Walks, Pools, NextModel, loopVars
<1>1. PICK c \in Creds : c = cred[r]
  BY <1>0 DEF Typed, CredPlaced, Working
<1>2. CredentialsBounded(r)'
  BY <1>0 DEF Budgeted, CredentialsBounded, NextModel
<1>3. CASE pool[r].err = "quota" \/ pool[r].model = Models[cred[r]]
  <2>1. pc'[r] = "loopTop" /\ pool'[r] = FreshPool
    BY <1>0, <1>3 DEF NextModel
  <2>2. RoundsBounded(r)'
    BY <1>0, RoundsKept DEF Budgeted
  <2>3. TurnBounded(r)' /\ PoolFresh(r)'
    BY <2>1 DEF TurnBounded, PoolFresh, Turning, FreshPool
  <2>4. CredentialsBounded(r)'
    BY <1>0, <2>1 DEF Budgeted, CredentialsBounded
  <2> QED BY <2>2, <2>3, <2>4 DEF Budgeted
<1>4. CASE ~(pool[r].err = "quota" \/ pool[r].model = Models[cred[r]])
  <2>1. /\ pc'[r] = "ready"
        /\ pool' = [pool EXCEPT ![r] = [FreshPool EXCEPT !.model = pool[r].model + 1,
                                                         !.refreshed = pool[r].refreshed]]
    BY <1>0, <1>4 DEF NextModel
  <2>2. /\ pool'[r].model = pool[r].model + 1 /\ pool'[r].same = 0
        /\ pool'[r].refreshed = pool[r].refreshed
    BY <1>0, <2>1 DEF FreshPool
  <2>3. /\ pool[r].model \in 1..Models[c] /\ pool[r].same \in 0..SameRetry[c]
        /\ pool[r].refreshed \in BOOLEAN /\ Models[c] \in Nat
    <3>1. pool[r].same \in Nat /\ pool[r].refreshed \in BOOLEAN
      BY <1>0 DEF Pools
    <3> QED BY <1>0, <1>1, <3>1, Numbers, SettingAssumption DEF Budgeted, TurnBounded, Turning
  <2>4. pool'[r].model \in 1..Models[c] /\ pool'[r].same \in 0..SameRetry[c]
    <3>1. pool[r].model # Models[c]
      BY <1>1, <1>4
    <3> QED BY <2>2, <2>3, <3>1, Numbers
  <2>5. Spent(r) <= Spent(r)'
    <3>0. /\ pool[r].model - 1 \in Nat /\ (pool[r].model - 1) + 1 = pool[r].model
          /\ SameRetry[c] + 1 \in Nat
      BY <2>3, Numbers
    <3>1. PICK x \in Nat : x = (pool[r].model - 1) * (SameRetry[c] + 1)
      BY <3>0, Products
    <3>2. x + SameRetry[c] + 1 = pool[r].model * (SameRetry[c] + 1)
      <4>1. ((pool[r].model - 1) + 1) * (SameRetry[c] + 1)
              = (pool[r].model - 1) * (SameRetry[c] + 1) + (SameRetry[c] + 1)
        BY <3>0, Products
      <4> QED BY <3>0, <3>1, <4>1, Numbers
    <3>3. Spent(r) = x + pool[r].same + (IF pool[r].refreshed THEN 1 ELSE 0) + 1
      BY <1>0, <1>1, <3>1 DEF Spent
    <3>4. Spent(r)' = x + SameRetry[c] + 1 + (IF pool[r].refreshed THEN 1 ELSE 0)
      <4>1. Spent(r)' = ((pool[r].model + 1) - 1) * (SameRetry[c] + 1) + 0
                          + (IF pool[r].refreshed THEN 1 ELSE 0) + 0
        BY <1>0, <1>1, <2>1, <2>2 DEF Spent
      <4>2. (pool[r].model + 1) - 1 = pool[r].model
        BY <2>3
      <4> QED BY <3>2, <4>1, <4>2, <2>3, Numbers
    <3> QED BY <3>3, <3>4, <2>3, Numbers
  <2> QED BY <1>0, <1>1, <1>2, <2>1, <2>4, <2>5, WithinTurn DEF Turning
<1> QED BY <1>3, <1>4

\* A wait leads to the next round.
LEMMA WaitsBudgeted ==
    ASSUME Typed, NEW r \in Requests, Budgeted(r), ClosestCooldownWait(r) \/ Wait(r)
    PROVE Budgeted(r)'
<1>0. /\ pc \in [Requests -> PCs] /\ pc[r] \in {"measuring", "waiting"}
      /\ UNCHANGED <<pool, calls>>
      /\ PoolFresh(r)
  BY DEF Typed, TypeOK, ClosestCooldownWait, Wait, Budgeted
<1>1. \/ NextRound(r)
      \/ /\ UNCHANGED loopVars
         /\ \/ pc' = [pc EXCEPT ![r] = "waiting"]
            \/ pc' = [pc EXCEPT ![r] = "returning"]
  <2>1. CASE Wait(r)
    BY <2>1 DEF Wait
  <2>2. CASE ClosestCooldownWait(r)
    <3> DEFINE waits == {blocked[c] : c \in Eligible(r)}
               choices == IF "free" \in waits THEN {"free"}
                          ELSE IF "short" \in waits THEN {"short"}
                          ELSE IF "long" \in waits THEN {"long"}
                          ELSE {"free"} \union Deadlines
    <3>1. PICK w \in choices :
            CASE w = "free" -> NextRound(r)
              [] w = "short" -> /\ pc' = [pc EXCEPT ![r] = "waiting"]
                                /\ UNCHANGED <<cred, loopVars>>
              [] w = "long" -> /\ pc' = [pc EXCEPT ![r] = "returning"]
                               /\ UNCHANGED <<cred, loopVars>>
      BY <2>2, Zenon DEF ClosestCooldownWait
    <3>2. w \in {"free", "short", "long"}
      BY SettingAssumption
    <3> QED BY <3>1, <3>2
  <2> QED BY <2>1, <2>2
<1>2. CASE NextRound(r)
  <2>1. /\ pc'[r] = "loopTop" /\ walk'[r].attempted = {}
    BY <1>0, <1>2 DEF NextRound, FreshWalk, Typed, TypeOK
  <2>2. RoundsBounded(r)'
    BY <1>0, <1>2, RoundsNext DEF Budgeted
  <2>3. TurnBounded(r)' /\ PoolFresh(r)'
    BY <1>0, <2>1 DEF TurnBounded, PoolFresh, Turning
  <2>4. CredentialsBounded(r)'
    <3>1. IsFiniteSet({}) /\ Cardinality({}) = 0
      BY FS_EmptySet
    <3> QED BY <2>1, <3>1, SettingAssumption DEF CredentialsBounded
  <2> QED BY <2>2, <2>3, <2>4 DEF Budgeted
<1>3. CASE /\ UNCHANGED loopVars
           /\ \/ pc' = [pc EXCEPT ![r] = "waiting"]
              \/ pc' = [pc EXCEPT ![r] = "returning"]
  <2>1. pc'[r] \in {"waiting", "returning"} /\ UNCHANGED <<round, walk>>
    BY <1>0, <1>3 DEF loopVars
  <2>2. pc'[r] = "waiting" => PoolFresh(r)'
    BY <1>0, <2>1 DEF PoolFresh
  <2> QED BY <1>0, <2>1, <2>2, OutsideTurns DEF Turning
<1> QED BY <1>1, <1>2, <1>3

\* Every step of a request keeps its budget.
LEMMA StepBudgeted ==
    ASSUME Typed, NEW r \in Requests, Budgeted(r), Start(r) \/ Step(r) \/ Forward(r)
    PROVE Budgeted(r)'
<1>1. CASE \/ Start(r) \/ LoopTop(r) \/ PickFails(r) \/ NoModels(r) \/ Terminate(r)
           \/ CallSucceeds(r) \/ StopRequest(r) \/ StreamEnds(r) \/ StreamCancelled(r)
           \/ Drained(r) \/ Forward(r) \/ RetryAllowed(r)
  BY <1>1, StepsOutside
<1>2. CASE \/ BeginCall(r) \/ Refresh(r) \/ RetrySame(r)
           \/ Prepared(r) \/ \E k \in ErrorsOf(r) : CallFails(r, k)
  BY <1>2, StepsWithin
<1>3. CASE \E c \in Creds : Pick(r, c)
  BY <1>3, PickBudgeted
<1>4. CASE Hold(r)
  BY <1>4, HoldBudgeted
<1>5. CASE \E k \in CallErrors : PrepareFails(r, k)
  BY <1>5, PrepareFailsBudgeted
<1>6. CASE NextModel(r)
  BY <1>6, NextModelBudgeted
<1>7. CASE ClosestCooldownWait(r) \/ Wait(r)
  BY <1>7, WaitsBudgeted
<1>8. CASE Bootstrapped(r) \/ Return(r)
  <2>1. Forget(r) /\ pc'[r] \in {"streaming", "returned"}
    BY <1>8 DEF Bootstrapped, Return, Goto, Typed, TypeOK
  <2> QED BY <2>1, Forgotten DEF Turning
<1> QED BY <1>1, <1>2, <1>3, <1>4, <1>5, <1>6, <1>7, <1>8 DEF Step

\* The other requests do not move.
LEMMA OneMoves ==
    ASSUME Typed, NEW r \in Requests, NEW q \in Requests, q # r,
           Start(r) \/ Step(r) \/ Forward(r)
    PROVE /\ pc'[q] = pc[q] /\ cred'[q] = cred[q] /\ round'[q] = round[q]
          /\ walk'[q] = walk[q] /\ pool'[q] = pool[q] /\ calls'[q] = calls[q]
<1> USE DEF Typed, TypeOK, Goto, loopVars
<1>1. CASE ClosestCooldownWait(r) \/ Wait(r)
  <2>1. /\ UNCHANGED <<pool, calls>>
        /\ \/ NextRound(r)
           \/ UNCHANGED <<cred, round, walk>> /\ \E p \in PCs : pc' = [pc EXCEPT ![r] = p]
    <3>1. CASE Wait(r)
      BY <3>1 DEF Wait, PCs
    <3>2. CASE ClosestCooldownWait(r)
      <4> DEFINE waits == {blocked[c] : c \in Eligible(r)}
                 choices == IF "free" \in waits THEN {"free"}
                            ELSE IF "short" \in waits THEN {"short"}
                            ELSE IF "long" \in waits THEN {"long"}
                            ELSE {"free"} \union Deadlines
      <4>1. PICK w \in choices :
              CASE w = "free" -> NextRound(r)
                [] w = "short" -> /\ pc' = [pc EXCEPT ![r] = "waiting"]
                                  /\ UNCHANGED <<cred, loopVars>>
                [] w = "long" -> /\ pc' = [pc EXCEPT ![r] = "returning"]
                                 /\ UNCHANGED <<cred, loopVars>>
        BY <3>2, Zenon DEF ClosestCooldownWait
      <4>2. w \in {"free", "short", "long"}
        BY SettingAssumption
      <4>3. UNCHANGED <<pool, calls>>
        BY <3>2 DEF ClosestCooldownWait
      <4> QED BY <4>1, <4>2, <4>3 DEF PCs
    <3> QED BY <1>1, <3>1, <3>2
  <2> QED BY <2>1 DEF NextRound
<1>2. CASE \/ Start(r) \/ LoopTop(r) \/ PickFails(r) \/ NoModels(r) \/ Terminate(r)
           \/ CallSucceeds(r) \/ StopRequest(r) \/ StreamEnds(r) \/ StreamCancelled(r)
           \/ Drained(r) \/ Forward(r) \/ RetryAllowed(r)
  BY <1>2 DEF Start, LoopTop, PickFails, NoModels, Terminate, CallSucceeds, StopRequest,
       StreamEnds, StreamCancelled, Drained, Forward, RetryAllowed
<1>3. CASE \/ BeginCall(r) \/ Refresh(r) \/ RetrySame(r) \/ NextModel(r)
           \/ Prepared(r) \/ \E k \in ErrorsOf(r) : CallFails(r, k)
  BY <1>3 DEF BeginCall, Refresh, RetrySame, NextModel, Prepared, CallFails
<1>4. CASE \/ \E c \in Creds : Pick(r, c)
           \/ Hold(r)
           \/ \E k \in CallErrors : PrepareFails(r, k)
  BY <1>4 DEF Pick, Hold, PrepareFails
<1>5. CASE Bootstrapped(r) \/ Return(r)
  BY <1>5 DEF Bootstrapped, Return, Forget
<1> QED BY <1>1, <1>2, <1>3, <1>4, <1>5 DEF Step

\* No request has used anything.
LEMMA InitBudgeted == Init => \A r \in Requests : Budgeted(r)
<1> SUFFICES ASSUME Init, NEW r \in Requests PROVE Budgeted(r)
  OBVIOUS
<1>1. /\ round[r] = 0 /\ walk[r].tried = {} /\ walk[r].attempted = {} /\ pc[r] = "idle"
      /\ pool[r].model = 1 /\ pool[r].same = 0 /\ pool[r].refreshed = FALSE
      /\ \A c \in Creds : calls[r][c] = 0
  BY DEF Init, FreshWalk, FreshPool
<1>2. RoundsBounded(r)
  <2> SUFFICES ASSUME NEW c \in Creds
               PROVE /\ 0 <= (0 + 1) * Turn(c) /\ 0 <= (Retry[c] + 1) * Turn(c)
                     /\ 0 <= Retry[c] /\ 0 <= 0 * Turn(c)
    BY <1>1 DEF RoundsBounded
  <2>1. Turn(c) \in Nat /\ Retry[c] \in Nat
    BY InitTyped, Numbers
  <2>2. 0 * Turn(c) \in Nat /\ (0 + 1) * Turn(c) \in Nat /\ (Retry[c] + 1) * Turn(c) \in Nat
    BY <2>1, Products
  <2> QED BY <2>1, <2>2
<1>3. TurnBounded(r) /\ PoolFresh(r)
  BY <1>1 DEF TurnBounded, PoolFresh, Turning
<1>4. CredentialsBounded(r)
  <2>1. IsFiniteSet({}) /\ Cardinality({}) = 0
    BY FS_EmptySet
  <2> QED BY <1>1, <2>1, SettingAssumption DEF CredentialsBounded
<1> QED BY <1>2, <1>3, <1>4 DEF Budgeted

AllBudgeted == \A r \in Requests : Budgeted(r)

\* Whatever the rounds, models, refreshes and same-credential retries, a request
\* calls no credential more often than the settings multiply to, and one round
\* uses no more credentials than maxRetryCredentials.
THEOREM RetriesStayInBudget == Spec => []RetryBudget
<1>1. Init => AllBudgeted
  BY InitBudgeted DEF AllBudgeted
<1>2. Typed /\ AllBudgeted /\ [Next]_vars => AllBudgeted'
  <2> SUFFICES ASSUME Typed, AllBudgeted, [Next]_vars, NEW q \in Requests PROVE Budgeted(q)'
    BY DEF AllBudgeted
  <2>1. CASE \E r \in Requests : Start(r) \/ Step(r) \/ Forward(r)
    <3>1. PICK r \in Requests : Start(r) \/ Step(r) \/ Forward(r)
      BY <2>1
    <3>2. CASE q = r
      BY <3>1, <3>2, StepBudgeted DEF AllBudgeted
    <3>3. CASE q # r
      BY <3>1, <3>3, OneMoves, Unmoved DEF AllBudgeted
    <3> QED BY <3>2, <3>3
  <2>2. CASE UNCHANGED <<pc, cred, loopVars, pool, calls>>
    BY <2>2, Unmoved DEF AllBudgeted, loopVars
  <2> QED BY <2>1, <2>2 DEF Next, Change, vars
<1>3. AllBudgeted => RetryBudget
  BY DEF AllBudgeted, Budgeted, RoundsBounded, CredentialsBounded, RetryBudget, Turn
<1> QED BY <1>1, <1>2, <1>3, TypeInvariance, PTL DEF Spec

-----------------------------------------------------------------------------
(* Streams *)

\* Once payload of a stream has reached the client no step returns to the walk
\* over credentials.
THEOREM StreamsAreNeverReplayed == Spec => []NeverReplayed
<1>1. Init => NeverReplayed
  BY DEF Init, NeverReplayed
<1>2. Typed /\ NeverReplayed /\ [Next]_vars => NeverReplayed'
  <2> SUFFICES ASSUME Typed, NeverReplayed, [Next]_vars, NEW q \in Requests, reached'[q]
               PROVE pc'[q] \in {"streaming", "draining", "closing", "returning", "returned"}
    BY DEF NeverReplayed
  <2>0. pc \in [Requests -> PCs] /\ reached \in [Requests -> BOOLEAN]
    BY DEF Typed, TypeOK
  <2>1. CASE \E r \in Requests : Start(r) \/ Step(r) \/ Forward(r)
    <3>1. PICK r \in Requests : Start(r) \/ Step(r) \/ Forward(r)
      BY <2>1
    <3>2. CASE Forward(r)
      BY <2>0, <3>2 DEF Forward, NeverReplayed
    <3>3. CASE Start(r) \/ Step(r)
      <4>1. reached[q] /\ reached' = reached
        BY <3>3 DEF Step, Start, LoopTop, PickFails, Hold, NoModels, Prepared, Pick, PrepareFails,
             BeginCall, Terminate, CallFails, CallSucceeds, Refresh, RetrySame, StopRequest,
             NextModel, Bootstrapped, StreamEnds, StreamCancelled, Drained, Return, RetryAllowed,
             ClosestCooldownWait, Wait
      <4>2. pc[q] \in {"streaming", "draining", "closing", "returning", "returned"}
        BY <4>1 DEF NeverReplayed
      <4>3. CASE q # r
        BY <3>1, <4>2, <4>3, OneMoves
      <4>4. CASE q = r
        <5>1. StreamEnds(r) \/ StreamCancelled(r) \/ Drained(r) \/ Return(r)
          BY <3>3, <4>2, <4>4 DEF Step, Start, LoopTop, PickFails, Hold, NoModels, Prepared, Pick,
               PrepareFails, BeginCall, Terminate, CallFails, CallSucceeds, Refresh, RetrySame,
               StopRequest, NextModel, Bootstrapped, RetryAllowed, ClosestCooldownWait, Wait, Goto
        <5> QED BY <2>0, <4>4, <5>1 DEF StreamEnds, StreamCancelled, Drained, Return, Goto
      <4> QED BY <4>3, <4>4
    <3> QED BY <3>1, <3>2, <3>3
  <2>2. CASE UNCHANGED <<pc, reached>>
    BY <2>2 DEF NeverReplayed
  <2> QED BY <2>1, <2>2 DEF Next, Change, vars
<1> QED BY <1>1, <1>2, TypeInvariance, PTL DEF Spec
=============================================================================
