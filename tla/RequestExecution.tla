--------------------------- MODULE RequestExecution ---------------------------
(***************************************************************************)
(* One client request in local (non-Home) mode: the retry rounds of        *)
(* Execute and ExecuteStream, the walk over credentials of                 *)
(* executeMixedOnce and executeStreamMixedOnce, the model pool with its    *)
(* refresh and same-credential retries, and the channel connection lease   *)
(* each attempt holds (conductor_execution.go, conductor_stream.go,        *)
(* channel_connection.go, conductor_selection.go).                         *)
(*                                                                         *)
(* What a result does to a credential is the Cooldown module's; here a     *)
(* credential is free, cooling for a wait of at most maxWait ("short") or  *)
(* more ("long"), or blocked by an outcome no retry round waits for        *)
(* ("stuck"); it may change at any time, for time passes and other requests *)
(* report results too.  The selector may pick any candidate.  Upstream is  *)
(* external.                                                               *)
(***************************************************************************)
EXTENDS Naturals, FiniteSets

CONSTANTS
    Requests,        \* client requests
    Streams,         \* those that came through ExecuteStream
    Creds,           \* credentials of the requested model
    NoCred,          \* no credential selected
    Cap,             \* MaxConcurrentConnections of a credential, 0 for no cap
    Retry,           \* effectiveRequestRetryLimit of a credential
    SameRetry,       \* ProviderRetryCount of a credential
    Models,          \* length of a credential's model pool
    MaxCredentials,  \* maxRetryCredentials, 0 for no bound
    Deadlines        \* what a cooldown may be: {"long"} when maxWait is 0

ASSUME RequestAssumption == Streams \subseteq Requests /\ IsFiniteSet(Requests)
ASSUME CredAssumption == NoCred \notin Creds
ASSUME SettingAssumption ==
    /\ Cap \in [Creds -> Nat]
    /\ Retry \in [Creds -> Nat]
    /\ SameRetry \in [Creds -> Nat]
    /\ Models \in [Creds -> Nat \ {0}]
    /\ MaxCredentials \in Nat
    /\ Deadlines \subseteq {"short", "long"}

VARIABLES
    pc,       \* where a request is
    cred,     \* its selected credential
    round,    \* its retry round
    walk,     \* the walk over credentials in this round: those tried and those
              \* called, the error to report, whether a call ended with it, and
              \* whether a channel was full
    pool,     \* the walk over the selected credential's models: the model, its
              \* retries in place, whether the token was refreshed, the error
    conn,     \* the atomic connection counter of a credential
    blocked,  \* availability of a credential for the model
    calls,    \* history: upstream calls the request has made with a credential
    reached   \* history: payload of a request's stream reached the client

loopVars == <<round, walk>>
vars == <<pc, cred, loopVars, pool, conn, blocked, calls, reached>>

None == "none"

\* Errors an upstream call or its preparation ends with: a status listed in
\* provider-retry-status-codes, a credential-scoped quota failure, a 401, a
\* request fault or a configured stop, a late first token, any other.
CallErrors == {"retryable", "quota", "unauthorized", "stop", "other"}
ErrorsOf(r) == IF r \in Streams THEN CallErrors \union {"slow"} ELSE CallErrors

\* isCredentialRetryRoundStatus; "cooldown" is the 429 of a selector that found
\* every candidate cooling.
RoundErrors == {"retryable", "quota", "slow", "cooldown"}
Errors == CallErrors \union {"slow", "cooldown", "full"}

FreshWalk(tried) ==
    [tried |-> tried, attempted |-> {}, err |-> None, up |-> FALSE,
     full |-> FALSE]
FreshPool == [model |-> 1, same |-> 0, refreshed |-> FALSE, err |-> None]

Init ==
    /\ pc = [r \in Requests |-> "idle"]
    /\ cred = [r \in Requests |-> NoCred]
    /\ round = [r \in Requests |-> 0]
    /\ walk = [r \in Requests |-> FreshWalk({})]
    /\ pool = [r \in Requests |-> FreshPool]
    /\ conn = [c \in Creds |-> 0]
    /\ blocked = [c \in Creds |-> "free"]
    /\ calls = [r \in Requests |-> [c \in Creds |-> 0]]
    /\ reached = [r \in Requests |-> FALSE]

Goto(r, from, to) == pc[r] = from /\ pc' = [pc EXCEPT ![r] = to]

-----------------------------------------------------------------------------
(* Shared steps *)

\* The release closure of a lease.
Released(c) ==
    IF c = NoCred THEN conn
    ELSE [conn EXCEPT ![c] = IF @ > 0 THEN @ - 1 ELSE 0]

\* What MarkResult may leave of a credential's availability.  A block may fall on
\* another model of the pool, cooling may be disabled, and a success does not
\* end an open credential window.
After(c, k) ==
    {blocked[c]} \union
      CASE k = "ok" -> {"free"}
        [] k \in {"retryable", "quota"} -> Deadlines
        [] k \in {"unauthorized", "other"} -> {"stuck"}
        [] k \in {"stop", "slow"} -> {}

MarkResult(c, k) == \E b \in After(c, k) : blocked' = [blocked EXCEPT ![c] = b]

\* Mutant: a round starts over with every credential.
Excluded_None(n) == {}

\* requestRetryRoundExclusions
Excluded(n) == {c \in Creds : Retry[c] < n}

NextRound(r) ==
    /\ pc' = [pc EXCEPT ![r] = "loopTop"]
    /\ cred' = [cred EXCEPT ![r] = NoCred]
    /\ round' = [round EXCEPT ![r] = @ + 1]
    /\ walk' = [walk EXCEPT ![r] = FreshWalk(Excluded(round[r] + 1))]

\* The request's locals when ExecuteStream or Execute has returned.
Forget(r) ==
    /\ round' = [round EXCEPT ![r] = 0]
    /\ walk' = [walk EXCEPT ![r] = FreshWalk({})]
    /\ pool' = [pool EXCEPT ![r] = FreshPool]
    /\ calls' = [calls EXCEPT ![r] = [c \in Creds |-> 0]]

Start(r) ==
    /\ Goto(r, "idle", "loopTop")
    /\ UNCHANGED <<cred, loopVars, pool, conn, blocked, calls, reached>>

-----------------------------------------------------------------------------
(* The walk over credentials of one round *)

\* The head of the loop: release the previous lease, then check the budget of
\* credentials.
LoopTop(r) ==
    /\ pc[r] = "loopTop"
    /\ pc' = [pc EXCEPT ![r] =
                IF MaxCredentials > 0
                   /\ Cardinality(walk[r].attempted) >= MaxCredentials
                THEN "deciding" ELSE "picking"]
    /\ conn' = Released(cred[r])
    /\ cred' = [cred EXCEPT ![r] = NoCred]
    /\ UNCHANGED <<loopVars, pool, blocked, calls, reached>>

\* pickNextMixed returned a credential.
Pick(r, c) ==
    /\ Goto(r, "picking", "picked")
    /\ c \notin walk[r].tried
    /\ blocked[c] = "free"
    /\ cred' = [cred EXCEPT ![r] = c]
    /\ walk' = [walk EXCEPT ![r].tried = @ \union {c}]
    /\ UNCHANGED <<round, pool, conn, blocked, calls, reached>>

\* pickNextMixed found nobody.  An earlier error of the round is preferred to a
\* full channel, and that to the selector's own error.
PickFails(r) ==
    LET left == Creds \ walk[r].tried IN
    /\ Goto(r, "picking", "deciding")
    /\ \A c \in left : blocked[c] # "free"
    /\ walk' = [walk EXCEPT ![r].err =
                  CASE @ # None -> @
                    [] @ = None /\ walk[r].full -> "full"
                    [] @ = None /\ ~walk[r].full ->
                         IF left # {} /\ \A c \in left : blocked[c] \in Deadlines
                         THEN "cooldown" ELSE "other"]
    /\ UNCHANGED <<cred, round, pool, conn, blocked, calls, reached>>

\* holdChannelConnection: compare-and-swap on the counter.
Hold(r) ==
    LET c == cred[r] IN
    /\ pc[r] = "picked"
    /\ IF Cap[c] > 0 /\ conn[c] >= Cap[c]
       THEN /\ pc' = [pc EXCEPT ![r] = "loopTop"]
            /\ cred' = [cred EXCEPT ![r] = NoCred]
            /\ walk' = [walk EXCEPT ![r].full = TRUE]
            /\ UNCHANGED conn
       ELSE /\ pc' = [pc EXCEPT ![r] = "holding"]
            /\ conn' = [conn EXCEPT ![c] = @ + 1]
            /\ UNCHANGED <<cred, walk>>
    /\ UNCHANGED <<round, pool, blocked, calls, reached>>

\* preparedExecutionModelsWithAlias left no model to try.
NoModels(r) ==
    /\ Goto(r, "holding", "loopTop")
    /\ UNCHANGED <<cred, loopVars, pool, conn, blocked, calls, reached>>

Prepared(r) ==
    /\ Goto(r, "holding", "ready")
    /\ walk' = [walk EXCEPT ![r].attempted = @ \union {cred[r]}]
    /\ UNCHANGED <<cred, round, pool, conn, blocked, calls, reached>>

\* prepareRequestAuth failed: the failure is recorded and the walk goes on.
PrepareFails(r, k) ==
    /\ Goto(r, "holding", "loopTop")
    /\ walk' = [walk EXCEPT ![r].attempted = @ \union {cred[r]},
                            ![r].err = IF walk[r].up THEN @ ELSE k]
    /\ MarkResult(cred[r], k)
    /\ UNCHANGED <<cred, round, pool, conn, calls, reached>>

-----------------------------------------------------------------------------
(* The walk over the models of the selected credential *)

BeginCall(r) ==
    /\ Goto(r, "ready", "calling")
    /\ calls' = [calls EXCEPT ![r][cred[r]] = @ + 1]
    /\ UNCHANGED <<cred, loopVars, pool, conn, blocked, reached>>

\* The request interceptor ended the request, or its context was cancelled:
\* nothing is recorded.
Terminate(r) ==
    /\ pc[r] \in {"ready", "calling"}
    /\ pc' = [pc EXCEPT ![r] = "returning"]
    /\ UNCHANGED <<cred, loopVars, pool, conn, blocked, calls, reached>>

CallFails(r, k) ==
    /\ Goto(r, "calling", "failed")
    /\ k \in ErrorsOf(r)
    /\ pool' = [pool EXCEPT ![r].err = k]
    /\ walk' = [walk EXCEPT ![r].err = k, ![r].up = TRUE]
    /\ UNCHANGED <<cred, round, conn, blocked, calls, reached>>

CallSucceeds(r) ==
    /\ Goto(r, "calling", "returning")
    /\ r \notin Streams
    /\ MarkResult(cred[r], "ok")
    /\ UNCHANGED <<cred, loopVars, pool, conn, calls, reached>>

\* tryRefreshAfterUnauthorized succeeded: the call is made once more, and the 401
\* is not recorded.
Refresh(r) ==
    /\ Goto(r, "failed", "calling")
    /\ pool[r].err = "unauthorized"
    /\ ~pool[r].refreshed
    /\ pool' = [pool EXCEPT ![r].refreshed = TRUE, ![r].err = None]
    /\ calls' = [calls EXCEPT ![r][cred[r]] = @ + 1]
    /\ UNCHANGED <<cred, loopVars, conn, blocked, reached>>

\* shouldRetrySameCredential
RetriesSame(r) ==
    pool[r].err = "retryable" /\ pool[r].same < SameRetry[cred[r]]

\* The failure is recorded as neutral and the same model is called again; the
\* streaming loop runs the interceptor again.
RetrySame(r) ==
    /\ pc[r] = "failed" /\ RetriesSame(r)
    /\ pool' = [pool EXCEPT ![r].same = @ + 1, ![r].err = None]
    /\ IF r \in Streams
       THEN Goto(r, "failed", "ready") /\ UNCHANGED calls
       ELSE /\ Goto(r, "failed", "calling")
            /\ calls' = [calls EXCEPT ![r][cred[r]] = @ + 1]
    /\ UNCHANGED <<cred, loopVars, conn, blocked, reached>>

\* A request fault or a configured stop ends the request with its error.
StopRequest(r) ==
    /\ Goto(r, "failed", "returning")
    /\ pool[r].err = "stop"
    /\ MarkResult(cred[r], "stop")
    /\ UNCHANGED <<cred, loopVars, pool, conn, calls, reached>>

\* The failure is recorded; a credential-scoped one ends the walk over the pool,
\* and so does the last model.
NextModel(r) ==
    LET k == pool[r].err IN
    /\ pc[r] = "failed"
    /\ k # "stop" /\ ~RetriesSame(r)
    /\ MarkResult(cred[r], k)
    /\ IF k = "quota" \/ pool[r].model = Models[cred[r]]
       THEN /\ pc' = [pc EXCEPT ![r] = "loopTop"]
            /\ pool' = [pool EXCEPT ![r] = FreshPool]
       ELSE /\ pc' = [pc EXCEPT ![r] = "ready"]
            /\ pool' = [pool EXCEPT ![r] =
                          [FreshPool EXCEPT !.model = pool[r].model + 1,
                                            !.refreshed = pool[r].refreshed]]
    /\ UNCHANGED <<cred, loopVars, conn, calls, reached>>

-----------------------------------------------------------------------------
(* Streams *)

\* readStreamBootstrap saw a first payload: the lease is detached from the walk
\* and belongs to the stream.
Bootstrapped(r) ==
    /\ Goto(r, "calling", "streaming")
    /\ r \in Streams
    /\ Forget(r)
    /\ UNCHANGED <<cred, conn, blocked, reached>>

Forward(r) ==
    /\ pc[r] = "streaming"
    /\ reached' = [reached EXCEPT ![r] = TRUE]
    /\ UNCHANGED <<pc, cred, loopVars, pool, conn, blocked, calls>>

\* Mutant: a stream that breaks off is handed back to the walk over credentials.
StreamEnds_FailOver(r) ==
    /\ pc[r] = "streaming"
    /\ \/ pc' = [pc EXCEPT ![r] = "closing"] /\ MarkResult(cred[r], "ok")
       \/ pc' = [pc EXCEPT ![r] = "loopTop"] /\ MarkResult(cred[r], "other")
    /\ UNCHANGED <<cred, loopVars, pool, conn, calls, reached>>

\* wrapStreamResult: upstream finished or broke off; the outcome is recorded, and
\* an error is passed on to the client as the last chunk.
StreamEnds(r) ==
    /\ Goto(r, "streaming", "closing")
    /\ \E k \in CallErrors \union {"ok"} : MarkResult(cred[r], k)
    /\ UNCHANGED <<cred, loopVars, pool, conn, calls, reached>>

\* Mutant: the lease is kept until the producer closes.
StreamCancelled_KeepLease(r) ==
    /\ Goto(r, "streaming", "draining")
    /\ UNCHANGED <<cred, loopVars, pool, conn, blocked, calls, reached>>

\* wrapChannelConnectionStream: the client went away; the lease is released
\* before the rest of the stream is discarded.
StreamCancelled(r) ==
    /\ Goto(r, "streaming", "draining")
    /\ conn' = Released(cred[r])
    /\ UNCHANGED <<cred, loopVars, pool, blocked, calls, reached>>

\* The producer closed; the inner wrapper records an outcome unless it had left
\* its loop before.
Drained(r) ==
    /\ Goto(r, "draining", "returning")
    /\ cred' = [cred EXCEPT ![r] = NoCred]
    /\ \E k \in CallErrors \union {"ok", "slow"} : MarkResult(cred[r], k)
    /\ UNCHANGED <<loopVars, pool, conn, calls, reached>>

-----------------------------------------------------------------------------
(* The end of a round and of the request *)

\* The deferred releaseAll, or the closed stream's release.  The locals go away.
Return(r) ==
    /\ pc[r] \in {"returning", "closing"}
    /\ pc' = [pc EXCEPT ![r] = "returned"]
    /\ conn' = Released(cred[r])
    /\ cred' = [cred EXCEPT ![r] = NoCred]
    /\ Forget(r)
    /\ UNCHANGED <<blocked, reached>>

\* Credentials a further round may use: retryRoundAvailabilityForAuth.
Eligible(r) ==
    {c \in Creds : round[r] < Retry[c] /\ blocked[c] # "stuck"}

\* retryAllowed, under the manager's lock.
RetryAllowed(r) ==
    /\ pc[r] = "deciding"
    /\ pc' = [pc EXCEPT ![r] =
                IF walk[r].err \in RoundErrors /\ Eligible(r) # {}
                THEN "measuring" ELSE "returning"]
    /\ UNCHANGED <<cred, loopVars, pool, conn, blocked, calls, reached>>

\* closestCooldownWait, under the lock again: start at once, wait for the closest
\* recovery, or give up when that is further than maxWait.  When the credentials
\* changed in between and none is eligible, the error's own Retry-After decides.
ClosestCooldownWait(r) ==
    LET waits == {blocked[c] : c \in Eligible(r)}
        choices == IF "free" \in waits THEN {"free"}
                   ELSE IF "short" \in waits THEN {"short"}
                   ELSE IF "long" \in waits THEN {"long"}
                   ELSE {"free"} \union Deadlines
    IN
    /\ pc[r] = "measuring"
    /\ \E w \in choices :
         CASE w = "free" -> NextRound(r)
           [] w = "short" -> /\ pc' = [pc EXCEPT ![r] = "waiting"]
                             /\ UNCHANGED <<cred, loopVars>>
           [] w = "long" -> /\ pc' = [pc EXCEPT ![r] = "returning"]
                            /\ UNCHANGED <<cred, loopVars>>
    /\ UNCHANGED <<pool, conn, blocked, calls, reached>>

\* Mutant: woken by a recovery instead of a timer.
Wait_ForRecovery(r) ==
    /\ pc[r] = "waiting"
    /\ \E c \in Eligible(r) : blocked[c] = "free"
    /\ NextRound(r)
    /\ UNCHANGED <<pool, conn, blocked, calls, reached>>

\* waitForCooldown: the jittered timer fired, or the context ended.
Wait(r) ==
    /\ pc[r] = "waiting"
    /\ \/ NextRound(r)
       \/ pc' = [pc EXCEPT ![r] = "returning"] /\ UNCHANGED <<cred, loopVars>>
    /\ UNCHANGED <<pool, conn, blocked, calls, reached>>

\* Time passes, and the results of requests outside this model arrive.
Change(c) ==
    /\ \E b \in {"free", "stuck"} \union Deadlines :
         blocked' = [blocked EXCEPT ![c] = b]
    /\ UNCHANGED <<pc, cred, loopVars, pool, conn, calls, reached>>

-----------------------------------------------------------------------------
Step(r) ==
    \/ LoopTop(r) \/ PickFails(r) \/ Hold(r) \/ NoModels(r) \/ Prepared(r)
    \/ \E c \in Creds : Pick(r, c)
    \/ \E k \in CallErrors : PrepareFails(r, k)
    \/ BeginCall(r) \/ Terminate(r) \/ CallSucceeds(r)
    \/ \E k \in ErrorsOf(r) : CallFails(r, k)
    \/ Refresh(r) \/ RetrySame(r) \/ StopRequest(r) \/ NextModel(r)
    \/ Bootstrapped(r) \/ StreamEnds(r) \/ StreamCancelled(r) \/ Drained(r)
    \/ Return(r) \/ RetryAllowed(r) \/ ClosestCooldownWait(r) \/ Wait(r)

Next ==
    \/ \E r \in Requests : Start(r) \/ Step(r) \/ Forward(r)
    \/ \E c \in Creds : Change(c)

Spec == Init /\ [][Next]_vars

\* Upstream answers or the context ends, a stream finishes or its client leaves,
\* a timer fires, and the request's goroutine runs.
Fairness == \A r \in Requests : WF_vars(Step(r))
FairSpec == Spec /\ Fairness

-----------------------------------------------------------------------------
(* Properties *)

PCs == {"idle", "loopTop", "picking", "picked", "holding", "ready", "calling",
        "failed", "streaming", "draining", "closing", "returning", "returned",
        "deciding", "measuring", "waiting"}

\* The shapes of a request's local state and of the shared counters.
TypeOK ==
    /\ pc \in [Requests -> PCs]
    /\ cred \in [Requests -> Creds \union {NoCred}]
    /\ round \in [Requests -> Nat]
    /\ walk \in [Requests ->
                   [tried : SUBSET Creds, attempted : SUBSET Creds,
                    err : Errors \union {None}, up : BOOLEAN, full : BOOLEAN]]
    /\ pool \in [Requests ->
                   [model : Nat, same : Nat, refreshed : BOOLEAN,
                    err : Errors \union {None}]]
    /\ conn \in [Creds -> Nat]
    /\ blocked \in [Creds -> {"free", "short", "long", "stuck"}]
    /\ calls \in [Requests -> [Creds -> Nat]]
    /\ reached \in [Requests -> BOOLEAN]

\* A request occupies a credential from the acquisition of a lease until it moves
\* on, returns, or the client of its stream is gone.
Holding == {"holding", "ready", "calling", "failed", "streaming", "closing",
            "loopTop", "returning"}
Holders(c) == {r \in Requests : cred[r] = c /\ pc[r] \in Holding}

\* The connection counter is exact: no path through refreshes, retries,
\* failovers, cancellations or streams leaks a lease or releases one twice, and a
\* capped credential never serves more requests than its cap.
ConnectionsExact ==
    \A c \in Creds : /\ conn[c] = Cardinality(Holders(c))
                     /\ Cap[c] > 0 => conn[c] <= Cap[c]

\* Retries do not multiply beyond the settings: over all rounds, models, refreshes
\* and same-credential retries a request calls a credential at most so often, and
\* one round uses at most maxRetryCredentials of them.
RetryBudget ==
    \A r \in Requests :
      /\ \A c \in Creds :
           calls[r][c] <= (Retry[c] + 1) * (Models[c] * (SameRetry[c] + 1) + 1)
      /\ MaxCredentials > 0 =>
           Cardinality(walk[r].attempted) <= MaxCredentials

\* A stream of which the client has seen payload is never restarted, with this
\* credential or another.
NeverReplayed ==
    \A r \in Requests :
      reached[r] => pc[r] \in {"streaming", "draining", "closing", "returning",
                               "returned"}

\* Every request returns, whatever upstream answers and whatever other requests
\* do to the credentials meanwhile.
EveryRequestReturns ==
    \A r \in Requests : pc[r] = "loopTop" ~> pc[r] = "returned"
=============================================================================
