----------------------------- MODULE ReleaseLedger -----------------------------
(***************************************************************************)
(* What the release flusher promises (internal/home/concurrency_release.go *)
(* and the waiter channels it hands out), without queues, timers and       *)
(* retries: a book of what is owed to Home and what Home was told.         *)
(*                                                                         *)
(* A ticket is a group and a cumulative sequence.  It is settled only when *)
(* Home was told of a sequence that covers it, Home is told only what some *)
(* release reported, and a Flush returns nil only when everything that was *)
(* owed when it was called has been told.  ReleaseFlusher implements it.   *)
(***************************************************************************)
EXTENDS Naturals

CONSTANTS Groups, MaxSeq, Flushers

VARIABLES
    owed,      \* largest sequence reported of each group
    told,      \* largest sequence Home knows of each group
    open,      \* tickets somebody waits on
    settled,   \* tickets whose wait is over
    flush,     \* where a Flush caller is
    promised   \* what was owed when that Flush was called

vars == <<owed, told, open, settled, flush, promised>>

Seqs == 1..MaxSeq
Covered(w) == w[2] <= told[w[1]]

Init ==
    /\ owed = [g \in Groups |-> 0]
    /\ told = [g \in Groups |-> 0]
    /\ open = {}
    /\ settled = {}
    /\ flush = [c \in Flushers |-> "idle"]
    /\ promised = [c \in Flushers |-> [g \in Groups |-> 0]]

\* A release is reported, in whatever order and possibly again.  Its ticket may
\* be settled at once if Home already knows.
Report(g, n) ==
    /\ owed' = [owed EXCEPT ![g] = IF @ < n THEN n ELSE @]
    /\ \/ open' = open \union {<<g, n>>} /\ settled' = settled
       \/ Covered(<<g, n>>) /\ settled' = settled \union {<<g, n>>} /\ open' = open
    /\ UNCHANGED <<told, flush, promised>>

\* Home learns more, whether or not the flusher hears of it.
Tell(g, n) ==
    /\ told[g] < n /\ n <= owed[g]
    /\ told' = [told EXCEPT ![g] = n]
    /\ UNCHANGED <<owed, open, settled, flush, promised>>

Settle(W) ==
    /\ \A w \in W : Covered(w)
    /\ open' = open \ W
    /\ settled' = settled \union W
    /\ UNCHANGED <<owed, told, flush, promised>>

FlushBegins(c) ==
    /\ flush[c] \in {"idle", "expired"}
    /\ flush' = [flush EXCEPT ![c] = "polling"]
    /\ promised' = [promised EXCEPT ![c] = owed]
    /\ UNCHANGED <<owed, told, open, settled>>

FlushReturns(c) ==
    /\ flush[c] = "polling"
    /\ \A g \in Groups : promised[c][g] <= told[g]
    /\ flush' = [flush EXCEPT ![c] = "flushed"]
    /\ UNCHANGED <<owed, told, open, settled, promised>>

FlushGivesUp(c) ==
    /\ flush[c] = "polling"
    /\ flush' = [flush EXCEPT ![c] = "expired"]
    /\ UNCHANGED <<owed, told, open, settled, promised>>

Next ==
    \/ \E g \in Groups, n \in Seqs : Report(g, n) \/ Tell(g, n)
    \/ \E W \in SUBSET open : Settle(W)
    \/ \E c \in Flushers : FlushBegins(c) \/ FlushReturns(c) \/ FlushGivesUp(c)

Spec == Init /\ [][Next]_vars
=============================================================================
