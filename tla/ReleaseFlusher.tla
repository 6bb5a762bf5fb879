---------------------------- MODULE ReleaseFlusher ----------------------------
(***************************************************************************)
(* The flusher of cumulative concurrency releases                          *)
(* (internal/home/concurrency_release.go).  The registry's EndWithRelease  *)
(* calls MarkDirty; one Run goroutine per Home lifetime sends the latest   *)
(* sequence of every dirty group to Home, backs off on failure, and        *)
(* completes the tickets Home has acknowledged; Flush forces an attempt    *)
(* and waits until nothing is dirty.                                       *)
(*                                                                         *)
(* Time is abstract: the timer is due or armed for later, and either may   *)
(* fire.  Home is external: it keeps the largest sequence it received.     *)
(***************************************************************************)
EXTENDS Naturals, FiniteSets

CONSTANTS
    Groups,      \* release groups
    MaxSeq,      \* bound on a group's release sequence
    Senders,     \* send functions, one per Home client lifetime
    NoSender,    \* the nil send function
    Flushers     \* goroutines that call Flush

ASSUME MaxSeqAssumption == MaxSeq \in Nat
ASSUME NoSenderAssumption == NoSender \notin Senders

VARIABLES
    latest, acked,  \* releaseState of each group
    waiters,        \* open tickets: <<group, sequence>>
    completed,      \* tickets whose channel was closed
    sender,         \* f.send
    wake,           \* the cap-1 wake channel holds a token
    forced,         \* the cap-1 force channel holds a context
    run,            \* where Run is: stopped, select, sending or acking
    batch,          \* entries flush has snapshotted and not yet sent
    sent,           \* the entry whose send just returned nil
    failed,         \* some send of this flush failed
    backingOff,     \* Run's flag
    timer,          \* "due" or "later"
    home,           \* largest sequence Home has received of a group
    flush,          \* where a Flush caller is
    wanted          \* history: what was dirty when that Flush was called

markVars == <<latest, acked, waiters, completed>>
runVars  == <<run, batch, sent, failed, backingOff, timer>>
flushVars == <<flush, wanted>>
vars == <<markVars, sender, wake, forced, runVars, home, flushVars>>

Seqs == 1..MaxSeq
NoEntry == <<>>

Bigger(a, b) == IF a < b THEN b ELSE a

Init ==
    /\ latest = [g \in Groups |-> 0]
    /\ acked = [g \in Groups |-> 0]
    /\ waiters = {}
    /\ completed = {}
    /\ sender = NoSender
    /\ wake = FALSE
    /\ forced = FALSE
    /\ run = "stopped"
    /\ batch = {}
    /\ sent = NoEntry
    /\ failed = FALSE
    /\ backingOff = FALSE
    /\ timer = "later"
    /\ home = [g \in Groups |-> 0]
    /\ flush = [c \in Flushers |-> "idle"]
    /\ wanted = [c \in Flushers |-> [g \in Groups |-> 0]]

\* Mutant: an unbuffered wake channel, heard only by a Run that is waiting.
Signal_Unbuffered == wake' = (wake \/ run = "select")

\* signal: a full wake channel already carries the news.
Signal == wake' = TRUE

-----------------------------------------------------------------------------
\* MarkDirty: concurrent EndWithRelease calls may deliver sequences in any
\* order, and SetReleaseSink may repeat one.
MarkDirty(g, n) ==
    /\ IF n <= acked[g]
       THEN /\ completed' = completed \union {<<g, n>>}
            /\ UNCHANGED <<latest, waiters>>
       ELSE /\ waiters' = waiters \union {<<g, n>>}
            /\ latest' = [latest EXCEPT ![g] = Bigger(@, n)]
            /\ UNCHANGED completed
    /\ Signal
    /\ UNCHANGED <<acked, sender, forced, runVars, home, flushVars>>

SetSender(s) ==
    /\ sender' = s
    /\ Signal
    /\ UNCHANGED <<markVars, forced, runVars, home, flushVars>>

-----------------------------------------------------------------------------
(* Run *)

\* A new lifetime starts Run with a timer that fires at once.
RunStart ==
    /\ run = "stopped"
    /\ run' = "select"
    /\ timer' = "due"
    /\ backingOff' = FALSE
    /\ UNCHANGED <<markVars, sender, wake, forced, batch, sent, failed, home,
                   flushVars>>

\* The cancelled context is seen at the select only.
RunStop ==
    /\ run = "select"
    /\ run' = "stopped"
    /\ UNCHANGED <<markVars, sender, wake, forced, batch, sent, failed,
                   backingOff, timer, home, flushVars>>

OnWake ==
    /\ run = "select"
    /\ wake
    /\ wake' = FALSE
    /\ timer' = IF backingOff THEN timer ELSE "due"
    /\ UNCHANGED <<markVars, sender, forced, run, batch, sent, failed,
                   backingOff, home, flushVars>>

Dirty(g) == latest[g] > acked[g]

\* flush: read the sender and the dirty groups under the lock.  Without a sender
\* it returns at once, and reports no failure.
BeginFlush ==
    IF sender = NoSender
    THEN /\ timer' = "later"
         /\ backingOff' = FALSE
         /\ UNCHANGED <<run, batch, failed>>
    ELSE /\ run' = "sending"
         /\ batch' = {<<g, latest[g]>> : g \in {h \in Groups : Dirty(h)}}
         /\ failed' = FALSE
         /\ UNCHANGED <<timer, backingOff>>

OnTimer ==
    /\ run = "select"
    /\ BeginFlush
    /\ UNCHANGED <<markVars, sender, wake, forced, sent, home, flushVars>>

OnForce ==
    /\ run = "select"
    /\ forced
    /\ forced' = FALSE
    /\ BeginFlush
    /\ UNCHANGED <<markVars, sender, wake, sent, home, flushVars>>

\* One send outside the lock that Home acknowledged.
SendOK(g) ==
    \E n \in Seqs :
      /\ run = "sending"
      /\ <<g, n>> \in batch
      /\ run' = "acking"
      /\ batch' = batch \ {<<g, n>>}
      /\ sent' = <<g, n>>
      /\ home' = [home EXCEPT ![g] = Bigger(@, n)]
      /\ UNCHANGED <<markVars, sender, wake, forced, failed, backingOff, timer,
                     flushVars>>

\* One send that failed: the frame, or only Home's answer to it, was lost.
SendFail(g) ==
    \E n \in Seqs :
      /\ run = "sending"
      /\ <<g, n>> \in batch
      /\ batch' = batch \ {<<g, n>>}
      /\ failed' = TRUE
      /\ home' \in {home, [home EXCEPT ![g] = Bigger(@, n)]}
      /\ UNCHANGED <<markVars, sender, wake, forced, run, sent, backingOff,
                     timer, flushVars>>

\* Mutant: the acknowledgement is taken to cover whatever is latest by now.
RecordAck_Latest ==
    /\ run = "acking"
    /\ run' = "sending"
    /\ sent' = NoEntry
    /\ LET g == sent[1]
           n == latest[g]
           covered == {w \in waiters : w[1] = g /\ w[2] <= n}
       IN /\ acked' = [acked EXCEPT ![g] = n]
          /\ waiters' = waiters \ covered
          /\ completed' = completed \union covered
    /\ UNCHANGED <<latest, sender, wake, forced, batch, failed, backingOff,
                   timer, home, flushVars>>

\* Mutant: only the ticket of the acknowledged sequence itself is completed.
RecordAck_ExactTicket ==
    /\ run = "acking"
    /\ run' = "sending"
    /\ sent' = NoEntry
    /\ LET g == sent[1]
           n == sent[2]
           covered == {w \in waiters : w[1] = g /\ w[2] = n}
       IN IF n > acked[g]
          THEN /\ acked' = [acked EXCEPT ![g] = n]
               /\ waiters' = waiters \ covered
               /\ completed' = completed \union covered
          ELSE UNCHANGED <<acked, waiters, completed>>
    /\ UNCHANGED <<latest, sender, wake, forced, batch, failed, backingOff,
                   timer, home, flushVars>>

\* Under the lock again: record the acknowledgement and complete the tickets it
\* covers.
RecordAck ==
    /\ run = "acking"
    /\ run' = "sending"
    /\ sent' = NoEntry
    /\ LET g == sent[1]
           n == sent[2]
           covered == {w \in waiters : w[1] = g /\ w[2] <= n}
       IN IF n > acked[g]
          THEN /\ acked' = [acked EXCEPT ![g] = n]
               /\ waiters' = waiters \ covered
               /\ completed' = completed \union covered
          ELSE UNCHANGED <<acked, waiters, completed>>
    /\ UNCHANGED <<latest, sender, wake, forced, batch, failed, backingOff,
                   timer, home, flushVars>>

\* flush returns; nextDelay re-arms the timer, doubled after a failure.
EndFlush ==
    /\ run = "sending"
    /\ batch = {}
    /\ run' = "select"
    /\ backingOff' = failed
    /\ timer' = "later"
    /\ UNCHANGED <<markVars, sender, wake, forced, batch, sent, failed, home,
                   flushVars>>

-----------------------------------------------------------------------------
(* Flush *)

\* forceFlush: a full force channel drops the request.
FlushStart(c) ==
    /\ flush[c] \in {"idle", "expired"}
    /\ flush' = [flush EXCEPT ![c] = "polling"]
    /\ wanted' = [wanted EXCEPT ![c] = latest]
    /\ forced' = TRUE
    /\ UNCHANGED <<markVars, sender, wake, runVars, home>>

\* Mutant: Flush returns once its forced attempt was made, acknowledged or not.
FlushIdle_Attempted(c) ==
    /\ flush[c] = "polling"
    /\ ~forced /\ batch = {}
    /\ flush' = [flush EXCEPT ![c] = "flushed"]
    /\ UNCHANGED <<markVars, sender, wake, forced, runVars, home, wanted>>

FlushIdle(c) ==
    /\ flush[c] = "polling"
    /\ \A g \in Groups : ~Dirty(g)
    /\ flush' = [flush EXCEPT ![c] = "flushed"]
    /\ UNCHANGED <<markVars, sender, wake, forced, runVars, home, wanted>>

FlushExpire(c) ==
    /\ flush[c] = "polling"
    /\ flush' = [flush EXCEPT ![c] = "expired"]
    /\ UNCHANGED <<markVars, sender, wake, forced, runVars, home, wanted>>

-----------------------------------------------------------------------------
RunStep ==
    \/ OnWake \/ OnTimer \/ OnForce
    \/ \E g \in Groups : SendOK(g) \/ SendFail(g)
    \/ RecordAck \/ EndFlush

\* The steps of the flusher itself, whoever calls MarkDirty.
Internal ==
    \/ \E s \in Senders \union {NoSender} : SetSender(s)
    \/ RunStart \/ RunStop \/ RunStep
    \/ \E c \in Flushers : FlushStart(c) \/ FlushIdle(c) \/ FlushExpire(c)

Next == Internal \/ \E g \in Groups, n \in Seqs : MarkDirty(g, n)

Spec == Init /\ [][Next]_vars

\* Run keeps going once started.  A timer is fair because it is re-armed after
\* every flush; a send that is tried again and again to a group of Reachable
\* succeeds sometime.
Fairness(Reachable) ==
    /\ WF_vars(RunStep)
    /\ WF_vars(OnTimer)
    /\ WF_vars(OnForce)
    /\ \A g \in Groups : WF_vars(SendOK(g) \/ SendFail(g))
    /\ \A g \in Reachable : SF_vars(SendOK(g))

-----------------------------------------------------------------------------
(* Properties *)

\* The shapes of the flusher's fields.
TypeOK ==
    /\ latest \in [Groups -> 0..MaxSeq]
    /\ acked \in [Groups -> 0..MaxSeq]
    /\ waiters \subseteq Groups \X Seqs
    /\ completed \subseteq Groups \X Seqs
    /\ sender \in Senders \union {NoSender}
    /\ wake \in BOOLEAN
    /\ forced \in BOOLEAN
    /\ run \in {"stopped", "select", "sending", "acking"}
    /\ batch \subseteq Groups \X Seqs
    /\ sent \in (Groups \X Seqs) \union {NoEntry}
    /\ run = "acking" <=> sent # NoEntry
    /\ failed \in BOOLEAN
    /\ backingOff \in BOOLEAN
    /\ timer \in {"due", "later"}
    /\ home \in [Groups -> 0..MaxSeq]
    /\ flush \in [Flushers -> {"idle", "polling", "flushed", "expired"}]
    /\ wanted \in [Flushers -> [Groups -> 0..MaxSeq]]

\* A ticket completes only when Home has really received a sequence that covers
\* it, across sender replacements, lost answers and sequences marked while a
\* send was in flight; and Home is never told of a release nobody marked.
TicketsHonest ==
    /\ \A w \in completed : home[w[1]] >= w[2]
    /\ \A g \in Groups : home[g] <= latest[g]

\* What the flusher promises, and its own state seen as that.
Ledger == INSTANCE ReleaseLedger
    WITH owed <- latest, told <- home, open <- waiters, settled <- completed,
         flush <- flush, promised <- wanted

\* Every step of the flusher is one the ledger allows or none: a Flush returns nil
\* only when Home has everything that was marked when it was called, whatever was
\* marked, lost or refused meanwhile, and no step invents, loses or forgets a ticket.
ImplementsLedger == Ledger!Spec

\* Run does not sleep a whole interval on news: a group that is dirty while Run
\* waits in its select and is not backing off has a wake token or a due timer.
PromptWhenHealthy ==
    (run = "select" /\ ~backingOff /\ sender # NoSender
       /\ \E g \in Groups : Dirty(g))
      => wake \/ timer = "due"

\* If a Run with a sender stays up, every ticket of a group Home can be reached for
\* is completed, even when every send of another group fails.
Delivered(Reachable) ==
    <>[](run # "stopped" /\ sender # NoSender) =>
      \A g \in Reachable, n \in Seqs :
        [](<<g, n>> \in waiters => <>(<<g, n>> \in completed))
=============================================================================
