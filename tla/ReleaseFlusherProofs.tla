------------------------- MODULE ReleaseFlusherProofs -------------------------
(***************************************************************************)
(* Safety of ReleaseFlusher for any groups, senders and Flush callers, and *)
(* the proof that it implements ReleaseLedger.                             *)
(*                                                                         *)
(* The argument is one chain for each group: what was acknowledged is at   *)
(* most what Home has received, which is at most what was marked.  The     *)
(* entries a flush carries outside the lock stay below the chain's upper   *)
(* end, an entry whose send returned nil below what Home has, completed    *)
(* tickets below what was acknowledged, and open ones above it.            *)
(***************************************************************************)
EXTENDS ReleaseFlusher, TLAPS

\* What is acknowledged is known to Home, and what Home knows was marked.
Chain == \A g \in Groups : acked[g] <= home[g] /\ home[g] <= latest[g]

\* What flush carries outside the lock.
BatchMarked == \A e \in batch : e[2] <= latest[e[1]]
SentKnown == run = "acking" => sent[2] <= home[sent[1]]

\* What a Flush waits for was marked.
WantedMarked == \A c \in Flushers, g \in Groups : wanted[c][g] <= latest[g]

\* Completed tickets were acknowledged; open ones are of a dirty group.
CompletedAcked == \A w \in completed : w[2] <= acked[w[1]]
OpenDirty == \A w \in waiters : acked[w[1]] < w[2] /\ w[2] <= latest[w[1]]

Inv ==
    /\ TypeOK
    /\ Chain
    /\ BatchMarked
    /\ SentKnown
    /\ WantedMarked
    /\ CompletedAcked
    /\ OpenDirty

-----------------------------------------------------------------------------
\* An entry is never the empty one.
LEMMA EntryIsNotEmpty ==
    ASSUME NEW g, NEW n
    PROVE <<g, n>> # NoEntry
BY DEF NoEntry

\* Nothing was reported, nobody flushes.
LEMMA InitInv == Init => Inv
<1> SUFFICES ASSUME Init PROVE Inv
  OBVIOUS
<1> USE MaxSeqAssumption DEF Init
<1>1. TypeOK
  <2>1. 0 \in 0..MaxSeq /\ waiters \subseteq Groups \X Seqs
          /\ completed \subseteq Groups \X Seqs /\ batch \subseteq Groups \X Seqs
    OBVIOUS
  <2>2. latest \in [Groups -> 0..MaxSeq] /\ acked \in [Groups -> 0..MaxSeq]
          /\ home \in [Groups -> 0..MaxSeq]
    BY <2>1
  <2>3. wanted \in [Flushers -> [Groups -> 0..MaxSeq]]
    BY <2>1
  <2>4. flush \in [Flushers -> {"idle", "polling", "flushed", "expired"}]
    OBVIOUS
  <2> QED BY <2>1, <2>2, <2>3, <2>4, Zenon DEF TypeOK
<1>2. Chain /\ BatchMarked /\ SentKnown /\ WantedMarked /\ CompletedAcked /\ OpenDirty
  BY DEF Chain, BatchMarked, SentKnown, WantedMarked, CompletedAcked, OpenDirty
<1> QED BY <1>1, <1>2 DEF Inv

-----------------------------------------------------------------------------
\* A mark only ever raises the count of its group.
LEMMA MarkDirtyInv ==
    ASSUME Inv, NEW g \in Groups, NEW n \in Seqs, MarkDirty(g, n)
    PROVE Inv'
<1> USE MaxSeqAssumption
<1> USE DEF MarkDirty, runVars, flushVars, Signal, Inv
<1>1. latest' \in [Groups -> 0..MaxSeq] /\ \A h \in Groups : latest[h] <= latest'[h]
  BY DEF TypeOK, Bigger, Seqs
<1>2. n <= latest'[g]
  <2>1. CASE n <= acked[g]
    BY <2>1 DEF TypeOK, Chain, Seqs
  <2>2. CASE ~(n <= acked[g])
    BY <2>2 DEF TypeOK, Bigger, Seqs
  <2> QED BY <2>1, <2>2
<1>3. TypeOK'
  BY <1>1 DEF TypeOK
<1>4. Chain' /\ BatchMarked' /\ SentKnown' /\ WantedMarked'
  BY <1>1 DEF TypeOK, Chain, BatchMarked, SentKnown, WantedMarked, Seqs
<1>5. CompletedAcked' /\ OpenDirty'
  BY <1>1, <1>2 DEF TypeOK, CompletedAcked, OpenDirty, Seqs
<1> QED BY <1>3, <1>4, <1>5

\* Steps that touch neither sequences nor tickets.
LEMMA QuietInv ==
    ASSUME Inv,
           \/ \E s \in Senders \union {NoSender} : SetSender(s)
           \/ RunStart \/ RunStop \/ OnWake \/ EndFlush
           \/ \E c \in Flushers : FlushIdle(c) \/ FlushExpire(c)
           \/ UNCHANGED vars
    PROVE Inv'
<1> USE DEF Inv, markVars, runVars, flushVars
<1> DEFINE Kept == UNCHANGED <<latest, acked, waiters, completed, batch, sent, home, wanted>>
<1>1. CASE \E s \in Senders \union {NoSender} : SetSender(s)
  <2>1. Kept /\ TypeOK'
    BY <1>1 DEF SetSender, Signal, TypeOK
  <2> QED BY <1>1, <2>1 DEF SetSender, Chain, BatchMarked, SentKnown, WantedMarked,
                            CompletedAcked, OpenDirty
<1>2. CASE RunStart \/ RunStop \/ OnWake \/ EndFlush
  <2>1. Kept /\ TypeOK' /\ run' # "acking"
    BY <1>2 DEF RunStart, RunStop, OnWake, EndFlush, TypeOK
  <2> QED BY <2>1 DEF Chain, BatchMarked, SentKnown, WantedMarked, CompletedAcked, OpenDirty
<1>3. CASE \E c \in Flushers : FlushIdle(c) \/ FlushExpire(c)
  <2>1. Kept /\ TypeOK' /\ run' = run
    BY <1>3 DEF FlushIdle, FlushExpire, TypeOK
  <2> QED BY <2>1 DEF Chain, BatchMarked, SentKnown, WantedMarked, CompletedAcked, OpenDirty
<1>4. CASE UNCHANGED vars
  BY <1>4 DEF vars, TypeOK, Chain, BatchMarked, SentKnown, WantedMarked, CompletedAcked,
              OpenDirty
<1> QED BY <1>1, <1>2, <1>3, <1>4

\* The snapshot flush takes under the lock.
LEMMA BeginInv ==
    ASSUME Inv, OnTimer \/ OnForce
    PROVE Inv'
<1> USE DEF Inv, markVars, flushVars, OnTimer, OnForce
<1>1. batch' \subseteq Groups \X Seqs /\ BatchMarked'
  <2>1. CASE sender = NoSender
    BY <2>1 DEF BeginFlush, TypeOK, BatchMarked
  <2>2. CASE sender # NoSender
    <3>1. batch' = {<<g, latest[g]>> : g \in {h \in Groups : Dirty(h)}} /\ latest' = latest
      BY <2>2 DEF BeginFlush
    <3>2. \A g \in Groups : Dirty(g) => latest[g] \in Seqs
      BY MaxSeqAssumption DEF TypeOK, Dirty, Seqs
    <3> QED BY <3>1, <3>2 DEF BatchMarked, TypeOK
  <2> QED BY <2>1, <2>2
<1>2. run' \in {"select", "sending"} /\ sent' = sent /\ run # "acking"
  BY DEF BeginFlush
<1>3. TypeOK'
  BY <1>1, <1>2 DEF BeginFlush, TypeOK
<1>4. Chain' /\ SentKnown' /\ WantedMarked' /\ CompletedAcked' /\ OpenDirty'
  BY <1>2 DEF Chain, SentKnown, WantedMarked, CompletedAcked, OpenDirty
<1> QED BY <1>1, <1>3, <1>4

\* Home learns at most what the flush carries, which was marked.
LEMMA SendInv ==
    ASSUME Inv, NEW g \in Groups, SendOK(g) \/ SendFail(g)
    PROVE Inv'
<1> USE MaxSeqAssumption DEF Inv, markVars, flushVars
<1>1. PICK n \in Seqs : /\ <<g, n>> \in batch
                        /\ batch' = batch \ {<<g, n>>}
                        /\ \/ /\ run' = run /\ sent' = sent
                           \/ /\ run' = "acking" /\ sent' = <<g, n>>
                              /\ home' = [home EXCEPT ![g] = Bigger(@, n)]
                        /\ home' \in {home, [home EXCEPT ![g] = Bigger(@, n)]}
  <2>1. CASE SendOK(g)
    BY <2>1, Zenon DEF SendOK
  <2>2. CASE SendFail(g)
    BY <2>2, Zenon DEF SendFail
  <2> QED BY <2>1, <2>2
<1>2. n <= latest[g]
  BY <1>1 DEF BatchMarked
<1>3. /\ home' \in [Groups -> 0..MaxSeq]
      /\ \A h \in Groups : home[h] <= home'[h] /\ home'[h] <= latest[h]
      /\ home' = [home EXCEPT ![g] = Bigger(@, n)] => n <= home'[g]
  <2>1. /\ home \in [Groups -> 0..MaxSeq] /\ latest \in [Groups -> 0..MaxSeq]
        /\ n \in 0..MaxSeq
    BY DEF TypeOK, Seqs
  <2>2. \A h \in Groups : home'[h] = home[h] \/ (h = g /\ home'[h] = Bigger(home[g], n))
    BY <1>1, <2>1
  <2>3. home' \in [Groups -> 0..MaxSeq]
    BY <1>1, <2>1 DEF Bigger
  <2>4. \A h \in Groups : home[h] <= home'[h] /\ home'[h] <= latest[h]
    BY <1>2, <2>1, <2>2 DEF Chain, Bigger
  <2>5. home' = [home EXCEPT ![g] = Bigger(@, n)] => n <= home'[g]
    BY <2>1 DEF Bigger
  <2> QED BY <2>3, <2>4, <2>5
<1>4. UNCHANGED <<latest, acked, waiters, completed, wanted, flush, sender, wake, forced>>
        /\ failed' \in BOOLEAN /\ backingOff' = backingOff /\ timer' = timer
        /\ run = "sending"
  BY DEF SendOK, SendFail, TypeOK
<1>5. run' = "acking" <=> sent' # NoEntry
  BY <1>1, <1>4, EntryIsNotEmpty DEF TypeOK
<1>6. TypeOK'
  BY <1>1, <1>3, <1>4, <1>5 DEF TypeOK
<1>7. Chain' /\ BatchMarked' /\ WantedMarked' /\ CompletedAcked' /\ OpenDirty'
  BY <1>1, <1>3, <1>4 DEF TypeOK, Chain, BatchMarked, WantedMarked, CompletedAcked, OpenDirty
<1>8. SentKnown'
  BY <1>1, <1>3, <1>4 DEF SentKnown
<1> QED BY <1>6, <1>7, <1>8

\* The tickets an acknowledgement covers are those it makes the group clean for.
LEMMA RecordAckInv ==
    ASSUME Inv, RecordAck
    PROVE Inv'
<1> USE MaxSeqAssumption DEF Inv, flushVars
<1> DEFINE g == sent[1]
           n == sent[2]
           covered == {w \in waiters : w[1] = g /\ w[2] <= n}
<1>1. g \in Groups /\ n \in Seqs /\ n <= home[g]
  BY DEF RecordAck, TypeOK, SentKnown
<1>2. UNCHANGED <<latest, sender, wake, forced, batch, failed, backingOff, timer, home,
                  flush, wanted>> /\ run' = "sending" /\ sent' = NoEntry
  BY DEF RecordAck
<1>3. CASE n > acked[g]
  <2>1. /\ acked' = [acked EXCEPT ![g] = n]
        /\ waiters' = waiters \ covered
        /\ completed' = completed \union covered
    BY <1>3 DEF RecordAck
  <2>2. acked' \in [Groups -> 0..MaxSeq] /\ \A h \in Groups : acked[h] <= acked'[h]
    BY <1>1, <1>3, <2>1 DEF TypeOK, Seqs
  <2>3. TypeOK'
    BY <1>2, <2>1, <2>2 DEF TypeOK
  <2>4. Chain' /\ BatchMarked' /\ SentKnown' /\ WantedMarked'
    BY <1>1, <1>2, <2>1 DEF TypeOK, Chain, BatchMarked, SentKnown, WantedMarked
  <2>5. CompletedAcked'
    BY <1>1, <2>1, <2>2 DEF TypeOK, CompletedAcked, Seqs
  <2>6. OpenDirty'
    BY <1>1, <1>2, <2>1 DEF TypeOK, OpenDirty, Seqs
  <2> QED BY <2>3, <2>4, <2>5, <2>6
<1>4. CASE ~(n > acked[g])
  <2>1. UNCHANGED <<acked, waiters, completed>>
    BY <1>4 DEF RecordAck
  <2> QED BY <1>2, <2>1 DEF TypeOK, Chain, BatchMarked, SentKnown, WantedMarked,
                            CompletedAcked, OpenDirty
<1> QED BY <1>3, <1>4

\* A flush that starts waits for counts that were marked.
LEMMA FlushStartInv ==
    ASSUME Inv, NEW c \in Flushers, FlushStart(c)
    PROVE Inv'
<1> USE DEF Inv, markVars, runVars, FlushStart
<1>1. TypeOK'
  BY DEF TypeOK
<1>2. WantedMarked'
  BY DEF TypeOK, WantedMarked
<1>3. Chain' /\ BatchMarked' /\ SentKnown' /\ CompletedAcked' /\ OpenDirty'
  BY DEF Chain, BatchMarked, SentKnown, CompletedAcked, OpenDirty
<1> QED BY <1>1, <1>2, <1>3

\* Every step keeps the invariant.
LEMMA NextInv == Inv /\ [Next]_vars => Inv'
<1> SUFFICES ASSUME Inv, [Next]_vars PROVE Inv'
  OBVIOUS
<1>1. CASE \E g \in Groups, n \in Seqs : MarkDirty(g, n)
  BY <1>1, MarkDirtyInv
<1>2. CASE Internal
  <2>1. CASE RunStep
    BY <2>1, QuietInv, BeginInv, SendInv, RecordAckInv DEF RunStep
  <2>2. CASE \E c \in Flushers : FlushStart(c)
    BY <2>2, FlushStartInv
  <2> QED BY <1>2, <2>1, <2>2, QuietInv DEF Internal
<1> QED BY <1>1, <1>2, QuietInv DEF Next

\* The invariant holds of every behaviour.
THEOREM Invariance == Spec => []Inv
BY InitInv, NextInv, PTL DEF Spec

-----------------------------------------------------------------------------
\* The fields of the flusher keep their shapes.
THEOREM FlusherTypeCorrect == Spec => []TypeOK
BY Invariance, PTL DEF Inv

\* A completed ticket means that Home has received its sequence, and Home knows of
\* no release nobody marked.
THEOREM TicketsAreHonest == Spec => []TicketsHonest
<1>1. Inv => TicketsHonest
  BY MaxSeqAssumption DEF Inv, TypeOK, Chain, CompletedAcked, TicketsHonest, Seqs
<1> QED BY <1>1, Invariance, PTL

\* No ticket is stranded: whatever is still open is of a dirty group, so that a later
\* flush carries it.
THEOREM OpenTicketsStayDirty == Spec => []OpenDirty
BY Invariance, PTL DEF Inv

-----------------------------------------------------------------------------
(* News is not slept on *)

\* While a flush is under way that has not failed, a dirty group is still in the
\* batch or about to be acknowledged, unless there is a wake token.
Carried ==
    (run \in {"sending", "acking"} /\ ~failed) =>
      \A g \in Groups : Dirty(g) =>
        \/ wake
        \/ <<g, latest[g]>> \in batch
        \/ run = "acking" /\ sent = <<g, latest[g]>>

\* Without failures no dirty group is left behind.
LEMMA PromptStep ==
    ASSUME Inv, PromptWhenHealthy, Carried, [Next]_vars
    PROVE PromptWhenHealthy' /\ Carried'
<1> USE DEF markVars, runVars, flushVars, Signal
<1>1. CASE wake'
  BY <1>1 DEF PromptWhenHealthy, Carried
<1>2. CASE RunStart \/ RunStop \/ OnWake
  BY <1>2 DEF RunStart, RunStop, OnWake, PromptWhenHealthy, Carried, Dirty
<1>3. CASE OnTimer \/ OnForce
  <2>1. CASE sender = NoSender
    BY <1>3, <2>1 DEF OnTimer, OnForce, BeginFlush, PromptWhenHealthy, Carried
  <2>2. CASE sender # NoSender
    <3>1. run' = "sending" /\ latest' = latest /\ acked' = acked
            /\ batch' = {<<g, latest[g]>> : g \in {h \in Groups : Dirty(h)}}
      BY <1>3, <2>2 DEF OnTimer, OnForce, BeginFlush
    <3> QED BY <3>1 DEF PromptWhenHealthy, Carried, Dirty
  <2> QED BY <2>1, <2>2
<1>4. CASE \E g \in Groups : SendOK(g) \/ SendFail(g)
  <2>1. CASE \E g \in Groups : SendFail(g)
    BY <2>1 DEF SendFail, PromptWhenHealthy, Carried
  <2>2. CASE \E g \in Groups : SendOK(g)
    BY <2>2 DEF SendOK, PromptWhenHealthy, Carried, Dirty
  <2> QED BY <1>4, <2>1, <2>2
<1>5. CASE RecordAck
  <2>1. /\ run = "acking" /\ run' = "sending" /\ UNCHANGED <<latest, wake, batch, failed>>
        /\ acked' = IF sent[2] > acked[sent[1]] THEN [acked EXCEPT ![sent[1]] = sent[2]]
                                               ELSE acked
    BY <1>5 DEF RecordAck
  <2>2. sent \in Groups \X Seqs /\ acked \in [Groups -> 0..MaxSeq]
          /\ latest \in [Groups -> 0..MaxSeq]
    BY <2>1 DEF Inv, TypeOK
  <2>3. ASSUME NEW g \in Groups, sent = <<g, latest[g]>>
        PROVE ~Dirty(g)'
    BY MaxSeqAssumption, <2>1, <2>2, <2>3 DEF Dirty, Seqs
  <2>4. ASSUME NEW g \in Groups, Dirty(g)'
        PROVE Dirty(g)
    BY MaxSeqAssumption, <2>1, <2>2, <2>4 DEF Dirty, Seqs
  <2> QED BY <2>1, <2>3, <2>4 DEF PromptWhenHealthy, Carried
<1>6. CASE EndFlush
  BY <1>6 DEF EndFlush, PromptWhenHealthy, Carried, Dirty
<1>7. CASE \/ \E c \in Flushers : FlushStart(c) \/ FlushIdle(c) \/ FlushExpire(c)
           \/ UNCHANGED vars
  BY <1>7 DEF FlushStart, FlushIdle, FlushExpire, vars, PromptWhenHealthy, Carried, Dirty
<1>8. CASE \/ \E s \in Senders \union {NoSender} : SetSender(s)
           \/ \E g \in Groups, n \in Seqs : MarkDirty(g, n)
  <2>1. wake'
    BY <1>8 DEF SetSender, MarkDirty
  <2> QED BY <1>1, <2>1
<1> QED BY <1>1, <1>2, <1>3, <1>4, <1>5, <1>6, <1>7, <1>8 DEF Next, Internal, RunStep

\* A healthy Run never sleeps a whole interval on a dirty group, also when the group
\* was marked, or the sender installed, while a flush was under way.
THEOREM NewsIsPrompt == Spec => []PromptWhenHealthy
<1>1. Init => PromptWhenHealthy /\ Carried
  BY DEF Init, PromptWhenHealthy, Carried
<1>2. Inv /\ (PromptWhenHealthy /\ Carried) /\ [Next]_vars
        => (PromptWhenHealthy /\ Carried)'
  BY PromptStep
<1> QED BY <1>1, <1>2, Invariance, PTL DEF Spec

-----------------------------------------------------------------------------
(* The flusher implements the ledger *)

\* An empty flusher is an empty ledger.
LEMMA LedgerInit == Init => Ledger!Init
BY DEF Init, Ledger!Init

\* A mark is a report.
LEMMA LedgerMark ==
    ASSUME Inv, NEW g \in Groups, NEW n \in Seqs, MarkDirty(g, n)
    PROVE Ledger!Report(g, n)
<1> USE MaxSeqAssumption DEF Inv, MarkDirty, runVars, flushVars
<1>1. CASE n <= acked[g]
  <2>1. n <= home[g] /\ n <= latest[g]
    BY <1>1 DEF TypeOK, Chain, Seqs
  <2>2. latest' = [latest EXCEPT ![g] = IF @ < n THEN n ELSE @]
    BY <1>1, <2>1 DEF TypeOK, Seqs
  <2> QED BY <1>1, <2>1, <2>2 DEF Ledger!Report, Ledger!Covered
<1>2. CASE ~(n <= acked[g])
  BY <1>2 DEF Ledger!Report, Bigger
<1> QED BY <1>1, <1>2

\* A send tells the receiver one group's latest count, or nothing if it is late.
LEMMA LedgerSend ==
    ASSUME Inv, NEW g \in Groups, SendOK(g) \/ SendFail(g)
    PROVE (\E n \in Seqs : Ledger!Tell(g, n)) \/ UNCHANGED Ledger!vars
<1> USE MaxSeqAssumption DEF Inv, markVars, flushVars
<1>1. PICK n \in Seqs : <<g, n>> \in batch /\ home' \in {home, [home EXCEPT ![g] = Bigger(@, n)]}
  BY DEF SendOK, SendFail
<1>2. UNCHANGED <<latest, waiters, completed, flush, wanted>>
  BY DEF SendOK, SendFail
<1>3. CASE home' = home
  BY <1>2, <1>3 DEF Ledger!vars
<1>4. CASE home' = [home EXCEPT ![g] = Bigger(@, n)]
  <2>1. CASE home[g] < n
    BY <1>1, <1>2, <1>4, <2>1 DEF Ledger!Tell, Bigger, BatchMarked
  <2>2. CASE ~(home[g] < n)
    <3>1. home' = home
      BY <1>4, <2>2 DEF Bigger, TypeOK
    <3> QED BY <1>2, <3>1 DEF Ledger!vars
  <2> QED BY <2>1, <2>2
<1> QED BY <1>1, <1>3, <1>4

\* An acknowledgement settles the flushes it completes.
LEMMA LedgerAck ==
    ASSUME Inv, RecordAck
    PROVE (\E W \in SUBSET waiters : Ledger!Settle(W)) \/ UNCHANGED Ledger!vars
<1> USE MaxSeqAssumption DEF Inv, flushVars
<1> DEFINE g == sent[1]
           n == sent[2]
           covered == {w \in waiters : w[1] = g /\ w[2] <= n}
<1>1. g \in Groups /\ n \in Seqs /\ n <= home[g]
  BY DEF RecordAck, TypeOK, SentKnown
<1>2. CASE n > acked[g]
  <2>1. UNCHANGED <<latest, home, flush, wanted>>
          /\ waiters' = waiters \ covered /\ completed' = completed \union covered
    BY <1>2 DEF RecordAck
  <2>2. \A w \in covered : Ledger!Covered(w)
    BY <1>1 DEF Ledger!Covered, TypeOK, Seqs
  <2>3. Ledger!Settle(covered)
    BY <2>1, <2>2 DEF Ledger!Settle
  <2> QED BY <2>3
<1>3. CASE ~(n > acked[g])
  BY <1>3 DEF RecordAck, Ledger!vars
<1> QED BY <1>2, <1>3

\* The calls of Flush are those of the ledger.
LEMMA LedgerFlush ==
    ASSUME Inv, NEW c \in Flushers, FlushStart(c) \/ FlushIdle(c) \/ FlushExpire(c)
    PROVE Ledger!FlushBegins(c) \/ Ledger!FlushReturns(c) \/ Ledger!FlushGivesUp(c)
<1> USE DEF Inv, markVars, runVars
<1>1. CASE FlushStart(c)
  BY <1>1 DEF FlushStart, Ledger!FlushBegins
<1>2. CASE FlushIdle(c)
  <2>1. \A g \in Groups : wanted[c][g] <= home[g]
    BY <1>2, MaxSeqAssumption DEF FlushIdle, Dirty, TypeOK, Chain, WantedMarked
  <2> QED BY <1>2, <2>1 DEF FlushIdle, Ledger!FlushReturns
<1>3. CASE FlushExpire(c)
  BY <1>3 DEF FlushExpire, Ledger!FlushGivesUp
<1> QED BY <1>1, <1>2, <1>3

\* Every step is a step of the ledger or leaves it alone.
LEMMA LedgerStep == Inv /\ [Next]_vars => [Ledger!Next]_(Ledger!vars)
<1> SUFFICES ASSUME Inv, [Next]_vars PROVE Ledger!Next \/ UNCHANGED Ledger!vars
  OBVIOUS
<1> USE DEF markVars, runVars, flushVars, Ledger!vars
<1>1. CASE \E g \in Groups, n \in Seqs : MarkDirty(g, n)
  BY <1>1, LedgerMark DEF Ledger!Next, Ledger!Seqs, Seqs
<1>2. CASE \E g \in Groups : SendOK(g) \/ SendFail(g)
  BY <1>2, LedgerSend DEF Ledger!Next, Ledger!Seqs, Seqs
<1>3. CASE RecordAck
  BY <1>3, LedgerAck DEF Ledger!Next
<1>4. CASE \E c \in Flushers : FlushStart(c) \/ FlushIdle(c) \/ FlushExpire(c)
  BY <1>4, LedgerFlush DEF Ledger!Next
<1>5. CASE \E s \in Senders \union {NoSender} : SetSender(s)
  BY <1>5 DEF SetSender
<1>6. CASE RunStart \/ RunStop \/ OnWake \/ OnTimer \/ OnForce \/ EndFlush \/ UNCHANGED vars
  BY <1>6 DEF RunStart, RunStop, OnWake, OnTimer, OnForce, EndFlush, vars
<1> QED BY <1>1, <1>2, <1>3, <1>4, <1>5, <1>6 DEF Next, Internal, RunStep

\* The flusher keeps the ledger's promises: tickets and Flush answers follow what
\* Home was told, through stops, lost answers and new senders.
THEOREM FlusherImplementsLedger == Spec => ImplementsLedger
BY LedgerInit, LedgerStep, Invariance, PTL DEF Spec, ImplementsLedger, Ledger!Spec
=============================================================================
