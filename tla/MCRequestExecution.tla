-------------------------- MODULE MCRequestExecution --------------------------
(***************************************************************************)
(* Instances of RequestExecution for TLC.  The view Relevant leaves out    *)
(* what no step and not ConnectionsExact reads: the two histories, and of  *)
(* the error of a walk all but whether there is one and whether a further  *)
(* round may follow it.                                                    *)
(***************************************************************************)
EXTENDS RequestExecution

CONSTANTS r1, r2, c1, c2, c3

\* c1 is capped, takes part in a second round and is retried in place; c2 and c3
\* have a pool of two models and are left out of the second round.
CapFirst == [c \in Creds |-> IF c = c1 THEN 1 ELSE 0]
RetryFirst == [c \in Creds |-> IF c = c1 THEN 1 ELSE 0]
SameRetryFirst == [c \in Creds |-> IF c = c1 THEN 1 ELSE 0]
ModelsSecond == [c \in Creds |-> IF c = c1 THEN 1 ELSE 2]

Never == [c \in Creds |-> 0]
OneModel == [c \in Creds |-> 1]

Relevant ==
    <<pc, cred, round,
      [r \in Requests |-> [walk[r] EXCEPT !.err = <<@ = None, @ \in RoundErrors>>]],
      pool, conn, blocked>>
=============================================================================
