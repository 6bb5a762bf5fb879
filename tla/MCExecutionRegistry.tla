------------------------ MODULE MCExecutionRegistry ------------------------
(***************************************************************************)
(* Instances of ExecutionRegistry for TLC.  The view Relevant leaves out   *)
(* what no later step, no fairness condition and no property of the run    *)
(* reads:                                                                  *)
(*  - how a call ended whose goroutine may make another one;               *)
(*  - no operation reads a snapshot that was returned, and a dispatch that *)
(*    finished stays so: of the last snapshot only what it misses counts;  *)
(*  - a barrier holds back nothing but the dispatches pending before it,   *)
(*    and nothing at all once it was published;                            *)
(*  - without another snapshot, or without a pending dispatch now or ever, *)
(*    no barrier matters.                                                  *)
(* It identifies no two callers, so liveness may be checked under it.      *)
(***************************************************************************)
EXTENDS ExecutionRegistry

CONSTANTS c1, c2, g1, s1

Missing ==
    {d \in 1..begunAt[freeze.barrier] : d \notin freeze.executions /\ ~Finished(d)}

HeldBack ==
    {d \in pending : observedBarrier > publishedBarrier /\ d <= pendingBarrierSequence}

BarriersMatter ==
    /\ freeze.revision < MaxFreezes
    /\ pending # {} \/ (state = "accepting" /\ next < MaxDispatches)

Relevant ==
    <<state, dispatchVars, resource, stage, releaseVars, Missing,
      IF BarriersMatter
      THEN <<freeze.revision, observedBarrier, observedBarrier > publishedBarrier, HeldBack>>
      ELSE <<>>,
      [c \in Callers |-> IF Free(c) THEN "idle" ELSE pc[c]],
      drainLeft, parked, closeVars>>
=============================================================================
