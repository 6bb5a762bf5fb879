---------------------------- MODULE MCHomeLifetime ----------------------------
(***************************************************************************)
(* Instances of HomeLifetime for TLC.  The view Relevant leaves out what   *)
(* no later step, no fairness condition and no property but TypeOK reads:  *)
(* where a call was that has returned, the last client and the registry of *)
(* a supervisor that is done, of a lifetime without worker and in-flight   *)
(* publisher its context and its queue, of one that was settled whether it *)
(* was ambiguous, and the client of a request that is over.                *)
(***************************************************************************)
EXTENDS HomeLifetime

CONSTANTS q1, q2

Going == {g \in Gens : sup[g] # "done"}
Working == {k \in Clients : worker[k] # "off"}
Unsettled ==
    {client[g] : g \in {h \in Gens : sup[h] \in {"subscribed", "join", "unbundle",
                                                 "detached", "settle"}}}

Relevant ==
    <<call, IF call \in {"start", "shutdown"} THEN at ELSE "finish",
      generation, supervisor, cancelled, runEnded,
      sup, [g \in Going |-> <<registry[g], client[g]>>], clients, registries,
      genOf, regOf, up, fenced, ended \intersect (Working \union observing),
      ambiguous \intersect Unsettled,
      worker, [k \in Working |-> <<queue[k], k \in published>>],
      {k \in Clients : worker[k] = "committed" /\ committed = k},
      observing, flushing, homeClient, bundle, regVars,
      [q \in Requests |-> IF req[q].at = "idle" THEN NoRequest ELSE req[q]],
      leaked>>
=============================================================================
