------------------------- MODULE MCRegistryProjection -------------------------
(***************************************************************************)
(* Instances of RegistryProjection for TLC.  An epoch is only ever         *)
(* compared with the current one, and a projection the registry would      *)
(* refuse now it refuses for good; registrations are only compared with    *)
(* the current one, and of a copy only what is still to be read matters;   *)
(* the two workers are interchangeable, so that a set of what they hold    *)
(* says all of both.  States that agree up to that are one state for TLC   *)
(* (Relevant).                                                             *)
(***************************************************************************)
EXTENDS RegistryProjection

CONSTANTS c1, c2, m1, p1, p2, w1, w2

\* The model once, or twice through the other provider.
Once == [provider |-> p1, copies |-> [m \in Models |-> 1]]
Twice == [provider |-> p2, copies |-> [m \in Models |-> 2]]
OnceOrTwice == {Once, Twice}
JustOnce == {Once}

\* What the rest of a goroutine's steps can still depend on.
Held(x) ==
    LET h == actor[x]
        marks == Projection(h.copy, IF h.pc = "read" THEN Models ELSE h.supported)
    IN  CASE h.pc = "update" -> <<h.pc, h.copy>>
          [] h.pc \in {"register", "bind"} -> <<h.pc, h.copy.disabled>>
          [] \/ h.pc = "read"
             \/ h.pc = "project" /\ Current(Client, h.epoch, h.copy.generation, marks) ->
               <<h.pc, marks, h.copy.generation,
                 auth # NoAuth /\ h.copy.registration = auth.registration>>
          [] OTHER -> <<h.pc>>

Relevant ==
    <<models, availableModels, IF auth = NoAuth THEN auth ELSE [auth EXCEPT !.registration = 0],
      [c \in Clients |-> [clients[c] EXCEPT !.epoch = 0, !.generation =
                            IF c = Client /\ IsRegistered(c) THEN @ ELSE 0]],
      {Held(w) : w \in Workers}, Held(Queue), Held(Registrar), pass, spent, overlap,
      auth # NoAuth /\ shown = auth.registration>>
=============================================================================
