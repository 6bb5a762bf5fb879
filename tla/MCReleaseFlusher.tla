--------------------------- MODULE MCReleaseFlusher ---------------------------
(* Instances of ReleaseFlusher for TLC. *)
EXTENDS ReleaseFlusher

CONSTANTS g1, g2, s1, f1

\* Home is reachable for g1; nothing is assumed of g2.
FairSpec == Spec /\ Fairness({g1})

\* Releases of g1 are delivered whatever happens to those of g2.
DeliveredDespiteOthers == Delivered({g1})
=============================================================================
