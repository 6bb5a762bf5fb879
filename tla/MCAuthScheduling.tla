--------------------------- MODULE MCAuthScheduling ---------------------------
(* Instances of AuthScheduling for TLC. *)
EXTENDS AuthScheduling, TLC

CONSTANTS a1, a2, w1, w2, w3

WorkerSymmetry == Permutations(Workers) \union Permutations(Auths)
=============================================================================
