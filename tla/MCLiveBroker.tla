---------------------------- MODULE MCLiveBroker ----------------------------
(* TLC instances of the Polymarket live broker and its host. *)
EXTENDS LiveHost, TLC

CONSTANTS a1, o1, o2, o3

OrderSymmetry == Permutations(Orders)
=============================================================================
