----------------------------- MODULE MCCrossArb -----------------------------
(* TLC instances of the cross-venue executor. *)
EXTENDS CrossArbProperties, TLC

CONSTANTS c1, c2, p1, p2

Unlimited == -1   \* for MaxTicks
SlotSymmetry == Permutations({c1, c2})
=============================================================================
