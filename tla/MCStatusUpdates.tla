-------------------------- MODULE MCStatusUpdates --------------------------
(* StatusUpdates for TLC: a shipment that exists and one that does not.      *)
EXTENDS StatusUpdates, TLC

Symmetry == Permutations(Patches) \union Permutations(Statuses)
=============================================================================
