------------------------- MODULE MCMessageOwnership -------------------------
(* Model values for the runs of MessageOwnership.                           *)
EXTENDS MessageOwnership, TLC

Symmetry == Permutations(Handles) \cup Permutations(Wrappers)
=============================================================================
