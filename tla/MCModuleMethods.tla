--------------------------- MODULE MCModuleMethods ---------------------------
(* Model values for the runs of ModuleMethods.                              *)
EXTENDS ModuleMethods, TLC

(* Clients differ in whether they may be relocated, places and cells in     *)
(* nothing.                                                                 *)
Symmetry == Permutations(Places) \cup Permutations(Cells)
=============================================================================
