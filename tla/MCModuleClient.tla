--------------------------- MODULE MCModuleClient ---------------------------
(* Model values for the runs of ModuleClient.                               *)
EXTENDS ModuleClient, TLC

Symmetry == Permutations(Requests)
=============================================================================
