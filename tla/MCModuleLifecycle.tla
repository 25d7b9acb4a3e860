-------------------------- MODULE MCModuleLifecycle --------------------------
(* Model values for the runs of ModuleLifecycle.                            *)
EXTENDS ModuleLifecycle, TLC

(* Clients differ in whether they may be relocated, places in nothing.      *)
Symmetry == Permutations(Places)
=============================================================================
