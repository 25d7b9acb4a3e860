------------------------------ MODULE MCHubInit ------------------------------
(* Model values for the runs of HubInit.                                    *)
EXTENDS HubInit, TLC

Symmetry == Permutations(Threads)

(* One constructor that ensures and one that does not stand for all.        *)
OneOfEach == {ModuleCreateFromEnvironment, DeviceCreate}
=============================================================================
