--------------------------- MODULE MCDeviceClient ---------------------------
(* Model values for the runs of DeviceClient.                               *)
EXTENDS DeviceClient, TLC

Symmetry == Permutations(Requests)
=============================================================================
