----------------------------- MODULE MCDeviceHub -----------------------------
(***************************************************************************)
(* A device client for TLC that keeps its place, a clone that may be moved,*)
(* an upload and a transport.                                              *)
(***************************************************************************)
EXTENDS DeviceResources, FiniteSets, TLC

CONSTANTS c1, c2, nobody, p1, p2, p3, noplace, u1, transport

MCFirst == c1
MCClones == {c2}
MCPlaces == {p1, p2, p3}
MCRelocatable == {c2}
MCUploads == {u1}

(* Bounds: one callback to be made once is pending at a time, and what      *)
(* follows a drop that breaks the nesting is not explored.                  *)
MaxOnce == 1
Bounds == Cardinality(once) <= MaxOnce /\ nested

Symmetry == Permutations(MCPlaces)
=============================================================================
