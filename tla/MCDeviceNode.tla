---------------------------- MODULE MCDeviceNode ----------------------------
(* A small instance of DeviceNode for TLC. *)
EXTENDS DeviceNode, TLC

CONSTANTS f1, f2, f3, d1, d2, d3
TwoFiles == {f1, f2}
ThreeFiles == {f1, f2, f3}
TwoObjects == {d1, d2}
ThreeObjects == {d1, d2, d3}
Interchangeable == Permutations(ThreeFiles) \cup Permutations(ThreeObjects)
=============================================================================
