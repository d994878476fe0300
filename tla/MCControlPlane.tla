--------------------------- MODULE MCControlPlane ----------------------------
(* Constants for model checking ControlPlane. *)
EXTENDS ControlPlane

CONSTANTS d1, d2, a1, a2

OneTable == {"ipv4_lpm"}
TwoActions == {a1, a2}
TwoData == {d1, d2}
Swap == Permutations(TwoActions) \cup Permutations(TwoData)
(* of two bytes: cut to one byte, kept, extended                           *)
SomeLiterals == {<<2, 1>>, <<2, 2>>, <<3, 5>>}
ThreeHandles == {0, 1, 2}
NoLiberty == {}
=============================================================================
