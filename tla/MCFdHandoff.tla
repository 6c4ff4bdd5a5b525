---------------------------- MODULE MCFdHandoff ----------------------------
(* Instances of FdHandoff for TLC.                                         *)
EXTENDS FdHandoff

CONSTANTS c1, c2, c3, k1, k2, k3

ThreeClients == {c1, c2, c3}
TwoSlots     == {k1, k2}
ThreeSlots   == {k1, k2, k3}
=============================================================================
