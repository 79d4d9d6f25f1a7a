------------------------------ MODULE MCReaper ------------------------------
(* Instances of Reaper for TLC; see the .cfg files. *)
EXTENDS Reaper

CONSTANTS d1, d2, p1, p2

OneDevice == {d1}
TwoDevices == {d1, d2}
OneProcessor == {p1}
TwoProcessors == {p1, p2}
DevSide == {"dev"}
AppSide == {"app"}
BothSides == {"app", "dev"}

DeviceSymmetry == {[d \in {d1, d2} |-> d], [d \in {d1, d2} |-> IF d = d1 THEN d2 ELSE d1]}
=============================================================================
