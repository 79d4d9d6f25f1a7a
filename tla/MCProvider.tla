----------------------------- MODULE MCProvider -----------------------------
(* Instances of Provider for TLC; see the .cfg files. *)
EXTENDS Provider

CONSTANTS d1, d2, d3

OneDevice == {d1}
TwoDevices == {d1, d2}
ThreeDevices == {d1, d2, d3}
DeviceSymmetry == Permutations(ThreeDevices)
FourPorts == <<7400, 7401, 7402, 7403>>
AnyFailure == {"exit", "signal", "hang", "stuck"}
NoSignal == {"exit", "timeout", "hang"}
NoHang == {"exit", "signal", "clean", "timeout", "stuck"}
=============================================================================
