------------------------------ MODULE MCBooking ------------------------------
(* Instances of Booking for TLC: one owner, one or two groups. *)
EXTENDS Booking

CONSTANTS g1, g2, d1, d2, r1, r2

OneGroup == {g1}
TwoGroups == {g1, g2}
OneDevice == {d1}
TwoDevices == {d1, d2}
OneRequest == {r1}
TwoRequests == {r1, r2}

\* Windows that are early, late, touch and overlap; one that has run out of time.
Soon == {<<0, 1>>}
EarlyAndLate == {<<0, 1>>, <<1, 2>>}
Overlapping == {<<0, 1>>, <<1, 2>>, <<0, 2>>}
EarlyLateInverted == {<<0, 1>>, <<1, 2>>, <<2, 1>>}

\* Interchangeable groups, devices and requests.
Alike == Permutations(TwoGroups) \cup Permutations(TwoDevices) \cup Permutations(TwoRequests)
=============================================================================
