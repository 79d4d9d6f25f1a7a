------------------------------- MODULE MCTouch -------------------------------
EXTENDS Touch
Gesture(n) == <<"start">> \o [i \in 1..n |-> "touch"] \o <<"stop">>
TwoGestures == Gesture(3) \o Gesture(1)
ThreeGestures == Gesture(3) \o Gesture(3) \o Gesture(3)

\* The hypotheses of the theorems about the order of messages.
ASSUME MCTouchAssumption == Gestures /\ Narrow
=============================================================================
