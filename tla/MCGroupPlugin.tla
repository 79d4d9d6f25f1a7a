---------------------------- MODULE MCGroupPlugin ----------------------------
(* Instances of GroupPlugin for TLC; see the .cfg files. *)
EXTENDS GroupPlugin

CONSTANTS g1, g2

TwoGroups == {g1, g2}
AskedTimeouts == {0, 1, 3}    \* the default, infinity, and some time
=============================================================================
