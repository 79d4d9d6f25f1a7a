---------------------------- MODULE DeviceLease ----------------------------
(***************************************************************************)
(* What a device promises the users who share it: one owner at a time, who *)
(* keeps the device until it is released or until the owner has been       *)
(* inactive for the time of the lease.  Only a lease granted without a     *)
(* time goes on for ever.                                                  *)
(***************************************************************************)
EXTENDS Integers

CONSTANTS
  Groups,    \* those who may own the device
  None,      \* nobody
  MaxTerm    \* the longest time of a lease, in ticks

VARIABLES
  owner,     \* the owner of the device
  timed,     \* the lease was granted for a time
  term,      \* the time the owner may be inactive
  idle,      \* how long the owner has been inactive
  told       \* the reasons the last step told the users for the end of a lease

vars == <<owner, timed, term, idle, told>>

Free == owner = None /\ timed = FALSE /\ term = 0 /\ idle = 0

Init == Free /\ told = {}

Grant ==
  /\ owner = None
  /\ owner' \in Groups
  /\ timed' \in BOOLEAN
  /\ term' \in 1..MaxTerm
  /\ idle' = 0
  /\ told' = {}

\* Only the time of the lease changes, and it does not get shorter.
Extend ==
  /\ owner # None
  /\ term' \in term..MaxTerm
  /\ told' = {} /\ UNCHANGED <<owner, timed, idle>>

Use == owner # None /\ idle' = 0 /\ told' = {} /\ UNCHANGED <<owner, timed, term>>

Pass ==
  /\ owner # None
  /\ idle' \in {idle, idle + 1} /\ idle' <= MaxTerm
  /\ told' = {} /\ UNCHANGED <<owner, timed, term>>

\* Somebody asks for it, or the worker ends, with or without a word.
Release == owner # None /\ Free' /\ told' \in {{}, {"ungroup_request"}, {"device_absent"}}

Expire ==
  /\ owner # None /\ timed /\ idle >= term
  /\ Free' /\ told' = {"automatic_timeout"}

\* Nothing happens to the lease.
Quiet == told' = {} /\ UNCHANGED <<owner, timed, term, idle>>

Next == Grant \/ Extend \/ Use \/ Pass \/ Release \/ Expire \/ Quiet

Spec == Init /\ [][Next]_vars
=============================================================================
