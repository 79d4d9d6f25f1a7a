--------------------------- MODULE ChannelManager ---------------------------
(***************************************************************************)
(* The channels of lib/wire/channelmanager.ts: a channel lives while it is *)
(* used more often than its timeout, and one timer per channel looks.      *)
(*                                                                         *)
(* The mapping from ids to channels is a function into Channel or          *)
(* NoChannel; the alias, a second key of the same mapping, is the id of    *)
(* the channel it leads to.  Every channel a device registers has the      *)
(* alias (its solo channel).  lastActivity is kept as the ticks since.     *)
(***************************************************************************)
EXTENDS Integers

CONSTANTS
  None,        \* the alias leads nowhere
  NoChannel,   \* undefined, for an id that is not registered
  MaxTimeout   \* bound: longer timeouts, and longer silence, are not told apart

ASSUME ChannelManagerAssumption ==
  /\ MaxTimeout \in Nat \ {0, 1}
  /\ NoChannel \notin [timeout : 1..MaxTimeout, idle : 0..MaxTimeout, timer : -1..MaxTimeout]

Infinite == 1      \* "1 is infinity timeout"
Off == -1          \* no timer is set, or it has fired

Channel == [timeout : 1..MaxTimeout, idle : 0..MaxTimeout, timer : -1..MaxTimeout]

AtMost(n) == IF n > MaxTimeout THEN MaxTimeout ELSE n

Expired(c) == c.idle >= c.timeout

\* Mutant: the timer is set for the whole timeout, whatever the silence so far.
RearmFull(c) == [c EXCEPT !.timer = IF c.timeout > Infinite THEN c.timeout ELSE Off]

\* The branch of check() for a channel that is still used.
Rearm(c) == [c EXCEPT !.timer = IF c.timeout > Infinite THEN c.timeout - c.idle ELSE Off]

\* register(), when the alias is free; a channel just registered is not idle.
Register(channels, id, timeout) ==
  [channels EXCEPT ![id] = Rearm([timeout |-> timeout, idle |-> 0, timer |-> Off])]

\* unregister() of the channels; it frees the alias of the channel as well.
Unregister(channels, id) == [channels EXCEPT ![id] = NoChannel]

UnregisterAlias(channels, alias, id) == IF channels[id] = NoChannel THEN alias ELSE None

KeepAlive(channels, id) ==
  IF id \in DOMAIN channels /\ channels[id] # NoChannel
  THEN [channels EXCEPT ![id].idle = 0] ELSE channels

\* The timer that runs is left alone.
UpdateTimeout(channels, id, timeout) ==
  IF id \in DOMAIN channels /\ channels[id] # NoChannel
  THEN [channels EXCEPT ![id].timeout = AtMost(@ + timeout)] ELSE channels

\* Not a method: one tick of the clock.
Older(c) ==
  [c EXCEPT !.idle = AtMost(@ + 1), !.timer = IF @ > 0 THEN @ - 1 ELSE @]

Elapse(channels) ==
  [id \in DOMAIN channels |->
     IF channels[id] = NoChannel THEN NoChannel ELSE Older(channels[id])]
=============================================================================
