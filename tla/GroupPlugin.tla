---------------------------- MODULE GroupPlugin ----------------------------
(***************************************************************************)
(* The group plugin of a device worker (base-device/plugins/group.ts, used *)
(* by the Android, iOS and Tizen workers) with its ChannelManager: which   *)
(* user's group owns the device, and until when.                           *)
(*                                                                         *)
(* The worker is one thread.  A GroupMessage or UngroupMessage waits for   *)
(* its requirements to be checked and goes on in a microtask, in order of  *)
(* arrival; an AutoGroupMessage does not wait.  Microtasks run before any  *)
(* timer, so time passes only when no message waits.                       *)
(***************************************************************************)
EXTENDS Sequences, ChannelManager

CONSTANTS
  Groups,        \* the group channels of the users
  Timeouts,      \* the timeouts users ask for; 0: none asked for, 1: infinity
  GroupTimeout,  \* options.groupTimeout
  Quarter,       \* QUARTER_MINUTES
  MaxChecks      \* bound: messages whose requirements are being checked

ASSUME GroupPluginAssumption ==
  /\ None \notin Groups
  /\ Timeouts \subseteq 0..MaxTimeout
  /\ GroupTimeout \in 1..MaxTimeout
  /\ Quarter \in Nat \ {0}
  /\ MaxChecks \in Nat

VARIABLES
  currentGroup,  \* the group that owns the device
  channels,      \* the channels of the ChannelManager
  alias,         \* where the solo channel leads to
  subscribed,    \* the group channels the SUB socket listens to
  checking,      \* messages whose requirements are being checked
  ending,        \* a graceful shutdown has begun
  pushed,        \* the messages the last step pushed, a set
  announced      \* the owner, as the JoinGroup and LeaveGroup messages tell it

vars == <<currentGroup, channels, alias, subscribed, checking, ending, pushed, announced>>
lease == <<currentGroup, channels, alias, subscribed, announced>>

Request == [type : {"Group", "Ungroup"}, group : Groups, timeout : Timeouts]
Push(type, g) == [type |-> type, group |-> g]
LeaveGroup(g, reason) == [type |-> "LeaveGroup", group |-> g, reason |-> reason]

Init ==
  /\ currentGroup = None
  /\ channels = [g \in Groups |-> NoChannel]
  /\ alias = None
  /\ subscribed = {}
  /\ checking = <<>>
  /\ ending = FALSE
  /\ pushed = {}
  /\ announced = None

-----------------------------------------------------------------------------
(* join() and leave(), followed by what their caller pushes. *)

\* Mutant: a group that comes while the device is owned replaces the owner.
JoinOver(g, timeout, reply) ==
  /\ currentGroup' = g
  /\ channels' = Register(channels, g, IF timeout = 0 THEN GroupTimeout ELSE timeout)
  /\ alias' = g
  /\ subscribed' = subscribed \cup {g}
  /\ announced' = g
  /\ pushed' = {Push("JoinGroup", g)} \cup reply

\* Mutant: no default for a timeout that was not asked for.
JoinWithoutDefault(g, timeout, reply) ==
  /\ currentGroup = None
  /\ currentGroup' = g
  /\ channels' = Register(channels, g, timeout)
  /\ alias' = g
  /\ subscribed' = subscribed \cup {g}
  /\ announced' = g
  /\ pushed' = {Push("JoinGroup", g)} \cup reply

\* join() swallows every error: that another group owns the device, and that
\* the alias is taken; the caller always goes on to reply.
Join(g, timeout, reply) ==
  \/ /\ currentGroup \notin {None, g}
     /\ UNCHANGED lease /\ pushed' = reply
  \/ /\ currentGroup = g
     /\ channels' = UpdateTimeout(channels, g, Quarter)
     /\ pushed' = {Push("DeviceStatusChange", g)} \cup reply
     /\ UNCHANGED <<currentGroup, alias, subscribed, announced>>
  \/ /\ currentGroup = None
     /\ currentGroup' = g
     /\ IF alias # None
        THEN UNCHANGED <<channels, alias, subscribed, announced>> /\ pushed' = reply
        ELSE /\ channels' = Register(channels, g, IF timeout = 0 THEN GroupTimeout ELSE timeout)
             /\ alias' = g
             /\ subscribed' = subscribed \cup {g}
             /\ announced' = g
             /\ pushed' = {Push("JoinGroup", g)} \cup reply

\* Mutant: leave() does not unregister the channel.
LeaveRegistered(reason, cs, al, reply) ==
  /\ currentGroup # None
  /\ channels' = cs /\ alias' = al
  /\ subscribed' = subscribed \ {currentGroup}
  /\ currentGroup' = None /\ announced' = None
  /\ pushed' = {LeaveGroup(currentGroup, reason)} \cup reply

\* Mutant: leave() tells nobody.
LeaveUntold(reason, cs, al, reply) ==
  /\ currentGroup # None
  /\ channels' = Unregister(cs, currentGroup)
  /\ alias' = UnregisterAlias(cs, al, currentGroup)
  /\ subscribed' = subscribed \ {currentGroup}
  /\ currentGroup' = None
  /\ pushed' = reply
  /\ UNCHANGED announced

\* leave(), with the channels as they are when it is called.
Leave(reason, cs, al, reply) ==
  /\ currentGroup # None
  /\ channels' = Unregister(cs, currentGroup)
  /\ alias' = UnregisterAlias(cs, al, currentGroup)
  /\ subscribed' = subscribed \ {currentGroup}
  /\ currentGroup' = None /\ announced' = None
  /\ pushed' = {LeaveGroup(currentGroup, reason)} \cup reply

-----------------------------------------------------------------------------
(* Messages.  All come on the solo channel, so the router keeps the channel *)
(* of the owner alive, whoever sent them.                                   *)

Receive(request) ==
  /\ Len(checking) < MaxChecks
  /\ checking' = Append(checking, request)
  /\ channels' = KeepAlive(channels, alias)
  /\ pushed' = {}
  /\ UNCHANGED <<currentGroup, alias, subscribed, ending, announced>>

\* The requirements do not match.
Refuse ==
  /\ checking # <<>>
  /\ checking' = Tail(checking)
  /\ pushed' = {Push("Fail", Head(checking).group)}
  /\ UNCHANGED <<lease, ending>>

FinishGroup ==
  /\ checking # <<>> /\ Head(checking).type = "Group"
  /\ checking' = Tail(checking)
  /\ Join(Head(checking).group, Head(checking).timeout,
          {Push("GroupOkay", Head(checking).group)})
  /\ UNCHANGED ending

\* Anyone may ungroup: the message does not say who sent it.
FinishUngroup ==
  /\ checking # <<>> /\ Head(checking).type = "Ungroup"
  /\ checking' = Tail(checking)
  /\ \/ Leave("ungroup_request", channels, alias, {Push("UngroupOkay", Head(checking).group)})
     \/ /\ currentGroup = None
        /\ pushed' = {Push("Fail", Head(checking).group)}
        /\ UNCHANGED lease
  /\ UNCHANGED ending

\* A user's adb key or vnc password was recognised.  The keepalive that
\* follows finds the channel just registered, or that of the owner.
AutoGroup(g) ==
  /\ Join(g, 0, {})
  /\ UNCHANGED <<checking, ending>>

\* Another routed message on the solo or the group channel, or input.
Activity ==
  /\ currentGroup # None
  /\ channels' = KeepAlive(channels, currentGroup)
  /\ pushed' = {}
  /\ UNCHANGED <<currentGroup, alias, subscribed, checking, ending, announced>>

-----------------------------------------------------------------------------
(* Timers, shutdown, time. *)

\* Mutant: check() looks once and does not set the timer again.
CheckOnce(g) ==
  /\ checking = <<>>
  /\ channels[g] # NoChannel /\ channels[g].timer = 0
  /\ IF Expired(channels[g])
     THEN Leave("automatic_timeout", Unregister(channels, g),
                UnregisterAlias(channels, alias, g), {})
     ELSE /\ channels' = [channels EXCEPT ![g].timer = Off]
          /\ pushed' = {}
          /\ UNCHANGED <<currentGroup, alias, subscribed, announced>>
  /\ UNCHANGED <<checking, ending>>

\* The timer of a channel fires: an expired channel is unregistered and the
\* plugin, told so, leaves the group if it is the current one.
Check(g) ==
  /\ checking = <<>>
  /\ channels[g] # NoChannel /\ channels[g].timer = 0
  /\ IF Expired(channels[g])
     THEN IF currentGroup = g
          THEN Leave("automatic_timeout", Unregister(channels, g),
                     UnregisterAlias(channels, alias, g), {})
          ELSE /\ channels' = Unregister(channels, g)
               /\ alias' = UnregisterAlias(channels, alias, g)
               /\ pushed' = {}
               /\ UNCHANGED <<currentGroup, subscribed, announced>>
     ELSE /\ channels' = [channels EXCEPT ![g] = Rearm(@)]
          /\ pushed' = {}
          /\ UNCHANGED <<currentGroup, alias, subscribed, announced>>
  /\ UNCHANGED <<checking, ending>>

\* SIGTERM: lifecycle runs its cleanups, and messages are handled until the
\* last of them is done.
Terminate ==
  /\ ~ending /\ checking = <<>>
  /\ ending' = TRUE
  /\ \/ Leave("device_absent", channels, alias, {})
     \/ currentGroup = None /\ pushed' = {} /\ UNCHANGED lease
  /\ UNCHANGED checking

\* The process ends, at the end of a shutdown or by a crash, and the provider
\* starts another.  Its DeviceAbsent, or the DeviceReady of the new process,
\* tells that nobody owns the device.
Die ==
  /\ currentGroup' = None
  /\ channels' = [g \in Groups |-> NoChannel]
  /\ alias' = None /\ subscribed' = {} /\ checking' = <<>>
  /\ ending' = FALSE /\ pushed' = {} /\ announced' = None

Tick ==
  /\ checking = <<>>
  /\ channels' = Elapse(channels)
  /\ pushed' = {}
  /\ UNCHANGED <<currentGroup, alias, subscribed, checking, ending, announced>>

-----------------------------------------------------------------------------
Next ==
  \/ \E request \in Request : Receive(request)
  \/ Refuse \/ FinishGroup \/ FinishUngroup
  \/ \E g \in Groups : AutoGroup(g) \/ Check(g)
  \/ Activity \/ Terminate \/ Die \/ Tick

\* Timers fire and time passes.
Fairness == WF_vars(Tick) /\ \A g \in Groups : WF_vars(Check(g))

Spec == Init /\ [][Next]_vars /\ Fairness

-----------------------------------------------------------------------------
(* Properties. *)

Reasons == {"ungroup_request", "automatic_timeout", "device_absent"}
Pushes ==
  [type : {"JoinGroup", "DeviceStatusChange", "GroupOkay", "UngroupOkay", "Fail"},
   group : Groups]
    \cup [type : {"LeaveGroup"}, group : Groups, reason : Reasons]

\* Every variable keeps its type.
TypeOK ==
  /\ currentGroup \in Groups \cup {None}
  /\ channels \in [Groups -> Channel \cup {NoChannel}]
  /\ alias \in Groups \cup {None}
  /\ subscribed \in SUBSET Groups
  /\ checking \in Seq(Request)
  /\ ending \in BOOLEAN
  /\ pushed \subseteq Pushes
  /\ announced \in Groups \cup {None}

\* The plugin, the channel manager and the socket agree on the owner: only
\* its channel is registered, the solo channel is its alias and the socket
\* listens to it alone.  So register() never finds the alias taken, an error
\* that join() would swallow after it has set the owner.
LeaseAgrees ==
  /\ \A g \in Groups : channels[g] # NoChannel <=> currentGroup = g
  /\ alias = currentGroup
  /\ subscribed = {currentGroup} \ {None}

\* The JoinGroup and LeaveGroup messages, in the order pushed, tell the owner.
AnnouncedOwner == announced = currentGroup

\* A timer that runs is due before the owner's time is up, whatever kept the
\* channel alive or extended it meanwhile.
TimerInTime ==
  \A g \in Groups :
    channels[g] # NoChannel /\ channels[g].timer > 0
      => channels[g].idle + channels[g].timer <= channels[g].timeout

\* The reply "okay" to a GroupMessage: the group of its sender owns the device.
OkayMeansOwner ==
  \A g \in Groups : Push("GroupOkay", g) \in pushed => currentGroup = g

\* The lease of an owner who does nothing ends, if it was granted for a time.
Timed(g) == channels[g] # NoChannel /\ channels[g].timer # Off
IdleTimedLeaseEnds ==
  \A g \in Groups :
    (Timed(g) /\ channels[g].idle > 0) ~> (channels[g] = NoChannel \/ channels[g].idle = 0)

\* The same of every owner whose timeout is not infinity.
Finite(g) == channels[g] # NoChannel /\ channels[g].timeout # Infinite
IdleLeaseEnds ==
  \A g \in Groups :
    (Finite(g) /\ channels[g].idle > 0) ~> (channels[g] = NoChannel \/ channels[g].idle = 0)

-----------------------------------------------------------------------------
\* The plugin keeps what a device promises its users.
Owned == currentGroup # None /\ channels[currentGroup] # NoChannel
LeaseTimed == Owned /\ channels[currentGroup].timer # Off
LeaseTerm == IF Owned THEN channels[currentGroup].timeout ELSE 0
LeaseIdle == IF Owned THEN channels[currentGroup].idle ELSE 0
Told == {r \in Reasons : \E g \in Groups : LeaveGroup(g, r) \in pushed}

Lease == INSTANCE DeviceLease WITH
  MaxTerm <- MaxTimeout, owner <- currentGroup,
  timed <- LeaseTimed, term <- LeaseTerm, idle <- LeaseIdle, told <- Told

\* One owner at a time, who cannot be replaced, only leave; who is told
\* "automatic_timeout" only after having been inactive for the whole time of a
\* lease that was granted for a time.
ImplementsDeviceLease == Lease!Spec
=============================================================================
