------------------------- MODULE GroupPluginProofs -------------------------
(***************************************************************************)
(* What GroupPlugin.tla states, proved for any set of users and any times. *)
(*                                                                         *)
(* TypeOK is inductive.  LeaseAgrees and AnnouncedOwner are inductive      *)
(* together once types are known: join() relies on a free alias, leave()   *)
(* on the channel of the current group.  TimerInTime needs TimedLease: a   *)
(* timer is only ever set for a timeout that is not infinity.              *)
(***************************************************************************)
EXTENDS GroupPlugin, SequenceTheorems, TLAPS

USE ChannelManagerAssumption, GroupPluginAssumption

Channels == [Groups -> Channel \cup {NoChannel}]

LEMMA ChannelClosed ==
  /\ NoChannel \notin Channel
  /\ \A c \in Channel : Older(c) \in Channel /\ (~Expired(c) => Rearm(c) \in Channel)
<1>1. ASSUME NEW c \in Channel PROVE Older(c) \in Channel
  <2>1. AtMost(c.idle + 1) \in 0..MaxTimeout
    BY DEF AtMost, Channel
  <2>2. (IF c.timer > 0 THEN c.timer - 1 ELSE c.timer) \in -1..MaxTimeout
    BY DEF Channel
  <2> QED BY <2>1, <2>2 DEF Older, Channel
<1>2. ASSUME NEW c \in Channel, ~Expired(c) PROVE Rearm(c) \in Channel
  BY <1>2 DEF Rearm, Expired, Channel, Infinite, Off
<1> QED BY <1>1, <1>2 DEF Channel

\* What the methods of the ChannelManager do to the type of its channels.
LEMMA ChannelsClosed ==
  ASSUME NEW cs \in Channels, NEW g \in Groups
  PROVE  /\ Unregister(cs, g) \in Channels
         /\ \A i \in Groups \cup {None} : KeepAlive(cs, i) \in Channels
         /\ UpdateTimeout(cs, g, Quarter) \in Channels
         /\ \A t \in 1..MaxTimeout : Register(cs, g, t) \in Channels
         /\ cs[g] # NoChannel /\ ~Expired(cs[g]) => [cs EXCEPT ![g] = Rearm(@)] \in Channels
         /\ Elapse(cs) \in Channels
<1>1. Unregister(cs, g) \in Channels
  BY DEF Channels, Unregister
<1>2. \A i \in Groups \cup {None} : KeepAlive(cs, i) \in Channels
  BY DEF Channels, KeepAlive, Channel
<1>3. UpdateTimeout(cs, g, Quarter) \in Channels
  BY DEF Channels, UpdateTimeout, Channel, AtMost
<1>4. ASSUME NEW t \in 1..MaxTimeout PROVE Register(cs, g, t) \in Channels
  BY DEF Channels, Register, Rearm, Channel, Infinite, Off
<1>5. ASSUME cs[g] # NoChannel, ~Expired(cs[g]) PROVE [cs EXCEPT ![g] = Rearm(@)] \in Channels
  BY <1>5, ChannelClosed DEF Channels
<1>6. Elapse(cs) \in Channels
  BY ChannelClosed DEF Channels, Elapse
<1> QED BY <1>1, <1>2, <1>3, <1>4, <1>5, <1>6

-----------------------------------------------------------------------------
(* Types. *)

LEMMA TypeInit == Init => TypeOK
<1> SUFFICES ASSUME Init PROVE TypeOK
  OBVIOUS
<1>1. checking \in Seq(Request)
  BY EmptySeq DEF Init
<1>2. channels \in [Groups -> Channel \cup {NoChannel}]
  BY DEF Init
<1> QED BY <1>1, <1>2 DEF Init, TypeOK

LEMMA PushTypes ==
  ASSUME NEW g \in Groups
  PROVE  /\ \A type \in {"JoinGroup", "DeviceStatusChange", "GroupOkay", "UngroupOkay", "Fail"} :
              Push(type, g) \in Pushes
         /\ \A reason \in Reasons : LeaveGroup(g, reason) \in Pushes
  BY DEF Push, Pushes, LeaveGroup

LEMMA JoinType ==
  ASSUME TypeOK, NEW g \in Groups, NEW t \in Timeouts \cup {0},
         NEW reply \in SUBSET Pushes, Join(g, t, reply)
  PROVE  /\ currentGroup' \in Groups \cup {None}
         /\ channels' \in Channels
         /\ alias' \in Groups \cup {None}
         /\ subscribed' \in SUBSET Groups
         /\ pushed' \subseteq Pushes
         /\ announced' \in Groups \cup {None}
<1>1. channels \in Channels
  BY DEF TypeOK, Channels
<1>2. (IF t = 0 THEN GroupTimeout ELSE t) \in 1..MaxTimeout
  OBVIOUS
<1>3. CASE currentGroup \notin {None, g}
  BY <1>1, <1>3 DEF Join, TypeOK, lease
<1>4. CASE currentGroup = g
  BY <1>1, <1>4, ChannelsClosed, PushTypes DEF Join, TypeOK, lease
<1>5. CASE currentGroup = None /\ alias # None
  BY <1>1, <1>5 DEF Join, TypeOK, lease
<1>6. CASE currentGroup = None /\ alias = None
  <2>1. Register(channels, g, IF t = 0 THEN GroupTimeout ELSE t) \in Channels
    BY <1>1, <1>2, ChannelsClosed
  <2> QED BY <1>6, <2>1, PushTypes DEF Join, TypeOK
<1> QED BY <1>3, <1>4, <1>5, <1>6

LEMMA LeaveType ==
  ASSUME TypeOK, NEW reason \in Reasons, NEW cs \in Channels,
         NEW al \in Groups \cup {None}, NEW reply \in SUBSET Pushes,
         Leave(reason, cs, al, reply)
  PROVE  /\ currentGroup' \in Groups \cup {None}
         /\ channels' \in Channels
         /\ alias' \in Groups \cup {None}
         /\ subscribed' \in SUBSET Groups
         /\ pushed' \subseteq Pushes
         /\ announced' \in Groups \cup {None}
  BY ChannelsClosed, PushTypes DEF Leave, TypeOK, UnregisterAlias

\* A handler that leaves, and otherwise keeps or ends what it waits for.
LEMMA LeaveKeepsType ==
  ASSUME TypeOK, NEW reason \in Reasons, NEW cs \in Channels,
         NEW al \in Groups \cup {None}, NEW reply \in SUBSET Pushes,
         Leave(reason, cs, al, reply), checking' \in Seq(Request), ending' \in BOOLEAN
  PROVE  TypeOK'
<1>1. /\ currentGroup' \in Groups \cup {None}
      /\ channels' \in Channels
      /\ alias' \in Groups \cup {None}
      /\ subscribed' \in SUBSET Groups
      /\ pushed' \subseteq Pushes
      /\ announced' \in Groups \cup {None}
  BY LeaveType
<1> QED BY <1>1 DEF TypeOK, Channels

LEMMA TypeNext == TypeOK /\ [Next]_vars => TypeOK'
<1> SUFFICES ASSUME TypeOK, [Next]_vars PROVE TypeOK'
  OBVIOUS
<1> USE DEF Channels
<1>1. ASSUME NEW request \in Request, Receive(request) PROVE TypeOK'
  <2>1. KeepAlive(channels, alias) \in Channels
    BY ChannelsClosed DEF TypeOK, KeepAlive
  <2> QED BY <1>1, <2>1 DEF Receive, TypeOK
<1>2. ASSUME checking # <<>>
      PROVE  /\ Tail(checking) \in Seq(Request) /\ Head(checking) \in Request
             /\ Head(checking).group \in Groups /\ Head(checking).timeout \in Timeouts
  <2>1. checking \in Seq(Request)
    BY DEF TypeOK
  <2>2. Head(checking) \in Request /\ Tail(checking) \in Seq(Request)
    BY <1>2, <2>1, HeadTailProperties
  <2> QED BY <2>2 DEF Request
<1>3. CASE Refuse
  BY <1>2, <1>3, PushTypes DEF Refuse, lease, TypeOK
<1>4. CASE FinishGroup
  <2>1. {Push("GroupOkay", Head(checking).group)} \in SUBSET Pushes
    BY <1>2, <1>4, PushTypes DEF FinishGroup
  <2> QED BY <1>2, <1>4, <2>1, JoinType DEF FinishGroup, TypeOK
<1>5. CASE FinishUngroup
  <2>1. {Push("UngroupOkay", Head(checking).group)} \in SUBSET Pushes
    BY <1>2, <1>5, PushTypes DEF FinishUngroup
  <2>2. CASE Leave("ungroup_request", channels, alias,
                   {Push("UngroupOkay", Head(checking).group)})
    BY <1>2, <1>5, <2>1, <2>2, LeaveType DEF FinishUngroup, TypeOK, Reasons
  <2>3. CASE currentGroup = None /\ pushed' = {Push("Fail", Head(checking).group)} /\ UNCHANGED lease
    BY <1>2, <1>5, <2>3, PushTypes DEF FinishUngroup, lease, TypeOK
  <2> QED BY <1>5, <2>2, <2>3 DEF FinishUngroup
<1>6. ASSUME NEW g \in Groups, AutoGroup(g) PROVE TypeOK'
  BY <1>6, JoinType DEF AutoGroup, TypeOK
<1>7. ASSUME NEW g \in Groups, Check(g) PROVE TypeOK'
  <2>1. CASE Expired(channels[g]) /\ currentGroup = g
    <3>1. /\ Unregister(channels, g) \in Channels
          /\ UnregisterAlias(channels, alias, g) \in Groups \cup {None}
      BY ChannelsClosed DEF TypeOK, UnregisterAlias
    <3>2. Leave("automatic_timeout", Unregister(channels, g),
                UnregisterAlias(channels, alias, g), {})
      BY <1>7, <2>1 DEF Check
    <3>3. checking' \in Seq(Request) /\ ending' \in BOOLEAN
      BY <1>7 DEF Check, TypeOK
    <3>4. "automatic_timeout" \in Reasons /\ {} \in SUBSET Pushes
      BY DEF Reasons
    <3> QED BY <3>1, <3>2, <3>3, <3>4, LeaveKeepsType
  <2>2. CASE Expired(channels[g]) /\ currentGroup # g
    BY <1>7, <2>2, ChannelsClosed DEF Check, TypeOK, UnregisterAlias
  <2>3. CASE ~Expired(channels[g])
    <3>1. [channels EXCEPT ![g] = Rearm(@)] \in Channels
      BY <1>7, <2>3, ChannelsClosed DEF Check, TypeOK
    <3> QED BY <1>7, <2>3, <3>1 DEF Check, TypeOK
  <2> QED BY <2>1, <2>2, <2>3
<1>8. CASE Activity
  <2>1. KeepAlive(channels, currentGroup) \in Channels
    BY ChannelsClosed DEF TypeOK, KeepAlive
  <2> QED BY <1>8, <2>1 DEF Activity, TypeOK
<1>9. CASE Terminate
  <2>1. CASE Leave("device_absent", channels, alias, {})
    <3>1. channels \in Channels /\ alias \in Groups \cup {None}
      BY DEF TypeOK
    <3>2. checking' \in Seq(Request) /\ ending' \in BOOLEAN
      BY <1>9 DEF Terminate, TypeOK
    <3>3. "device_absent" \in Reasons /\ {} \in SUBSET Pushes
      BY DEF Reasons
    <3> QED BY <2>1, <3>1, <3>2, <3>3, LeaveKeepsType
  <2>2. CASE currentGroup = None /\ pushed' = {} /\ UNCHANGED lease
    BY <1>9, <2>2 DEF Terminate, lease, TypeOK
  <2> QED BY <1>9, <2>1, <2>2 DEF Terminate
<1>10. CASE Die
  <2>1. checking' \in Seq(Request)
    BY <1>10, EmptySeq DEF Die
  <2>2. channels' \in [Groups -> Channel \cup {NoChannel}]
    BY <1>10 DEF Die
  <2> QED BY <1>10, <2>1, <2>2 DEF Die, TypeOK
<1>11. CASE Tick
  <2>1. Elapse(channels) \in Channels
    BY ChannelsClosed DEF TypeOK, Elapse
  <2> QED BY <1>11, <2>1 DEF Tick, TypeOK
<1>12. CASE UNCHANGED vars
  BY <1>12 DEF vars, TypeOK
<1> QED BY <1>1, <1>3, <1>4, <1>5, <1>6, <1>7, <1>8, <1>9, <1>10, <1>11, <1>12 DEF Next

\* Every variable of the plugin keeps its type, for any users and any times.
THEOREM TypeCorrect == Spec => []TypeOK
  BY TypeInit, TypeNext, PTL DEF Spec

-----------------------------------------------------------------------------
(* The owner. *)

\* Which channels are registered after a method of the ChannelManager.
LEMMA Registered ==
  ASSUME NEW cs \in Channels, NEW g \in Groups, NEW h \in Groups
  PROVE  /\ Unregister(cs, g)[h] # NoChannel <=> h # g /\ cs[h] # NoChannel
         /\ \A i \in Groups \cup {None} : KeepAlive(cs, i)[h] # NoChannel <=> cs[h] # NoChannel
         /\ UpdateTimeout(cs, g, Quarter)[h] # NoChannel <=> cs[h] # NoChannel
         /\ \A t \in 1..MaxTimeout :
              Register(cs, g, t)[h] # NoChannel <=> h = g \/ cs[h] # NoChannel
         /\ cs[g] # NoChannel /\ ~Expired(cs[g])
              => ([cs EXCEPT ![g] = Rearm(@)][h] # NoChannel <=> cs[h] # NoChannel)
         /\ Elapse(cs)[h] # NoChannel <=> cs[h] # NoChannel
<1> USE DEF Channels
<1>1. Unregister(cs, g)[h] # NoChannel <=> h # g /\ cs[h] # NoChannel
  BY DEF Unregister
<1>2. ASSUME NEW i \in Groups \cup {None}
      PROVE  KeepAlive(cs, i)[h] # NoChannel <=> cs[h] # NoChannel
  BY DEF KeepAlive, Channel
<1>3. UpdateTimeout(cs, g, Quarter)[h] # NoChannel <=> cs[h] # NoChannel
  BY ChannelsClosed DEF UpdateTimeout, Channel, AtMost
<1>4. ASSUME NEW t \in 1..MaxTimeout
      PROVE  Register(cs, g, t)[h] # NoChannel <=> h = g \/ cs[h] # NoChannel
  BY DEF Register, Rearm, Channel, Infinite, Off
<1>5. ASSUME cs[g] # NoChannel, ~Expired(cs[g])
      PROVE  [cs EXCEPT ![g] = Rearm(@)][h] # NoChannel <=> cs[h] # NoChannel
  BY <1>5, ChannelClosed
<1>6. Elapse(cs)[h] # NoChannel <=> cs[h] # NoChannel
  BY ChannelClosed DEF Elapse
<1> QED BY <1>1, <1>2, <1>3, <1>4, <1>5, <1>6

Agreement == LeaseAgrees /\ AnnouncedOwner

LEMMA JoinAgrees ==
  ASSUME TypeOK, Agreement, NEW g \in Groups, NEW t \in Timeouts \cup {0},
         NEW reply, Join(g, t, reply)
  PROVE  Agreement'
<1> USE DEF Agreement, LeaseAgrees, AnnouncedOwner
<1>1. channels \in Channels
  BY DEF TypeOK, Channels
<1>2. CASE currentGroup \notin {None, g}
  BY <1>2 DEF Join, lease
<1>3. CASE currentGroup = g
  BY <1>1, <1>3, Registered DEF Join
<1>4. CASE currentGroup = None
  <2>1. (IF t = 0 THEN GroupTimeout ELSE t) \in 1..MaxTimeout
    OBVIOUS
  <2> QED BY <1>1, <1>4, <2>1, Registered DEF Join
<1> QED BY <1>2, <1>3, <1>4

LEMMA LeaveAgrees ==
  ASSUME TypeOK, Agreement, NEW reason, NEW cs \in Channels, NEW al, NEW reply,
         Leave(reason, cs, al, reply),
         \/ cs = channels /\ al = alias
         \/ cs = Unregister(channels, currentGroup) /\ al = None
  PROVE  Agreement'
<1>1. currentGroup \in Groups /\ channels \in Channels
  BY DEF Leave, TypeOK, Channels
<1>2. \A h \in Groups : Unregister(cs, currentGroup)[h] = NoChannel
  BY <1>1, Registered DEF Agreement, LeaseAgrees
<1>3. UnregisterAlias(cs, al, currentGroup) = None
  BY <1>1, Registered DEF Agreement, LeaseAgrees, UnregisterAlias
<1> QED BY <1>1, <1>2, <1>3 DEF Leave, Agreement, LeaseAgrees, AnnouncedOwner

LEMMA AgreementNext == TypeOK /\ Agreement /\ [Next]_vars => Agreement'
<1> SUFFICES ASSUME TypeOK, Agreement, [Next]_vars PROVE Agreement'
  OBVIOUS
<1>0. channels \in Channels /\ currentGroup \in Groups \cup {None} /\ alias \in Groups \cup {None}
  BY DEF TypeOK, Channels
<1>1. ASSUME NEW request \in Request, Receive(request) PROVE Agreement'
  BY <1>0, <1>1, Registered DEF Receive, Agreement, LeaseAgrees, AnnouncedOwner
<1>2. CASE Refuse
  BY <1>2 DEF Refuse, lease, Agreement, LeaseAgrees, AnnouncedOwner
<1>3. CASE FinishGroup
  <2>1. Head(checking) \in Request
    BY <1>3, HeadTailProperties DEF FinishGroup, TypeOK
  <2> QED BY <1>3, <2>1, JoinAgrees DEF FinishGroup, Request
<1>4. CASE FinishUngroup
  <2>1. CASE Leave("ungroup_request", channels, alias,
                   {Push("UngroupOkay", Head(checking).group)})
    BY <1>0, <2>1, LeaveAgrees
  <2>2. CASE UNCHANGED lease
    BY <2>2 DEF lease, Agreement, LeaseAgrees, AnnouncedOwner
  <2> QED BY <1>4, <2>1, <2>2 DEF FinishUngroup
<1>5. ASSUME NEW g \in Groups, AutoGroup(g) PROVE Agreement'
  BY <1>5, JoinAgrees DEF AutoGroup
<1>6. ASSUME NEW g \in Groups, Check(g) PROVE Agreement'
  <2>1. currentGroup = g /\ alias = g
    BY <1>6 DEF Check, Agreement, LeaseAgrees
  <2>2. CASE Expired(channels[g])
    <3>1. UnregisterAlias(channels, alias, g) = None
      BY <1>6 DEF Check, UnregisterAlias
    <3>2. Unregister(channels, g) \in Channels
      BY <1>0, ChannelsClosed
    <3>3. Leave("automatic_timeout", Unregister(channels, currentGroup), None, {})
      BY <1>6, <2>1, <2>2, <3>1 DEF Check
    <3> QED BY <2>1, <3>2, <3>3, LeaveAgrees
  <2>3. CASE ~Expired(channels[g])
    <3>1. channels' = [channels EXCEPT ![g] = Rearm(@)] /\ channels[g] # NoChannel
      BY <1>6, <2>3 DEF Check
    <3>2. \A h \in Groups : channels'[h] # NoChannel <=> channels[h] # NoChannel
      BY <1>0, <2>3, <3>1, Registered
    <3> QED BY <1>6, <2>3, <3>2 DEF Check, Agreement, LeaseAgrees, AnnouncedOwner
  <2> QED BY <2>2, <2>3
<1>7. CASE Activity
  BY <1>0, <1>7, Registered DEF Activity, Agreement, LeaseAgrees, AnnouncedOwner
<1>8. CASE Terminate
  <2>1. CASE Leave("device_absent", channels, alias, {})
    BY <1>0, <2>1, LeaveAgrees
  <2>2. CASE UNCHANGED lease
    BY <2>2 DEF lease, Agreement, LeaseAgrees, AnnouncedOwner
  <2> QED BY <1>8, <2>1, <2>2 DEF Terminate
<1>9. CASE Die
  BY <1>9 DEF Die, Agreement, LeaseAgrees, AnnouncedOwner
<1>10. CASE Tick
  BY <1>0, <1>10, Registered DEF Tick, Agreement, LeaseAgrees, AnnouncedOwner
<1>11. CASE UNCHANGED vars
  BY <1>11 DEF vars, Agreement, LeaseAgrees, AnnouncedOwner
<1> QED BY <1>1, <1>2, <1>3, <1>4, <1>5, <1>6, <1>7, <1>8, <1>9, <1>10, <1>11 DEF Next

LEMMA AgreementAlways == Spec => []Agreement
<1>1. Init => Agreement
  BY DEF Init, Agreement, LeaseAgrees, AnnouncedOwner
<1> QED BY <1>1, TypeCorrect, AgreementNext, PTL DEF Spec

\* The plugin, the channels and the socket agree on the owner, so that
\* register() never fails behind join()'s back.
THEOREM LeaseAgreesAlways == Spec => []LeaseAgrees
<1>1. Agreement => LeaseAgrees
  BY DEF Agreement
<1> QED BY <1>1, AgreementAlways, PTL

\* JoinGroup and LeaveGroup messages tell the owner at all times.
THEOREM AnnouncedOwnerAlways == Spec => []AnnouncedOwner
<1>1. Agreement => AnnouncedOwner
  BY DEF Agreement
<1> QED BY <1>1, AgreementAlways, PTL

-----------------------------------------------------------------------------
(* Timers. *)

Timely(c) ==
  /\ c.timer > 0 => c.idle + c.timer <= c.timeout
  /\ c.timer # Off => c.timeout > Infinite

AllTimely(cs) == \A g \in Groups : cs[g] # NoChannel => Timely(cs[g])

LEMMA TimelyClosed ==
  ASSUME NEW cs \in Channels, AllTimely(cs), NEW g \in Groups
  PROVE  /\ AllTimely(Unregister(cs, g))
         /\ \A i \in Groups \cup {None} : AllTimely(KeepAlive(cs, i))
         /\ AllTimely(UpdateTimeout(cs, g, Quarter))
         /\ \A t \in 1..MaxTimeout : AllTimely(Register(cs, g, t))
         /\ cs[g] # NoChannel /\ ~Expired(cs[g]) => AllTimely([cs EXCEPT ![g] = Rearm(@)])
         /\ AllTimely(Elapse(cs))
<1> USE DEF Channels, AllTimely
<1>1. AllTimely(Unregister(cs, g))
  BY DEF Unregister
<1>2. ASSUME NEW i \in Groups \cup {None} PROVE AllTimely(KeepAlive(cs, i))
  <2>1. ASSUME NEW c \in Channel, Timely(c) PROVE Timely([c EXCEPT !.idle = 0])
    BY <2>1 DEF Timely, Channel
  <2> QED BY <2>1 DEF KeepAlive
<1>3. AllTimely(UpdateTimeout(cs, g, Quarter))
  <2>1. ASSUME NEW c \in Channel, Timely(c)
        PROVE  Timely([c EXCEPT !.timeout = AtMost(@ + Quarter)])
    <3>1. AtMost(c.timeout + Quarter) >= c.timeout /\ AtMost(c.timeout + Quarter) \in Nat
      BY DEF AtMost, Channel
    <3> QED BY <2>1, <3>1 DEF Timely, Channel, Infinite
  <2> QED BY <2>1 DEF UpdateTimeout
<1>4. ASSUME NEW t \in 1..MaxTimeout PROVE AllTimely(Register(cs, g, t))
  BY DEF Register, Rearm, Timely, Infinite, Off
<1>5. ASSUME cs[g] # NoChannel, ~Expired(cs[g]) PROVE AllTimely([cs EXCEPT ![g] = Rearm(@)])
  <2>1. ASSUME NEW c \in Channel PROVE Timely(Rearm(c))
    BY DEF Rearm, Timely, Channel, Infinite, Off
  <2> QED BY <1>5, <2>1
<1>6. AllTimely(Elapse(cs))
  <2>1. ASSUME NEW c \in Channel, Timely(c) PROVE Timely(Older(c))
    <3>1. AtMost(c.idle + 1) <= c.idle + 1 /\ AtMost(c.idle + 1) \in Nat
      BY DEF AtMost, Channel
    <3>2. /\ Older(c).idle = AtMost(c.idle + 1) /\ Older(c).timeout = c.timeout
          /\ Older(c).timer = IF c.timer > 0 THEN c.timer - 1 ELSE c.timer
      BY DEF Older, Channel
    <3> QED BY <2>1, <3>1, <3>2 DEF Timely, Channel, Off, Infinite
  <2> QED BY <2>1 DEF Elapse
<1> QED BY <1>1, <1>2, <1>3, <1>4, <1>5, <1>6

LEMMA TimelyNext ==
  TypeOK /\ Agreement /\ AllTimely(channels) /\ [Next]_vars => AllTimely(channels)'
<1> SUFFICES ASSUME TypeOK, Agreement, AllTimely(channels), [Next]_vars
             PROVE  AllTimely(channels')
  BY DEF AllTimely, Timely
<1>0. channels \in Channels /\ currentGroup \in Groups \cup {None} /\ alias \in Groups \cup {None}
  BY DEF TypeOK, Channels
<1>a. ASSUME NEW g \in Groups, NEW t \in Timeouts \cup {0}, NEW reply, Join(g, t, reply)
      PROVE  AllTimely(channels')
  <2>1. (IF t = 0 THEN GroupTimeout ELSE t) \in 1..MaxTimeout
    OBVIOUS
  <2>2. CASE channels' = UpdateTimeout(channels, g, Quarter)
    BY <1>0, <2>2, TimelyClosed
  <2>3. CASE channels' = Register(channels, g, IF t = 0 THEN GroupTimeout ELSE t)
    BY <1>0, <2>1, <2>3, TimelyClosed
  <2> QED BY <1>a, <2>2, <2>3 DEF Join, lease
<1>b. ASSUME NEW reason, NEW al, NEW reply, Leave(reason, channels, al, reply)
      PROVE  AllTimely(channels')
  BY <1>0, <1>b, TimelyClosed DEF Leave
<1>1. ASSUME NEW request \in Request, Receive(request) PROVE AllTimely(channels')
  <2>1. request.group \in Groups
    BY DEF Request
  <2>2. channels' = KeepAlive(channels, alias)
    BY <1>1 DEF Receive
  <2> QED BY <1>0, <2>1, <2>2, TimelyClosed
<1>2. CASE Refuse
  BY <1>2 DEF Refuse, lease
<1>3. CASE FinishGroup
  <2>1. Head(checking) \in Request
    BY <1>3, HeadTailProperties DEF FinishGroup, TypeOK
  <2> QED BY <1>3, <1>a, <2>1 DEF FinishGroup, Request
<1>4. CASE FinishUngroup
  BY <1>4, <1>b DEF FinishUngroup, lease
<1>5. ASSUME NEW g \in Groups, AutoGroup(g) PROVE AllTimely(channels')
  BY <1>5, <1>a DEF AutoGroup
<1>6. ASSUME NEW g \in Groups, Check(g) PROVE AllTimely(channels')
  <2>1. CASE Expired(channels[g])
    <3>1. Unregister(channels, g) \in Channels /\ AllTimely(Unregister(channels, g))
      BY <1>0, ChannelsClosed, TimelyClosed
    <3>2. currentGroup = g
      BY <1>6 DEF Check, Agreement, LeaseAgrees
    <3>3. channels' = Unregister(Unregister(channels, g), g)
      BY <1>6, <2>1, <3>2 DEF Check, Leave
    <3> QED BY <3>1, <3>3, TimelyClosed
  <2>2. CASE ~Expired(channels[g])
    <3>1. channels' = [channels EXCEPT ![g] = Rearm(@)] /\ channels[g] # NoChannel
      BY <1>6, <2>2 DEF Check
    <3> QED BY <1>0, <2>2, <3>1, TimelyClosed
  <2> QED BY <2>1, <2>2
<1>7. CASE Activity
  BY <1>0, <1>7, TimelyClosed DEF Activity
<1>8. CASE Terminate
  BY <1>8, <1>b DEF Terminate, lease
<1>9. CASE Die
  BY <1>9 DEF Die, AllTimely
<1>10. CASE Tick
  <2>1. \A g \in Groups : AllTimely(Elapse(channels))
    BY <1>0, TimelyClosed
  <2> QED BY <1>10, <2>1 DEF Tick, AllTimely
<1>11. CASE UNCHANGED vars
  BY <1>11 DEF vars
<1> QED BY <1>1, <1>2, <1>3, <1>4, <1>5, <1>6, <1>7, <1>8, <1>9, <1>10, <1>11 DEF Next

LEMMA TimelyAlways == Spec => []AllTimely(channels)
<1>1. Init => AllTimely(channels)
  BY DEF Init, AllTimely
<1> QED BY <1>1, TypeCorrect, AgreementAlways, TimelyNext, PTL DEF Spec

\* A timer is always due before the time of the lease is up.
THEOREM TimerInTimeAlways == Spec => []TimerInTime
<1>1. AllTimely(channels) => TimerInTime
  BY DEF AllTimely, Timely, TimerInTime
<1> QED BY <1>1, TimelyAlways, PTL

-----------------------------------------------------------------------------
(* The abstract lease. *)

IInv == TypeOK /\ Agreement /\ AllTimely(channels)

\* What the abstract variables are of a plugin that is free or owned.
Abstracted ==
  /\ currentGroup \in Groups \cup {None}
  /\ channels \in Channels
  /\ currentGroup = None => LeaseTimed = FALSE /\ LeaseTerm = 0 /\ LeaseIdle = 0
  /\ currentGroup # None =>
       /\ channels[currentGroup] \in Channel
       /\ LeaseTimed = (channels[currentGroup].timer # Off)
       /\ LeaseTerm = channels[currentGroup].timeout
       /\ LeaseIdle = channels[currentGroup].idle

LEMMA LeaseValues == IInv => Abstracted
<1> SUFFICES ASSUME IInv PROVE Abstracted
  OBVIOUS
<1> USE DEF Abstracted
<1>1. currentGroup \in Groups \cup {None} /\ channels \in Channels
  BY DEF IInv, TypeOK, Channels
<1>2. CASE currentGroup = None
  BY <1>1, <1>2 DEF LeaseTimed, LeaseTerm, LeaseIdle, Owned
<1>3. CASE currentGroup # None
  <2>1. Owned /\ channels[currentGroup] \in Channel
    BY <1>1, <1>3 DEF Owned, IInv, Agreement, LeaseAgrees, Channels
  <2> QED BY <1>1, <1>3, <2>1 DEF LeaseTimed, LeaseTerm, LeaseIdle
<1> QED BY <1>2, <1>3

LEMMA LeaseValuesNext == IInv' => Abstracted'
  BY LeaseValues, PTL

LEMMA LeaveRefines ==
  ASSUME IInv, IInv', NEW reason \in Reasons, NEW cs, NEW al, NEW reply,
         \A m \in reply : m.type # "LeaveGroup", Leave(reason, cs, al, reply)
  PROVE  currentGroup \in Groups /\ Lease!Free' /\ Told' = {reason}
<1>1. currentGroup \in Groups /\ currentGroup' = None
  BY LeaseValues, LeaseValuesNext DEF Abstracted, Leave
<1>2. LeaseTimed' = FALSE /\ LeaseTerm' = 0 /\ LeaseIdle' = 0
  BY <1>1, LeaseValuesNext DEF Abstracted
<1>3. Told' = {reason}
  BY <1>1 DEF Leave, Told, LeaveGroup
<1> QED BY <1>1, <1>2, <1>3 DEF Lease!Free

LEMMA JoinRefines ==
  ASSUME IInv, IInv', NEW g \in Groups, NEW t \in Timeouts \cup {0}, NEW reply,
         \A m \in reply : m.type # "LeaveGroup", Join(g, t, reply)
  PROVE  Lease!Next
<1>1. Told' = {}
  BY DEF Join, Told, LeaveGroup, Push
<1>2. CASE currentGroup \notin {None, g}
  <2>1. UNCHANGED <<currentGroup, LeaseTimed, LeaseTerm, LeaseIdle>>
    BY <1>2 DEF Join, lease, LeaseTimed, LeaseTerm, LeaseIdle, Owned
  <2> QED BY <1>1, <2>1 DEF Lease!Next, Lease!Quiet
<1>3. CASE currentGroup = g
  <2>1. /\ channels' = UpdateTimeout(channels, g, Quarter)
        /\ currentGroup' = g /\ g # None
    BY <1>3 DEF Join
  <2>2. channels[g] \in Channel /\ channels[g] # NoChannel
    BY <1>3, <2>1, LeaseValues, ChannelClosed DEF Abstracted
  <2>3. /\ channels'[g].timer = channels[g].timer /\ channels'[g].idle = channels[g].idle
        /\ channels'[g].timeout = AtMost(channels[g].timeout + Quarter)
    BY <2>1, <2>2, LeaseValues, LeaseValuesNext DEF Abstracted, UpdateTimeout, Channel, Channels
  <2>4. AtMost(channels[g].timeout + Quarter) \in channels[g].timeout..MaxTimeout
    BY <2>2 DEF Channel, AtMost
  <2>5. /\ LeaseTerm = channels[g].timeout /\ LeaseTerm' = channels'[g].timeout
        /\ UNCHANGED <<LeaseTimed, LeaseIdle>>
    BY <1>3, <2>1, <2>3, LeaseValues, LeaseValuesNext DEF Abstracted
  <2> QED BY <1>1, <1>3, <2>1, <2>3, <2>4, <2>5 DEF Lease!Next, Lease!Extend
<1>4. CASE currentGroup = None
  <2>1. alias = None
    BY <1>4 DEF IInv, Agreement, LeaseAgrees
  <2>2. PICK n \in 1..MaxTimeout : channels' = Register(channels, g, n)
    BY <1>4, <2>1 DEF Join
  <2>3. currentGroup' = g /\ g # None
    BY <1>4 DEF Join
  <2>4. channels'[g].timeout = n /\ channels'[g].idle = 0
    BY <2>2, LeaseValues, LeaseValuesNext DEF Abstracted, Register, Rearm, Channels
  <2>5. LeaseTerm' \in 1..MaxTimeout /\ LeaseIdle' = 0 /\ LeaseTimed' \in BOOLEAN
    BY <2>3, <2>4, LeaseValuesNext DEF Abstracted
  <2> QED BY <1>1, <1>4, <2>3, <2>5 DEF Lease!Next, Lease!Grant
<1> QED BY <1>2, <1>3, <1>4

\* A step that keeps the owner alive uses the lease, if there is one.
LEMMA KeepAliveRefines ==
  ASSUME IInv, IInv', currentGroup' = currentGroup, pushed' = {},
         channels' = KeepAlive(channels, currentGroup)
  PROVE  Lease!Next
<1>1. Told' = {}
  BY DEF Told
<1>2. CASE currentGroup = None
  BY <1>1, <1>2, LeaseValues, LeaseValuesNext DEF Abstracted, Lease!Next, Lease!Quiet
<1>3. CASE currentGroup # None
  <2> DEFINE c == channels[currentGroup]
  <2>1. c \in Channel /\ c # NoChannel
    BY <1>3, LeaseValues, ChannelClosed DEF Abstracted
  <2>2. channels'[currentGroup] = [c EXCEPT !.idle = 0]
    BY <1>3, <2>1, LeaseValues DEF KeepAlive, Abstracted, Channels
  <2>3. /\ channels'[currentGroup].idle = 0
        /\ channels'[currentGroup].timer = c.timer
        /\ channels'[currentGroup].timeout = c.timeout
    BY <2>1, <2>2 DEF Channel
  <2>4. LeaseIdle' = 0 /\ UNCHANGED <<LeaseTimed, LeaseTerm>>
    BY <1>3, <2>3, LeaseValues, LeaseValuesNext DEF Abstracted
  <2> QED BY <1>1, <1>3, <2>4 DEF Lease!Next, Lease!Use
<1> QED BY <1>2, <1>3

LEMMA TickRefines ==
  ASSUME IInv, IInv', Tick
  PROVE  Lease!Next
<1>1. Told' = {} /\ currentGroup' = currentGroup
  BY DEF Told, Tick
<1>2. CASE currentGroup = None
  BY <1>1, <1>2, LeaseValues, LeaseValuesNext DEF Abstracted, Lease!Next, Lease!Quiet
<1>3. CASE currentGroup # None
  <2> DEFINE c == channels[currentGroup]
  <2>1. c \in Channel /\ c # NoChannel
    BY <1>3, LeaseValues, ChannelClosed DEF Abstracted
  <2>2. channels'[currentGroup] = Older(c)
    BY <1>3, <2>1, LeaseValues DEF Tick, Elapse, Abstracted, Channels
  <2>3. /\ channels'[currentGroup].idle = AtMost(c.idle + 1)
        /\ channels'[currentGroup].timer = IF c.timer > 0 THEN c.timer - 1 ELSE c.timer
        /\ channels'[currentGroup].timeout = c.timeout
    BY <2>1, <2>2 DEF Channel, Older
  <2>4. /\ LeaseIdle \in 0..MaxTimeout /\ LeaseIdle' = AtMost(LeaseIdle + 1)
        /\ LeaseTerm' = LeaseTerm
    BY <1>1, <1>3, <2>1, <2>3, LeaseValues, LeaseValuesNext DEF Abstracted, Channel
  <2>5. LeaseTimed' = LeaseTimed
    BY <1>1, <1>3, <2>1, <2>3, LeaseValues, LeaseValuesNext DEF Abstracted, Channel, Off
  <2>6. LeaseIdle' \in {LeaseIdle, LeaseIdle + 1} /\ LeaseIdle' <= MaxTimeout
    BY <2>4 DEF AtMost
  <2> QED BY <1>1, <1>3, <2>4, <2>5, <2>6 DEF Lease!Next, Lease!Pass
<1> QED BY <1>2, <1>3

LEMMA CheckRefines ==
  ASSUME IInv, IInv', NEW g \in Groups, Check(g)
  PROVE  Lease!Next
<1> DEFINE c == channels[g]
<1>1. currentGroup = g /\ g # None /\ c \in Channel /\ c # NoChannel /\ c.timer = 0
  BY LeaseValues DEF Check, IInv, Agreement, LeaseAgrees, Abstracted
<1>2. CASE Expired(c)
  <2>1. Leave("automatic_timeout", Unregister(channels, g),
              UnregisterAlias(channels, alias, g), {})
    BY <1>1, <1>2 DEF Check
  <2>2. Lease!Free' /\ Told' = {"automatic_timeout"}
    BY <2>1, LeaveRefines DEF Reasons
  <2>3. LeaseTimed /\ LeaseIdle >= LeaseTerm
    <3>1. LeaseTimed
      BY <1>1 DEF LeaseTimed, Owned, Off
    <3>2. LeaseIdle = c.idle /\ LeaseTerm = c.timeout
      BY <1>1, LeaseValues DEF Abstracted
    <3> QED BY <1>2, <3>1, <3>2 DEF Expired
  <2> QED BY <1>1, <2>2, <2>3 DEF Lease!Next, Lease!Expire
<1>3. CASE ~Expired(c)
  <2>1. /\ channels' = [channels EXCEPT ![g] = Rearm(@)]
        /\ currentGroup' = currentGroup /\ pushed' = {}
    BY <1>1, <1>3 DEF Check
  <2>2. c.timeout > Infinite
    BY <1>1 DEF IInv, AllTimely, Timely, Off
  <2>3. /\ channels'[g].idle = c.idle /\ channels'[g].timeout = c.timeout
        /\ channels'[g].timer # Off
    BY <1>1, <1>3, <2>1, <2>2, LeaseValues
       DEF Abstracted, Channels, Rearm, Channel, Expired, Off
  <2>4. UNCHANGED <<LeaseTimed, LeaseTerm, LeaseIdle>>
    BY <1>1, <2>1, <2>3, LeaseValues, LeaseValuesNext DEF Abstracted, Off
  <2>5. Told' = {}
    BY <2>1 DEF Told
  <2> QED BY <2>1, <2>4, <2>5 DEF Lease!Next, Lease!Quiet
<1> QED BY <1>2, <1>3

LEMMA NextRefines == IInv /\ IInv' /\ [Next]_vars => [Lease!Next]_(Lease!vars)
<1> SUFFICES ASSUME IInv, IInv', [Next]_vars PROVE Lease!Next \/ UNCHANGED Lease!vars
  OBVIOUS
<1>a. ASSUME UNCHANGED lease, \A m \in pushed' : m.type # "LeaveGroup" PROVE Lease!Next
  <2>1. Told' = {}
    BY <1>a DEF Told, LeaveGroup
  <2>2. UNCHANGED <<currentGroup, LeaseTimed, LeaseTerm, LeaseIdle>>
    BY <1>a DEF lease, LeaseTimed, LeaseTerm, LeaseIdle, Owned
  <2> QED BY <2>1, <2>2 DEF Lease!Next, Lease!Quiet
<1>1. ASSUME NEW request \in Request, Receive(request) PROVE Lease!Next
  <2>1. alias = currentGroup
    BY DEF IInv, Agreement, LeaseAgrees
  <2> QED BY <1>1, <2>1, KeepAliveRefines DEF Receive
<1>2. CASE Refuse
  BY <1>a, <1>2 DEF Refuse, Push
<1>3. CASE FinishGroup
  <2>1. Head(checking) \in Request
    BY <1>3, HeadTailProperties DEF FinishGroup, IInv, TypeOK
  <2>2. /\ Head(checking).group \in Groups /\ Head(checking).timeout \in Timeouts
        /\ \A m \in {Push("GroupOkay", Head(checking).group)} : m.type # "LeaveGroup"
    BY <2>1 DEF Request, Push
  <2> QED BY <1>3, <2>2, JoinRefines DEF FinishGroup
<1>4. CASE FinishUngroup
  <2>1. CASE Leave("ungroup_request", channels, alias,
                   {Push("UngroupOkay", Head(checking).group)})
    <3>1. currentGroup \in Groups /\ Lease!Free' /\ Told' = {"ungroup_request"}
      BY <2>1, LeaveRefines DEF Reasons, Push
    <3> QED BY <3>1 DEF Lease!Next, Lease!Release
  <2>2. CASE pushed' = {Push("Fail", Head(checking).group)} /\ UNCHANGED lease
    BY <1>a, <2>2 DEF Push
  <2> QED BY <1>4, <2>1, <2>2 DEF FinishUngroup
<1>5. ASSUME NEW g \in Groups, AutoGroup(g) PROVE Lease!Next
  BY <1>5, JoinRefines DEF AutoGroup
<1>6. ASSUME NEW g \in Groups, Check(g) PROVE Lease!Next
  BY <1>6, CheckRefines
<1>7. CASE Activity
  BY <1>7, KeepAliveRefines DEF Activity
<1>8. CASE Terminate
  <2>1. CASE Leave("device_absent", channels, alias, {})
    <3>1. currentGroup \in Groups /\ Lease!Free' /\ Told' = {"device_absent"}
      BY <2>1, LeaveRefines DEF Reasons
    <3> QED BY <3>1 DEF Lease!Next, Lease!Release
  <2>2. CASE pushed' = {} /\ UNCHANGED lease
    BY <1>a, <2>2
  <2> QED BY <1>8, <2>1, <2>2 DEF Terminate
<1>9. CASE Die
  <2>1. Lease!Free' /\ Told' = {}
    BY <1>9, LeaseValuesNext DEF Die, Lease!Free, Told, Abstracted
  <2>2. CASE currentGroup = None
    BY <2>1, <2>2, LeaseValues DEF Abstracted, Lease!Next, Lease!Quiet, Lease!Free
  <2>3. CASE currentGroup # None
    BY <2>1, <2>3 DEF Lease!Next, Lease!Release
  <2> QED BY <2>2, <2>3
<1>10. CASE Tick
  BY <1>10, TickRefines
<1>11. CASE UNCHANGED vars
  BY <1>11 DEF vars, Lease!vars, LeaseTimed, LeaseTerm, LeaseIdle, Owned, Told
<1> QED BY <1>1, <1>2, <1>3, <1>4, <1>5, <1>6, <1>7, <1>8, <1>9, <1>10, <1>11 DEF Next

\* The plugin implements the lease: the owner is never replaced, only granted,
\* extended, used, released or, after the time of the lease, expired.
THEOREM PluginImplementsLease == Spec => ImplementsDeviceLease
<1>1. Init => Lease!Init
  BY DEF Init, Lease!Init, Lease!Free, LeaseTimed, LeaseTerm, LeaseIdle, Owned, Told
<1>2. Spec => []IInv
  BY TypeCorrect, AgreementAlways, TimelyAlways, PTL DEF IInv
<1> QED BY <1>1, <1>2, NextRefines, PTL DEF Spec, Lease!Spec, ImplementsDeviceLease
=============================================================================
