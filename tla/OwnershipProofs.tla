--------------------------- MODULE OwnershipProofs ---------------------------
(***************************************************************************)
(* What holds of the worker and of every request in Ownership, for any     *)
(* number of users, requests, processors, crashes and late timeouts.       *)
(*                                                                         *)
(* RequestsInv says of one request what it may be waiting for at once; a   *)
(* step of the API keeps it for the request it is about and leaves the     *)
(* others alone.  AwakeInv needs to know of the messages on their way to   *)
(* the worker that they bring a user along where one is to be joined.      *)
(* RecordInv says of the document and the messages that are to be written  *)
(* that the last of them that names an owner names the one the worker has  *)
(* and the last that tells a state tells "ready", or, where there is none, *)
(* that the document says so already: a push can only add a last one, a    *)
(* write takes the first, and a message that is passed on is neither.  It  *)
(* holds where one processor handles all the messages.                     *)
(***************************************************************************)
EXTENDS Ownership, Integers, SequenceTheorems, FiniteSetTheorems, WellFoundedInduction, TLAPS

-----------------------------------------------------------------------------
(* Numbers and sequences.                                                  *)

\* Induction, stated with a set: a set that has 0 and with each number the next one has
\* every natural number.
LEMMA NatSetInduction ==
  ASSUME NEW T, 0 \in T, \A n \in Nat : n \in T => n + 1 \in T
  PROVE  Nat \subseteq T
<1> SUFFICES ASSUME Nat \ T # {} PROVE FALSE
  OBVIOUS
<1>1. PICK x \in Nat \ T : \A y \in Nat \ T : ~ (<<y, x>> \in OpToRel(<, Nat))
  BY NatLessThanWellFounded, WFMin
<1>2. x # 0 /\ x - 1 \in Nat
  OBVIOUS
<1>3. <<x - 1, x>> \in OpToRel(<, Nat)
  BY <1>2 DEF OpToRel
<1>4. x - 1 \in T
  BY <1>1, <1>2, <1>3
<1>5. (x - 1) + 1 \in T
  BY <1>2, <1>4
<1>6. (x - 1) + 1 = x
  OBVIOUS
<1> QED BY <1>5, <1>6

\* A sequence without its i-th element.
Cut(q, i) == SubSeq(q, 1, i - 1) \o SubSeq(q, i + 1, Len(q))

\* What is behind the element moves one place to the front.
LEMMA CutOne ==
  ASSUME NEW S, NEW q \in Seq(S), NEW i \in 1..Len(q)
  PROVE  /\ Cut(q, i) \in Seq(S)
         /\ Len(Cut(q, i)) = Len(q) - 1
         /\ \A j \in 1..Len(q) - 1 : Cut(q, i)[j] = IF j < i THEN q[j] ELSE q[j + 1]
<1> DEFINE left == SubSeq(q, 1, i - 1)
           right == SubSeq(q, i + 1, Len(q))
<1>1. Len(q) \in Nat /\ i \in Int /\ i - 1 \in Int /\ i + 1 \in Int
  OBVIOUS
<1>2. \A j \in 1..i - 1 : q[j] \in S
  OBVIOUS
<1>3. /\ left \in Seq(S) /\ Len(left) = IF 1 <= i - 1 THEN i - 1 - 1 + 1 ELSE 0
      /\ \A j \in 1..i - 1 - 1 + 1 : left[j] = q[1 + j - 1]
  BY <1>1, <1>2, SubSeqProperties
<1>4. \A j \in i + 1..Len(q) : q[j] \in S
  OBVIOUS
<1>5. /\ right \in Seq(S)
      /\ Len(right) = IF i + 1 <= Len(q) THEN Len(q) - (i + 1) + 1 ELSE 0
      /\ \A j \in 1..Len(q) - (i + 1) + 1 : right[j] = q[i + 1 + j - 1]
  BY <1>1, <1>4, SubSeqProperties
<1> HIDE DEF left, right
<1>6. Len(left) = i - 1 /\ Len(right) = Len(q) - i
  BY <1>1, <1>3, <1>5
<1> DEFINE both == left \o right
<1>7. /\ both \in Seq(S) /\ Len(both) = Len(left) + Len(right)
      /\ \A j \in 1 .. Len(left) + Len(right) :
           both[j] = IF j <= Len(left) THEN left[j] ELSE right[j - Len(left)]
  BY <1>3, <1>5, ConcatProperties
<1> HIDE DEF both
<1>8. Len(left) + Len(right) = Len(q) - 1
  BY <1>1, <1>6
<1>9. ASSUME NEW j \in 1..Len(q) - 1
      PROVE  both[j] = IF j < i THEN q[j] ELSE q[j + 1]
  <2>1. both[j] = IF j <= i - 1 THEN left[j] ELSE right[j - (i - 1)]
    BY <1>6, <1>7, <1>8
  <2>2. CASE j < i
    <3>1. j \in 1..i - 1 - 1 + 1 /\ 1 + j - 1 = j /\ j <= i - 1
      BY <2>2
    <3> QED BY <2>1, <2>2, <3>1, <1>3
  <2>3. CASE ~(j < i)
    <3>1. j - (i - 1) \in 1..Len(q) - (i + 1) + 1 /\ i + 1 + (j - (i - 1)) - 1 = j + 1
          /\ ~(j <= i - 1)
      BY <2>3
    <3> QED BY <2>1, <2>3, <3>1, <1>5
  <2> QED BY <2>2, <2>3
<1>10. Cut(q, i) = both
  BY DEF Cut, left, right, both
<1> QED BY <1>7, <1>8, <1>9, <1>10

-----------------------------------------------------------------------------
(* The invariants about requests.                                          *)

CallTypes ==
  [kind : Kinds \cup {"none"}, user : Users \cup {NoUser}, txn : {0, 1, 2},
   listener : BOOLEAN, timer : BOOLEAN, connect : BOOLEAN, result : Results]
To == Channels \cup {NoReply}
DeviceMessages ==
  [kind : {"group"}, user : Users, to : To]
    \cup [kind : {"ungroup", "connect", "origin"}, user : {NoUser}, to : To]

\* What a request waits for: the device (a listener with its timer), or the connection,
\* and neither before its first transaction has ended; while it may still be joined it
\* has not been answered.
Waits(c) ==
  /\ c.listener = c.timer
  /\ c.listener => c.result = "none" /\ ~c.connect
  /\ c.txn = 1 => c.result = "none" /\ ~c.listener /\ ~c.connect
  /\ c.txn # 0 => c.user \in Users
  /\ c.kind = "release" => c.txn # 2
RequestsInv ==
  /\ calls \in [Calls -> CallTypes]
  /\ \A k \in Calls : Waits(calls[k])
  /\ toDevice \in Seq(DeviceMessages)

-----------------------------------------------------------------------------
(* The requests.                                                           *)

\* What the API sends is a sequence of messages for the device.
LEMMA SendTypes ==
  /\ <<>> \in Seq(DeviceMessages)
  /\ \A u \in Users, c \in To : <<Message("group", u, c)>> \in Seq(DeviceMessages)
  /\ \A kind \in {"ungroup", "connect", "origin"}, c \in To :
       <<Message(kind, NoUser, c)>> \in Seq(DeviceMessages)
<1>1. \A u \in Users, c \in To : Message("group", u, c) \in DeviceMessages
  BY DEF Message, DeviceMessages
<1>2. \A kind \in {"ungroup", "connect", "origin"}, c \in To :
        Message(kind, NoUser, c) \in DeviceMessages
  BY DEF Message, DeviceMessages
<1> QED BY <1>1, <1>2

LEMMA ChannelTypes ==
  /\ \A k \in Calls, n \in {1, 2, 3} : Channel(k, n) \in To
  /\ NoReply \in To
BY DEF Channel, Channels, To

\* What a step of the API does to the request it is about.
Kept(after) ==
  after.call \in CallTypes /\ Waits(after.call) /\ after.send \in Seq(DeviceMessages)

LEMMA SettleKeeps ==
  ASSUME NEW c \in CallTypes, NEW result \in Results, ~c.listener, ~c.timer, c.txn # 1,
         c.txn # 0 => c.user \in Users, c.kind = "release" => c.txn # 2
  PROVE  Settle(c, result) \in CallTypes /\ Waits(Settle(c, result))
<1>1. CASE c.result = "none"
  <2> DEFINE r == [c EXCEPT !.result = result]
  <2>1. r \in CallTypes
    BY DEF CallTypes
  <2>2. /\ r.listener = c.listener /\ r.timer = c.timer /\ r.txn = c.txn /\ r.user = c.user
        /\ r.kind = c.kind
    BY DEF CallTypes
  <2>3. c.listener = c.timer
    BY DEF CallTypes
  <2> HIDE DEF r
  <2>4. Waits(r)
    BY <2>2, <2>3 DEF Waits
  <2> QED BY <1>1, <2>1, <2>4 DEF Settle, r
<1>2. CASE c.result # "none"
  BY <1>2 DEF Settle, CallTypes, Waits
<1> QED BY <1>1, <1>2

LEMMA StartKeeps ==
  ASSUME NEW k \in Calls, NEW kind \in Kinds, NEW user \in Users, NEW doc
  PROVE  Kept(Start(k, kind, user, doc))
<1> DEFINE call == [NewCall EXCEPT !.kind = kind, !.user = user]
<1>1. /\ call \in CallTypes
      /\ call.user \in Users /\ call.txn = 0 /\ call.kind = kind /\ call.result = "none"
      /\ call.listener = FALSE /\ call.timer = FALSE /\ call.connect = FALSE
  BY DEF NewCall, CallTypes, Results, Kinds
<1> HIDE DEF call
<1>2. [call EXCEPT !.result = "refused"] \in CallTypes /\ Waits([call EXCEPT !.result = "refused"])
  BY <1>1 DEF CallTypes, Results, Waits
<1>3. [call EXCEPT !.txn = 1] \in CallTypes /\ Waits([call EXCEPT !.txn = 1])
  BY <1>1 DEF CallTypes, Waits
<1>4. /\ [call EXCEPT !.listener = TRUE, !.timer = TRUE] \in CallTypes
      /\ Waits([call EXCEPT !.listener = TRUE, !.timer = TRUE])
  <2> DEFINE r == [call EXCEPT !.listener = TRUE, !.timer = TRUE]
  <2>1. r \in CallTypes
    BY <1>1 DEF CallTypes
  <2>2. /\ r.listener = TRUE /\ r.timer = TRUE /\ r.txn = 0 /\ r.result = "none"
        /\ r.connect = FALSE
    BY <1>1 DEF CallTypes
  <2>3. r.txn # 1 /\ r.txn # 2
    BY <2>2
  <2> HIDE DEF r
  <2>4. Waits(r)
    BY <2>2, <2>3 DEF Waits
  <2> QED BY <2>1, <2>4 DEF r
<1>5. <<Message("ungroup", NoUser, Channel(k, 1))>> \in Seq(DeviceMessages)
      /\ <<Message("group", user, NoReply)>> \in Seq(DeviceMessages)
      /\ <<>> \in Seq(DeviceMessages)
  BY SendTypes, ChannelTypes
<1> QED BY <1>2, <1>3, <1>4, <1>5 DEF Start, Sent, Kinds, Kept, call

LEMMA TransactionKeeps ==
  ASSUME NEW k \in Calls, NEW c \in CallTypes, Waits(c), c.txn # 0, NEW okay \in BOOLEAN
  PROVE  Kept(TransactionEnds(k, c, okay))
<1> DEFINE ended == [c EXCEPT !.txn = 0]
           second == [c EXCEPT !.txn = 2, !.listener = TRUE, !.timer = TRUE]
           quiet == [ended EXCEPT !.listener = FALSE, !.timer = FALSE]
<1>1. ended \in CallTypes /\ Waits(ended)
  BY DEF CallTypes, Waits
<1>2. ASSUME c.txn = 1, c.kind # "release" PROVE second \in CallTypes /\ Waits(second)
  <2>1. second \in CallTypes
    BY DEF CallTypes
  <2>2. /\ second.listener = TRUE /\ second.timer = TRUE /\ second.txn = 2
        /\ second.connect = c.connect /\ second.kind = c.kind /\ second.result = c.result /\ second.user = c.user
    BY DEF CallTypes
  <2>3. second.txn # 1 /\ c.result = "none" /\ ~c.connect /\ c.user \in Users
    BY <1>2, <2>2 DEF Waits
  <2> HIDE DEF second
  <2> QED BY <1>2, <2>1, <2>2, <2>3 DEF Waits
<1>3. Settle(quiet, "failed") \in CallTypes /\ Waits(Settle(quiet, "failed"))
  <2>1. quiet \in CallTypes /\ ~quiet.listener /\ ~quiet.timer /\ quiet.txn = 0
    BY DEF CallTypes
  <2> HIDE DEF quiet
  <2> QED BY <2>1, SettleKeeps DEF Results
<1>4. ASSUME c.txn = 1
      PROVE  Settle(ended, "failed") \in CallTypes /\ Waits(Settle(ended, "failed"))
  <2>1. ended \in CallTypes /\ ~ended.listener /\ ~ended.timer /\ ended.txn = 0
    BY <1>4 DEF CallTypes, Waits
  <2> HIDE DEF ended
  <2> QED BY <2>1, SettleKeeps DEF Results
<1>5. <<Message("group", c.user, Channel(k, 2))>> \in Seq(DeviceMessages)
      /\ <<>> \in Seq(DeviceMessages)
  BY SendTypes, ChannelTypes DEF Waits
<1>6. CASE c.kind = "release"
  <2>1. c.txn = 1
    BY <1>6 DEF CallTypes, Waits
  <2> QED BY <1>1, <1>4, <1>5, <1>6, <2>1 DEF TransactionEnds, Sent, Kept
<1>7. CASE c.kind # "release" /\ c.txn = 1
  BY <1>2, <1>5, <1>7 DEF TransactionEnds, Sent, Kept
<1>8. CASE c.kind # "release" /\ c.txn # 1
  BY <1>1, <1>3, <1>5, <1>8 DEF TransactionEnds, Sent, Kept
<1> QED BY <1>6, <1>7, <1>8

\* A request that hears that its user has the device.
LEMMA JoinedKeeps ==
  ASSUME NEW k \in Calls, NEW c \in CallTypes, Waits(c), c.listener
  PROVE  /\ Kept(Joined(k, c))
         /\ c.kind = "use" => Joined(k, c).send[1] \in DeviceMessages
<1> DEFINE heard == [c EXCEPT !.listener = FALSE, !.timer = FALSE]
           use == [heard EXCEPT !.connect = TRUE]
           connect == Message("connect", NoUser, Channel(k, 3))
<1>1. /\ heard \in CallTypes /\ heard.txn = c.txn /\ heard.user = c.user /\ heard.kind = c.kind
      /\ ~heard.listener /\ ~heard.timer
  BY DEF CallTypes
<1>2. c.txn # 1 /\ (c.txn # 0 => c.user \in Users) /\ (c.kind = "release" => c.txn # 2)
  BY DEF Waits
<1>3. Settle(heard, "ok") \in CallTypes /\ Waits(Settle(heard, "ok"))
  <2> HIDE DEF heard
  <2> QED BY <1>1, <1>2, SettleKeeps DEF Results
<1>4. use \in CallTypes /\ Waits(use)
  <2>1. use \in CallTypes
    BY DEF CallTypes
  <2>2. /\ ~use.listener /\ ~use.timer /\ use.listener = use.timer
        /\ use.txn = c.txn /\ use.user = c.user /\ use.kind = c.kind
    BY DEF CallTypes
  <2> HIDE DEF use
  <2> QED BY <1>2, <2>1, <2>2 DEF Waits
<1>5. connect \in DeviceMessages
  BY ChannelTypes DEF Message, DeviceMessages
<1>6. <<connect>> \in Seq(DeviceMessages) /\ <<>> \in Seq(DeviceMessages)
  BY ChannelTypes, SendTypes
<1>7. CASE c.kind = "add"
  BY <1>3, <1>6, <1>7 DEF Joined, Sent, Kept
<1>8. CASE c.kind # "add"
  <2>1. Joined(k, c) = [call |-> use, send |-> <<connect>>]
    BY <1>8 DEF Joined, Sent
  <2> HIDE DEF use, connect
  <2> QED BY <1>4, <1>5, <1>6, <2>1 DEF Kept
<1> QED BY <1>7, <1>8

\* The timers, and the end of the connection.
LEMMA TimersKeep ==
  ASSUME NEW c \in CallTypes, Waits(c)
  PROVE  /\ c.timer => JoinTimeout(c) \in CallTypes /\ Waits(JoinTimeout(c))
         /\ \A result \in Results : c.connect =>
              ConnectEnds(c, result) \in CallTypes /\ Waits(ConnectEnds(c, result))
<1> DEFINE quiet == [c EXCEPT !.listener = FALSE, !.timer = FALSE]
           closed == [c EXCEPT !.connect = FALSE]
<1>1. (c.txn # 0 => c.user \in Users) /\ (c.kind = "release" => c.txn # 2)
  BY DEF Waits
<1>2. ASSUME c.timer PROVE JoinTimeout(c) \in CallTypes /\ Waits(JoinTimeout(c))
  <2>1. /\ quiet \in CallTypes /\ quiet.txn = c.txn /\ quiet.user = c.user
        /\ quiet.kind = c.kind /\ ~quiet.listener /\ ~quiet.timer
    BY DEF CallTypes
  <2>2. c.txn # 1
    BY <1>2 DEF Waits
  <2>3. JoinTimeout(c) = Settle(quiet, "failed")
    BY DEF JoinTimeout
  <2> HIDE DEF quiet
  <2> QED BY <1>1, <2>1, <2>2, <2>3, SettleKeeps DEF Results
<1>3. ASSUME c.connect, NEW result \in Results
      PROVE  ConnectEnds(c, result) \in CallTypes /\ Waits(ConnectEnds(c, result))
  <2>1. /\ closed \in CallTypes /\ closed.txn = c.txn /\ closed.user = c.user
        /\ closed.kind = c.kind /\ closed.listener = c.listener /\ closed.timer = c.timer
    BY DEF CallTypes
  <2>2. c.txn # 1 /\ ~c.listener /\ ~c.timer
    BY <1>3 DEF Waits
  <2>3. ConnectEnds(c, result) = Settle(closed, result)
    BY DEF ConnectEnds
  <2> HIDE DEF closed
  <2> QED BY <1>1, <2>1, <2>2, <2>3, SettleKeeps
<1> QED BY <1>2, <1>3

-----------------------------------------------------------------------------
(* The invariant of the requests.                                          *)

LEMMA CallDoesKeeps ==
  ASSUME RequestsInv, NEW k \in Calls, NEW after, Kept(after), CallDoes(k, after)
  PROVE  RequestsInv'
<1>1. calls' \in [Calls -> CallTypes]
  BY DEF RequestsInv, Kept, CallDoes
<1>2. \A c \in Calls : Waits(calls'[c])
  BY DEF RequestsInv, Kept, CallDoes
<1>3. toDevice' \in Seq(DeviceMessages)
  BY ConcatProperties DEF RequestsInv, Kept, CallDoes
<1> QED BY <1>1, <1>2, <1>3 DEF RequestsInv

LEMMA SameCalls ==
  ASSUME RequestsInv, UNCHANGED calls, toDevice' \in Seq(DeviceMessages)
  PROVE  RequestsInv'
BY DEF RequestsInv

LEMMA RequestsInit == Init => RequestsInv
<1> SUFFICES ASSUME Init PROVE RequestsInv
  OBVIOUS
<1>1. NewCall \in CallTypes /\ Waits(NewCall)
  BY DEF NewCall, CallTypes, Results, Waits
<1>2. toDevice \in Seq(DeviceMessages)
  BY SendTypes DEF Init
<1> QED BY <1>1, <1>2 DEF Init, RequestsInv

\* The worker and the processors leave the requests alone.
LEMMA DeviceStep ==
  ASSUME RequestsInv,
         \/ Deliver \/ ConnectionOpens \/ CleanupEnds \/ AutomaticTimeout \/ Die \/ Restart
         \/ \E p \in Processors : Write(p) \/ PassOn(p)
         \/ Page \/ OriginTimeout
  PROVE  RequestsInv'
<1>0. toDevice \in Seq(DeviceMessages)
  BY DEF RequestsInv
<1>1. ASSUME Deliver PROVE RequestsInv'
  <2>1. UNCHANGED calls /\ toDevice # <<>> /\ toDevice' = Tail(toDevice)
    BY <1>1 DEF Deliver
  <2>2. toDevice' \in Seq(DeviceMessages)
    BY <1>0, <2>1, HeadTailProperties
  <2> QED BY <2>1, <2>2, SameCalls
<1>2. ASSUME ConnectionOpens \/ CleanupEnds \/ AutomaticTimeout \/ Die \/ Restart \/ OriginTimeout
      PROVE  RequestsInv'
  <2>1. UNCHANGED <<calls, toDevice>>
    BY <1>2 DEF ConnectionOpens, CleanupEnds, AutomaticTimeout, Die, Restart, OriginTimeout,
                WorkerUnchanged, net
  <2> QED BY <1>0, <2>1, SameCalls
<1>3. ASSUME NEW q \in Processors, Write(q) PROVE RequestsInv'
  <2>1. UNCHANGED calls /\ \E m : toDevice' = toDevice \o ToDevice(m)
    BY <1>3 DEF Write
  <2>2. \A m : ToDevice(m) \in Seq(DeviceMessages)
    BY SendTypes, ChannelTypes DEF ToDevice
  <2> QED BY <1>0, <2>1, <2>2, ConcatProperties, SameCalls
<1>4. ASSUME NEW q \in Processors, PassOn(q) PROVE RequestsInv'
  BY <1>0, <1>4, SameCalls DEF PassOn
<1>5. ASSUME Page PROVE RequestsInv'
  <2>1. UNCHANGED calls /\ \E m \in DeviceMessages : toDevice' = Append(toDevice, m)
    BY <1>5 DEF Page, Message, DeviceMessages, To
  <2>2. toDevice' \in Seq(DeviceMessages)
    BY <1>0, <2>1, AppendProperties
  <2> QED BY <2>1, <2>2, SameCalls
<1> QED BY <1>1, <1>2, <1>3, <1>4, <1>5

\* The requests themselves, one step of one of them.
LEMMA RequestStep ==
  ASSUME RequestsInv, NEW k \in Calls,
         Request(k) \/ TransactionTimeout(k) \/ ResponseTimeout(k) \/ ConnectTimeout(k)
  PROVE  RequestsInv'
<1>0. calls[k] \in CallTypes /\ Waits(calls[k]) /\ <<>> \in Seq(DeviceMessages)
  BY SendTypes DEF RequestsInv
<1>1. ASSUME Request(k) PROVE RequestsInv'
  <2>1. PICK kind \in Kinds, u \in Users : CallDoes(k, Start(k, kind, u, device))
    BY <1>1 DEF Request
  <2> QED BY <2>1, StartKeeps, CallDoesKeeps
<1>2. ASSUME TransactionTimeout(k) PROVE RequestsInv'
  BY <1>0, <1>2, TransactionKeeps, CallDoesKeeps DEF TransactionTimeout
<1>3. ASSUME ResponseTimeout(k) PROVE RequestsInv'
  <2>1. Kept(Sent(JoinTimeout(calls[k]), <<>>))
    BY <1>0, <1>3, TimersKeep DEF ResponseTimeout, Kept, Sent
  <2> QED BY <1>3, <2>1, CallDoesKeeps DEF ResponseTimeout
<1>4. ASSUME ConnectTimeout(k) PROVE RequestsInv'
  <2>1. Kept(Sent(ConnectEnds(calls[k], "failed"), <<>>))
    BY <1>0, <1>4, TimersKeep DEF ConnectTimeout, Kept, Sent, Results
  <2> QED BY <1>4, <2>1, CallDoesKeeps DEF ConnectTimeout
<1> QED BY <1>1, <1>2, <1>3, <1>4

\* What the API hears; a JoinGroupMessage may be for several requests.
LEMMA HearStep ==
  ASSUME RequestsInv, Hear
  PROVE  RequestsInv'
<1>0. /\ toDevice \in Seq(DeviceMessages) /\ <<>> \in Seq(DeviceMessages)
      /\ \A k \in Calls : calls[k] \in CallTypes /\ Waits(calls[k])
  BY SendTypes DEF RequestsInv
<1> DEFINE m == Head(toApi)
<1>1. ASSUME HearJoin(m) PROVE RequestsInv'
  <2> DEFINE heard == [k \in Listeners(m) |-> Joined(k, calls[k])]
  <2>1. \A k \in Listeners(m) :
          /\ k \in Calls /\ Kept(heard[k])
          /\ calls[k].kind = "use" => heard[k].send[1] \in DeviceMessages
    BY <1>0, JoinedKeeps DEF Listeners
  <2>2. calls' = [k \in Calls |-> IF k \in Listeners(m) THEN heard[k].call ELSE calls[k]]
    BY <1>1 DEF HearJoin
  <2>3. PICK order \in [1..Cardinality(Connecting(m)) -> Connecting(m)] :
          toDevice' = toDevice \o [i \in DOMAIN order |-> heard[order[i]].send[1]]
    BY <1>1 DEF HearJoin
  <2> DEFINE sent == [i \in DOMAIN order |-> heard[order[i]].send[1]]
  <2>4. Cardinality(Connecting(m)) \in Nat
    <3>1. Connecting(m) \subseteq Calls
      BY DEF Connecting, Listeners
    <3> QED BY <3>1, OwnershipAssumption, FS_Subset, FS_CardinalityType
  <2>5. \A i \in DOMAIN order : sent[i] \in DeviceMessages
    BY <2>1 DEF Connecting
  <2> HIDE DEF heard
  <2>6. sent \in Seq(DeviceMessages)
    BY <2>4, <2>5
  <2>7. toDevice' \in Seq(DeviceMessages)
    BY <1>0, <2>3, <2>6, ConcatProperties
  <2>8. calls' \in [Calls -> CallTypes] /\ \A k \in Calls : Waits(calls'[k])
    BY <1>0, <2>1, <2>2 DEF Kept
  <2> QED BY <2>7, <2>8 DEF RequestsInv
<1>2. ASSUME HearDone(m) PROVE RequestsInv'
  <2>1. CASE UNCHANGED <<calls, toDevice>>
    BY <1>0, <2>1, SameCalls
  <2>2. CASE \E k \in Calls :
               /\ calls[k].txn # 0
               /\ CallDoes(k, TransactionEnds(k, calls[k], m.kind = "okay"))
    <3>1. (m.kind = "okay") \in BOOLEAN
      OBVIOUS
    <3> QED BY <1>0, <2>2, <3>1, TransactionKeeps, CallDoesKeeps
  <2> QED BY <1>2, <2>1, <2>2 DEF HearDone
<1>3. ASSUME HearConnected(m) PROVE RequestsInv'
  <2>1. CASE UNCHANGED <<calls, toDevice>>
    BY <1>0, <2>1, SameCalls
  <2>2. CASE \E k \in Calls :
               calls[k].connect /\ CallDoes(k, Sent(ConnectEnds(calls[k], "ok"), <<>>))
    <3>1. \A k \in Calls : calls[k].connect => Kept(Sent(ConnectEnds(calls[k], "ok"), <<>>))
      BY <1>0, TimersKeep DEF Kept, Sent, Results
    <3> QED BY <2>2, <3>1, CallDoesKeeps
  <2> QED BY <1>3, <2>1, <2>2 DEF HearConnected
<1> QED BY <1>1, <1>2, <1>3 DEF Hear

LEMMA RequestsInductive == Spec => []RequestsInv
<1>1. RequestsInv /\ UNCHANGED vars => RequestsInv'
  BY DEF RequestsInv, vars, net
<1>2. RequestsInv /\ [Next]_vars => RequestsInv'
  BY <1>1, DeviceStep, RequestStep, HearStep DEF Next
<1> QED BY <1>2, RequestsInit, PTL DEF Spec

\* No listener for JoinGroupMessage is left without its timer, and none answers a request
\* a second time, however the answers and the timeouts of a request are ordered
\* (useDevice, addUserDevice, runTransaction).
THEOREM ListenersAlwaysHaveTimers == Spec => []ListenersHaveTimers
<1>1. RequestsInv => ListenersHaveTimers
  BY DEF RequestsInv, Waits, ListenersHaveTimers
<1> QED BY <1>1, RequestsInductive, PTL

-----------------------------------------------------------------------------
(* The worker.                                                             *)

Workers ==
  [up : BOOLEAN, owner : Users \cup {NoUser}, wake : BOOLEAN, asked : Nat, cleaning : Nat,
   connects : SUBSET To]

\* A screen that is kept on has a user, or somebody who will let it sleep.
Sleeps(x) == x.wake => x.owner # NoUser \/ x.asked > 0 \/ x.cleaning > 0
AwakeInv == w \in Workers /\ Sleeps(w)
Fit(x) == x \in Workers /\ Sleeps(x)

LEMMA NewFit == Fit(NewWorker) /\ Fit(DeadWorker)
BY DEF NewWorker, DeadWorker, Fit, Workers, Sleeps

LEMMA LeaveFits ==
  ASSUME NEW x, Fit(x), NEW to
  PROVE  Fit(Leave(x, to).worker)
<1>1. x.asked \in Nat /\ x.asked + 1 \in Nat /\ x.asked + 1 > 0
  BY DEF Fit, Workers
<1>2. CASE x.owner = NoUser
  BY <1>2 DEF Leave, Handled
<1>3. CASE x.owner # NoUser
  <2> DEFINE y == [x EXCEPT !.owner = NoUser, !.asked = @ + 1]
  <2>1. Leave(x, to).worker = y
    BY <1>3 DEF Leave, Handled
  <2>2. y \in Workers /\ y.asked = x.asked + 1
    BY <1>1 DEF Fit, Workers
  <2> QED BY <1>1, <2>1, <2>2 DEF Fit, Sleeps
<1> QED BY <1>2, <1>3

LEMMA GroupFits ==
  ASSUME NEW x, Fit(x), NEW u \in Users, NEW to
  PROVE  Fit(Group(x, u, to).worker)
<1>1. CASE x.owner = NoUser
  <2> DEFINE y == [x EXCEPT !.owner = u, !.wake = TRUE]
  <2>1. y \in Workers /\ y.owner # NoUser
    BY DeviceWorkerAssumption DEF Fit, Workers
  <2> QED BY <1>1, <2>1 DEF Group, Handled, Fit, Sleeps
<1>2. CASE x.owner # NoUser
  BY <1>2 DEF Group, Handled
<1> QED BY <1>1, <1>2

LEMMA AnsweredFits ==
  ASSUME NEW x, Fit(x)
  PROVE  Fit(Answered(x))
<1> DEFINE y == [x EXCEPT !.cleaning = @ + x.asked, !.asked = 0]
<1>1. x.asked \in Nat /\ x.cleaning \in Nat
  BY DEF Fit, Workers
<1>2. x.cleaning + x.asked \in Nat
      /\ (x.asked > 0 \/ x.cleaning > 0 => x.cleaning + x.asked > 0)
  BY <1>1
<1>3. y \in Workers /\ y.cleaning = x.cleaning + x.asked /\ y.wake = x.wake /\ y.owner = x.owner
  BY <1>2 DEF Fit, Workers
<1> HIDE DEF y
<1>4. Sleeps(y)
  BY <1>2, <1>3 DEF Fit, Sleeps
<1> QED BY <1>3, <1>4 DEF Answered, Fit, y

LEMMA ReceiveFits ==
  ASSUME NEW x, Fit(x), NEW m \in DeviceMessages
  PROVE  Fit(Receive(x, m).worker)
<1>1. CASE m.kind = "group"
  <2>1. m.user \in Users
    BY <1>1 DEF DeviceMessages
  <2> QED BY <1>1, <2>1, GroupFits DEF Receive
<1>2. CASE m.kind = "ungroup"
  BY <1>2, LeaveFits DEF Receive
<1>3. CASE m.kind = "connect"
  <2>1. m.to \in To
    BY DEF DeviceMessages
  <2> QED BY <1>3, <2>1 DEF Receive, ConnectStart, Handled, Fit, Workers, Sleeps
<1>4. CASE m.kind = "origin"
  BY <1>4, AnsweredFits DEF Receive, Handled
<1> QED BY <1>1, <1>2, <1>3, <1>4 DEF DeviceMessages

\* The end of one cleanup, or of one question.
LEMMA CountedFits ==
  ASSUME NEW x, Fit(x)
  PROVE  /\ x.cleaning > 0 => Fit(Cleaned(x))
         /\ x.asked > 0 => Fit(Unanswered(x))
<1>1. ASSUME x.cleaning > 0 PROVE Fit(Cleaned(x))
  <2>1. x.cleaning - 1 \in Nat
    BY <1>1 DEF Fit, Workers
  <2> QED BY <2>1 DEF Cleaned, Fit, Workers, Sleeps
<1>2. ASSUME x.asked > 0 PROVE Fit(Unanswered(x))
  <2>1. x.asked - 1 \in Nat
    BY <1>2 DEF Fit, Workers
  <2> QED BY <2>1 DEF Unanswered, Fit, Workers, Sleeps
<1> QED BY <1>1, <1>2

LEMMA AwakeStep ==
  ASSUME RequestsInv, AwakeInv, [Next]_vars
  PROVE  AwakeInv'
<1>0. Fit(w) /\ (Fit(w') => AwakeInv')
  BY DEF AwakeInv, Fit
<1>1. ASSUME Deliver PROVE Fit(w')
  <2>1. Head(toDevice) \in DeviceMessages
    <3>1. toDevice \in Seq(DeviceMessages) /\ toDevice # <<>>
      BY <1>1 DEF RequestsInv, Deliver
    <3> QED BY <3>1, HeadTailProperties
  <2>2. w' = w \/ w' = Receive(w, Head(toDevice)).worker
    BY <1>1 DEF Deliver, WorkerDoes
  <2> QED BY <1>0, <2>1, <2>2, ReceiveFits
<1>2. ASSUME ConnectionOpens PROVE Fit(w')
  <2>1. PICK to : w' = [w EXCEPT !.connects = @ \ {to}]
    BY <1>2 DEF ConnectionOpens, WorkerDoes, Connected, Handled
  <2> QED BY <1>0, <2>1 DEF Fit, Workers, Sleeps
<1>3. ASSUME CleanupEnds PROVE Fit(w')
  BY <1>0, <1>3, CountedFits DEF CleanupEnds
<1>4. ASSUME AutomaticTimeout PROVE Fit(w')
  BY <1>0, <1>4, LeaveFits DEF AutomaticTimeout, WorkerDoes
<1>5. ASSUME Die \/ Restart PROVE Fit(w')
  BY <1>5, NewFit DEF Die, Restart
<1>6. ASSUME OriginTimeout PROVE Fit(w')
  BY <1>0, <1>6, CountedFits DEF OriginTimeout
<1>7. ASSUME \/ \E q \in Processors : Write(q) \/ PassOn(q)
             \/ Page \/ Hear \/ UNCHANGED vars
             \/ \E k \in Calls : \/ Request(k) \/ TransactionTimeout(k)
                                \/ ResponseTimeout(k) \/ ConnectTimeout(k)
      PROVE  Fit(w')
  <2>1. w' = w
    BY <1>7 DEF Write, PassOn, Page, Hear, vars, Request, TransactionTimeout, ResponseTimeout,
                ConnectTimeout, CallUnchanged
  <2> QED BY <1>0, <2>1
<1> QED BY <1>0, <1>1, <1>2, <1>3, <1>4, <1>5, <1>6, <1>7 DEF Next

\* A screen that is left on goes to sleep, however leases, questions, their timeouts and
\* cleanups follow one another (acquireWakeLock, releaseWakeLock).
THEOREM IdleMayAlwaysSleep == Spec => []IdleMaySleep
<1>1. Init => AwakeInv
  BY NewFit DEF Init, AwakeInv, Fit
<1>2. RequestsInv /\ AwakeInv /\ [Next]_vars => AwakeInv'
  BY AwakeStep
<1>3. AwakeInv => IdleMaySleep
  BY DEF AwakeInv, Sleeps, IdleMaySleep
<1> QED BY <1>1, <1>2, <1>3, RequestsInductive, PTL DEF Spec

-----------------------------------------------------------------------------
(* The lease.                                                              *)

\* What may become of the owner.
Passes(before, after) ==
  after = before \/ after = NoUser \/ (before = NoUser /\ after \in Users)

LEMMA ReceivePasses ==
  ASSUME NEW x \in Workers, NEW m \in DeviceMessages
  PROVE  Passes(x.owner, Receive(x, m).worker.owner)
<1>1. CASE m.kind = "group"
  <2>1. m.user \in Users
    BY <1>1 DEF DeviceMessages
  <2> QED BY <1>1, <2>1 DEF Receive, Group, Handled, Passes, Workers
<1>2. CASE m.kind = "ungroup"
  BY <1>2 DEF Receive, Leave, Handled, Passes, Workers
<1>3. CASE m.kind = "connect"
  BY <1>3 DEF Receive, ConnectStart, Handled, Passes, Workers
<1>4. CASE m.kind = "origin"
  BY <1>4 DEF Receive, Answered, Handled, Passes, Workers
<1> QED BY <1>1, <1>2, <1>3, <1>4 DEF DeviceMessages

LEMMA OwnerPasses ==
  ASSUME RequestsInv, AwakeInv, [Next]_vars
  PROVE  Passes(w.owner, w'.owner)
<1>0. w \in Workers
  BY DEF AwakeInv
<1>1. CASE Deliver
  <2>1. Head(toDevice) \in DeviceMessages
    <3>1. toDevice \in Seq(DeviceMessages) /\ toDevice # <<>>
      BY <1>1 DEF RequestsInv, Deliver
    <3> QED BY <3>1, HeadTailProperties
  <2>2. w' = w \/ w' = Receive(w, Head(toDevice)).worker
    BY <1>1 DEF Deliver, WorkerDoes
  <2> QED BY <1>0, <2>1, <2>2, ReceivePasses DEF Passes
<1>2. CASE ConnectionOpens
  <2>1. \E to : w' = [w EXCEPT !.connects = @ \ {to}]
    BY <1>2 DEF ConnectionOpens, WorkerDoes, Connected, Handled
  <2> QED BY <1>0, <2>1 DEF Passes, Workers
<1>3. CASE CleanupEnds
  BY <1>0, <1>3 DEF CleanupEnds, Cleaned, Passes, Workers
<1>4. CASE AutomaticTimeout
  BY <1>0, <1>4 DEF AutomaticTimeout, WorkerDoes, Leave, Handled, Passes, Workers
<1>5. CASE Die \/ Restart
  BY <1>5 DEF Die, Restart, NewWorker, DeadWorker, Passes
<1>6. CASE OriginTimeout
  BY <1>0, <1>6 DEF OriginTimeout, Unanswered, Passes, Workers
<1>7. CASE \/ \E q \in Processors : Write(q) \/ PassOn(q)
           \/ Page \/ Hear \/ UNCHANGED vars
           \/ \E k \in Calls : \/ Request(k) \/ TransactionTimeout(k)
                              \/ ResponseTimeout(k) \/ ConnectTimeout(k)
  <2>1. w' = w
    BY <1>7 DEF Write, PassOn, Page, Hear, vars, Request, TransactionTimeout, ResponseTimeout,
                ConnectTimeout, CallUnchanged
  <2> QED BY <2>1 DEF Passes
<1> QED BY <1>1, <1>2, <1>3, <1>4, <1>5, <1>6, <1>7 DEF Next

\* The device never passes from one user to another without having been free, whatever
\* requests, pages, idle timeouts and crashes come in whatever order (GroupMessage,
\* UngroupMessage): the worker of this composition implements the lease that the full
\* group plugin implements, without its times.
THEOREM OwnershipImplementsLease == Spec => ImplementsDeviceLease
<1>1. Init => Lease!Init
  BY DEF Init, NewWorker, Lease!Init, Lease!Free
<1>2. Spec => []AwakeInv
  <2>1. Init => AwakeInv
    BY NewFit DEF Init, AwakeInv, Fit
  <2>2. RequestsInv /\ AwakeInv /\ [Next]_vars => AwakeInv'
    BY AwakeStep
  <2> QED BY <2>1, <2>2, RequestsInductive, PTL DEF Spec
<1>3. RequestsInv /\ AwakeInv /\ [Next]_vars => [Lease!Next]_(Lease!vars)
  <2> SUFFICES ASSUME RequestsInv, AwakeInv, [Next]_vars PROVE Lease!Next
    OBVIOUS
  <2>1. Passes(w.owner, w'.owner)
    BY OwnerPasses
  <2>2. CASE w'.owner = w.owner
    BY <2>2 DEF Lease!Next, Lease!Quiet
  <2>3. CASE w'.owner # w.owner /\ w'.owner = NoUser
    BY <2>3 DEF Lease!Next, Lease!Release, Lease!Free
  <2>4. CASE w.owner = NoUser /\ w'.owner \in Users
    BY <2>4, DeviceWorkerAssumption DEF Lease!Next, Lease!Grant
  <2> QED BY <2>1, <2>2, <2>3, <2>4 DEF Passes
<1> QED BY <1>1, <1>2, <1>3, RequestsInductive, PTL DEF Spec, Lease!Spec, ImplementsDeviceLease

-----------------------------------------------------------------------------
(* The document, where one processor handles all messages.                 *)

Persons == Users \cup {NoUser}
\* The messages that say who has the device, and those that say how it is.
Owning == {"join", "leave", "ready", "absent", "introduction"}
Stating == {"ready", "absent", "introduction"}
PushedKinds == Owning \cup {"okay", "fail", "ask", "connected"}
Pushed == [kind : PushedKinds, user : Persons, to : To]
Documents == [owner : Persons, ready : BOOLEAN, present : BOOLEAN]

OwnerOf(m) == IF m.kind = "join" THEN m.user ELSE NoUser

\* The last message of its sort.
IsLast(messages, sort, i) ==
  messages[i].kind \in sort /\ \A j \in DOMAIN messages : j > i => messages[j].kind \notin sort
Silent(messages, sort) == \A i \in DOMAIN messages : messages[i].kind \notin sort

\* When the messages are handled the document doc will say that the owner of the device,
\* which is ready, is u.
Recorded(messages, doc, u) ==
  /\ \A i \in DOMAIN messages : IsLast(messages, Owning, i) => OwnerOf(messages[i]) = u
  /\ Silent(messages, Owning) => doc.owner = u
  /\ \A i \in DOMAIN messages : IsLast(messages, Stating, i) => messages[i].kind = "ready"
  /\ Silent(messages, Stating) => doc.ready /\ doc.present

LEMMA AppendTypes ==
  ASSUME NEW messages \in Seq(Pushed), NEW m \in Pushed
  PROVE  LET all == Append(messages, m)
         IN  /\ all \in Seq(Pushed) /\ Len(all) = Len(messages) + 1 /\ Len(messages) \in Nat
             /\ DOMAIN all = 1..Len(messages) + 1 /\ DOMAIN messages = 1..Len(messages)
             /\ all[Len(messages) + 1] = m
             /\ \A i \in 1..Len(messages) : all[i] = messages[i]
OBVIOUS

\* A message that says nothing of a sort leaves the last one of it; one that does is the
\* last.
LEMMA AppendLast ==
  ASSUME NEW messages \in Seq(Pushed), NEW m \in Pushed, NEW sort
  PROVE  LET all == Append(messages, m)
         IN  /\ m.kind \notin sort =>
                  /\ \A i \in DOMAIN all : IsLast(all, sort, i) =>
                       i \in DOMAIN messages /\ IsLast(messages, sort, i) /\ all[i] = messages[i]
                  /\ Silent(all, sort) => Silent(messages, sort)
             /\ m.kind \in sort =>
                  /\ \A i \in DOMAIN all : IsLast(all, sort, i) => all[i] = m
                  /\ ~Silent(all, sort)
<1> DEFINE all == Append(messages, m)
           n == Len(messages)
<1>1. /\ n \in Nat /\ DOMAIN all = 1..n + 1 /\ DOMAIN messages = 1..n
      /\ all[n + 1] = m /\ \A i \in 1..n : all[i] = messages[i]
  BY AppendTypes
<1> HIDE DEF all, n
<1>2. n + 1 \in DOMAIN all /\ \A i \in 1..n : n + 1 > i
  BY <1>1
<1>3. \A i \in DOMAIN all : i \in 1..n \/ i = n + 1
  BY <1>1
<1>4. \A i \in 1..n : i \in DOMAIN all
  BY <1>1
<1>5. ASSUME m.kind \notin sort
      PROVE  /\ \A i \in DOMAIN all : IsLast(all, sort, i) =>
                  i \in DOMAIN messages /\ IsLast(messages, sort, i) /\ all[i] = messages[i]
             /\ Silent(all, sort) => Silent(messages, sort)
  BY <1>1, <1>3, <1>4, <1>5 DEF IsLast, Silent
<1>6. ASSUME m.kind \in sort
      PROVE  /\ \A i \in DOMAIN all : IsLast(all, sort, i) => all[i] = m
             /\ ~Silent(all, sort)
  BY <1>1, <1>2, <1>3, <1>6 DEF IsLast, Silent
<1> QED BY <1>5, <1>6 DEF all

\* What a message adds to what will be recorded.
LEMMA AppendRecorded ==
  ASSUME NEW messages \in Seq(Pushed), NEW m \in Pushed, NEW doc, NEW u
  PROVE  LET all == Append(messages, m)
         IN  /\ m.kind \notin Owning /\ Recorded(messages, doc, u) => Recorded(all, doc, u)
             /\ m.kind \in {"join", "leave"} /\ Recorded(messages, doc, u)
                  => Recorded(all, doc, OwnerOf(m))
             /\ m.kind = "ready" => Recorded(all, doc, NoUser)
<1> DEFINE all == Append(messages, m)
<1>1. /\ m.kind \notin Owning =>
           /\ \A i \in DOMAIN all : IsLast(all, Owning, i) =>
                i \in DOMAIN messages /\ IsLast(messages, Owning, i) /\ all[i] = messages[i]
           /\ Silent(all, Owning) => Silent(messages, Owning)
      /\ m.kind \in Owning =>
           /\ \A i \in DOMAIN all : IsLast(all, Owning, i) => all[i] = m
           /\ ~Silent(all, Owning)
  BY AppendLast
<1>2. /\ m.kind \notin Stating =>
           /\ \A i \in DOMAIN all : IsLast(all, Stating, i) =>
                i \in DOMAIN messages /\ IsLast(messages, Stating, i) /\ all[i] = messages[i]
           /\ Silent(all, Stating) => Silent(messages, Stating)
      /\ m.kind \in Stating =>
           /\ \A i \in DOMAIN all : IsLast(all, Stating, i) => all[i] = m
           /\ ~Silent(all, Stating)
  BY AppendLast
<1> HIDE DEF all
<1>3. ASSUME m.kind \notin Owning, Recorded(messages, doc, u) PROVE Recorded(all, doc, u)
  <2>1. m.kind \notin Stating
    BY <1>3 DEF Owning, Stating
  <2> QED BY <1>1, <1>2, <1>3, <2>1 DEF Recorded
<1>4. ASSUME m.kind \in {"join", "leave"}, Recorded(messages, doc, u)
      PROVE  Recorded(all, doc, OwnerOf(m))
  <2>1. m.kind \notin Stating /\ m.kind \in Owning
    BY <1>4 DEF Owning, Stating
  <2> QED BY <1>1, <1>2, <1>4, <2>1 DEF Recorded
<1>5. ASSUME m.kind = "ready" PROVE Recorded(all, doc, NoUser)
  <2>1. m.kind \in Stating /\ m.kind \in Owning /\ OwnerOf(m) = NoUser
    BY <1>5 DEF Owning, Stating, OwnerOf
  <2> QED BY <1>1, <1>2, <1>5, <2>1 DEF Recorded
<1> QED BY <1>3, <1>4, <1>5 DEF all

\* The processor handles the first message.
LEMMA WriteRecorded ==
  ASSUME NEW messages \in Seq(Pushed), messages # <<>>, NEW doc \in Documents, NEW u
  PROVE  /\ Written(doc, Head(messages)) \in Documents
         /\ Recorded(messages, doc, u) => Recorded(Tail(messages), Written(doc, Head(messages)), u)
<1> DEFINE m == Head(messages)
           rest == Tail(messages)
           n == Len(messages)
           after == Written(doc, m)
<1>1. /\ n \in Nat /\ n >= 1 /\ DOMAIN messages = 1..n /\ DOMAIN rest = 1..n - 1
      /\ messages[1] = m /\ m \in Pushed
      /\ \A i \in 1..n - 1 : rest[i] = messages[i + 1]
  OBVIOUS
<1>2. after \in Documents
  BY <1>1 DEF Written, Documents, Pushed, Persons
<1>3. /\ m.kind \in Owning => after.owner = OwnerOf(m)
      /\ m.kind \notin Owning => after.owner = doc.owner
      /\ m.kind = "ready" => after.ready /\ after.present
      /\ m.kind \notin Stating => after.ready = doc.ready /\ after.present = doc.present
  BY <1>1 DEF Written, Owning, Stating, OwnerOf, Documents
<1> HIDE DEF m, rest, n, after
<1>4. ASSUME NEW sort
      PROVE  /\ \A i \in DOMAIN rest : IsLast(rest, sort, i) =>
                  i + 1 \in DOMAIN messages /\ IsLast(messages, sort, i + 1)
             /\ Silent(rest, sort) /\ m.kind \in sort => IsLast(messages, sort, 1)
             /\ Silent(rest, sort) /\ m.kind \notin sort => Silent(messages, sort)
  <2>1. \A j \in 1..n : j = 1 \/ (j - 1 \in 1..n - 1 /\ messages[j] = rest[j - 1])
    BY <1>1
  <2>2. \A i \in 1..n - 1 : i + 1 \in 1..n /\ messages[i + 1] = rest[i]
    BY <1>1
  <2>3. ASSUME NEW i \in DOMAIN rest, IsLast(rest, sort, i) PROVE IsLast(messages, sort, i + 1)
    <3>1. ASSUME NEW j \in DOMAIN messages, j > i + 1 PROVE messages[j].kind \notin sort
      <4>1. j - 1 \in DOMAIN rest /\ j - 1 > i /\ messages[j] = rest[j - 1]
        BY <1>1, <2>1, <3>1
      <4> QED BY <2>3, <4>1 DEF IsLast
    <3> QED BY <1>1, <2>2, <2>3, <3>1 DEF IsLast
  <2>4. ASSUME Silent(rest, sort) PROVE \A j \in DOMAIN messages : j # 1 => messages[j].kind \notin sort
    BY <1>1, <2>1, <2>4 DEF Silent
  <2> QED BY <1>1, <2>2, <2>3, <2>4 DEF IsLast, Silent
<1>5. ASSUME Recorded(messages, doc, u) PROVE Recorded(rest, after, u)
  <2>1. 1 \in DOMAIN messages
    BY <1>1
  <2>2. \A i \in DOMAIN rest : rest[i] = messages[i + 1]
    BY <1>1
  <2>3. \A i \in DOMAIN rest : IsLast(rest, Owning, i) => OwnerOf(rest[i]) = u
    BY <1>4, <1>5, <2>2 DEF Recorded
  <2>4. \A i \in DOMAIN rest : IsLast(rest, Stating, i) => rest[i].kind = "ready"
    BY <1>4, <1>5, <2>2 DEF Recorded
  <2>5. Silent(rest, Owning) => after.owner = u
    <3>1. CASE m.kind \in Owning
      BY <1>1, <1>3, <1>4, <1>5, <2>1, <3>1 DEF Recorded
    <3>2. CASE m.kind \notin Owning
      BY <1>3, <1>4, <1>5, <3>2 DEF Recorded
    <3> QED BY <3>1, <3>2
  <2>6. Silent(rest, Stating) => after.ready /\ after.present
    <3>1. CASE m.kind \in Stating
      BY <1>1, <1>3, <1>4, <1>5, <2>1, <3>1 DEF Recorded
    <3>2. CASE m.kind \notin Stating
      BY <1>3, <1>4, <1>5, <3>2 DEF Recorded
    <3> QED BY <3>1, <3>2
  <2> QED BY <2>3, <2>4, <2>5, <2>6 DEF Recorded
<1> QED BY <1>2, <1>5 DEF after, m, rest

\* An answer is passed on before the messages that precede it.
LEMMA WithoutRecorded ==
  ASSUME NEW messages \in Seq(Pushed), NEW k \in DOMAIN messages, messages[k].kind \notin Owning,
         NEW doc, NEW u
  PROVE  /\ Without(messages, k) \in Seq(Pushed)
         /\ Recorded(messages, doc, u) => Recorded(Without(messages, k), doc, u)
<1> DEFINE rest == Without(messages, k)
           n == Len(messages)
<1>1. n \in Nat /\ DOMAIN messages = 1..n /\ k \in 1..n
  OBVIOUS
<1>2. /\ rest \in Seq(Pushed) /\ DOMAIN rest = 1..n - 1
      /\ \A i \in 1..n - 1 : rest[i] = IF i < k THEN messages[i] ELSE messages[i + 1]
  <2>1. /\ Cut(messages, k) \in Seq(Pushed) /\ Len(Cut(messages, k)) = n - 1
        /\ \A i \in 1..n - 1 : Cut(messages, k)[i] = IF i < k THEN messages[i] ELSE messages[i + 1]
    <3>1. k \in 1..Len(messages)
      BY <1>1
    <3> QED BY <3>1, CutOne
  <2>2. rest = Cut(messages, k)
    BY DEF Without, Cut
  <2> HIDE DEF rest, n
  <2>3. rest \in Seq(Pushed) /\ Len(rest) = n - 1
    BY <2>1, <2>2
  <2>4. DOMAIN rest = 1..n - 1
    BY <2>3
  <2> QED BY <2>1, <2>2, <2>3, <2>4
<1> HIDE DEF rest, n
<1> DEFINE At(i) == IF i < k THEN i ELSE i + 1
           Of(j) == IF j < k THEN j ELSE j - 1
<1>3. \A i \in DOMAIN rest : At(i) \in DOMAIN messages /\ rest[i] = messages[At(i)]
  BY <1>1, <1>2
<1>4. \A j \in DOMAIN messages : j # k => Of(j) \in DOMAIN rest /\ rest[Of(j)] = messages[j]
  <2>1. ASSUME NEW j \in DOMAIN messages, j # k
        PROVE  Of(j) \in DOMAIN rest /\ rest[Of(j)] = messages[j]
    <3>1. CASE j < k
      BY <1>1, <1>2, <3>1
    <3>2. CASE ~(j < k)
      <4>1. j - 1 \in 1..n - 1 /\ ~(j - 1 < k) /\ (j - 1) + 1 = j
        BY <1>1, <2>1, <3>2
      <4> QED BY <1>2, <3>2, <4>1
    <3> QED BY <3>1, <3>2
  <2> QED BY <2>1
<1>5. \A i \in DOMAIN rest, j \in DOMAIN messages : j # k /\ j > At(i) => Of(j) > i
  BY <1>1, <1>2
<1> HIDE DEF At, Of
<1>6. ASSUME NEW sort, messages[k].kind \notin sort
      PROVE  /\ \A i \in DOMAIN rest : IsLast(rest, sort, i) => IsLast(messages, sort, At(i))
             /\ Silent(rest, sort) => Silent(messages, sort)
  <2>1. ASSUME NEW i \in DOMAIN rest, IsLast(rest, sort, i) PROVE IsLast(messages, sort, At(i))
    <3>1. ASSUME NEW j \in DOMAIN messages, j > At(i), messages[j].kind \in sort PROVE FALSE
      <4>1. j # k
        BY <1>6, <3>1
      <4>2. Of(j) \in DOMAIN rest /\ Of(j) > i /\ rest[Of(j)] = messages[j]
        BY <1>4, <1>5, <3>1, <4>1
      <4> QED BY <2>1, <3>1, <4>2 DEF IsLast
    <3>2. messages[At(i)].kind \in sort
      BY <1>3, <2>1 DEF IsLast
    <3> QED BY <3>1, <3>2 DEF IsLast
  <2>2. Silent(rest, sort) => Silent(messages, sort)
    BY <1>4, <1>6 DEF Silent
  <2> QED BY <2>1, <2>2
<1>7. messages[k].kind \notin Stating
  BY DEF Owning, Stating
<1>8. Recorded(messages, doc, u) => Recorded(rest, doc, u)
  BY <1>3, <1>6, <1>7 DEF Recorded
<1> QED BY <1>2, <1>8 DEF rest

\* With one processor every message goes to it, in order.
LEMMA DealtToOne ==
  ASSUME NEW messages \in Seq(Pushed), NEW q, NEW to \in [DOMAIN messages -> {q}]
  PROVE  Dealt(messages, to, q) = messages
<1> DEFINE n == Len(messages)
           Next1(f, i) == IF i = 0 THEN <<>>
                          ELSE IF to[i] = q THEN Append(f[i - 1], messages[i]) ELSE f[i - 1]
           IsMine(f) == f = [i \in 0..n |-> Next1(f, i)]
           mine == CHOOSE f : IsMine(f)
           parts == [i \in 0..n |-> SubSeq(messages, 1, i)]
<1>1. n \in Nat /\ DOMAIN messages = 1..n /\ \A i \in 1..n : to[i] = q
  OBVIOUS
<1>2. SubSeq(messages, 1, 0) = <<>>
  BY SubSeqEmpty
<1>3. \A i \in 1..n : SubSeq(messages, 1, i) = Append(SubSeq(messages, 1, i - 1), messages[i])
  <2> SUFFICES ASSUME NEW i \in 1..n
               PROVE  SubSeq(messages, 1, i) = Append(SubSeq(messages, 1, i - 1), messages[i])
    OBVIOUS
  <2> DEFINE whole == SubSeq(messages, 1, i)
             part == SubSeq(messages, 1, i - 1)
  <2>1. /\ whole \in Seq(Pushed) /\ Len(whole) = i
        /\ \A j \in 1..i : whole[j] = messages[j]
    <3>1. 1 \in Int /\ i \in Int /\ \A j \in 1..i : messages[j] \in Pushed
      OBVIOUS
    <3>2. /\ whole \in Seq(Pushed) /\ Len(whole) = IF 1 <= i THEN i - 1 + 1 ELSE 0
          /\ \A j \in 1..i - 1 + 1 : whole[j] = messages[1 + j - 1]
      BY <3>1, SubSeqProperties
    <3> HIDE DEF whole
    <3> QED BY <3>2
  <2>2. /\ part \in Seq(Pushed) /\ Len(part) = i - 1
        /\ \A j \in 1..i - 1 : part[j] = messages[j]
    <3>1. 1 \in Int /\ i - 1 \in Int /\ \A j \in 1..i - 1 : messages[j] \in Pushed
      OBVIOUS
    <3>2. /\ part \in Seq(Pushed) /\ Len(part) = IF 1 <= i - 1 THEN i - 1 - 1 + 1 ELSE 0
          /\ \A j \in 1..i - 1 - 1 + 1 : part[j] = messages[1 + j - 1]
      BY <3>1, SubSeqProperties
    <3> HIDE DEF part
    <3> QED BY <3>2
  <2>3. messages[i] \in Pushed
    OBVIOUS
  <2> HIDE DEF whole, part, n
  <2> DEFINE all == Append(part, messages[i])
  <2>4. /\ all \in Seq(Pushed) /\ Len(all) = i
        /\ \A j \in 1..i : all[j] = messages[j]
    BY <2>2, <2>3
  <2> HIDE DEF all
  <2>5. whole = all
    BY <2>1, <2>4, SeqEqual
  <2> QED BY <2>5 DEF whole, part, all
<1> HIDE DEF n
<1>4. ASSUME NEW i \in 0..n PROVE parts[i] = Next1(parts, i)
  <2>1. CASE i = 0
    BY <1>1, <1>2, <2>1
  <2>2. CASE i # 0
    <3>1. i \in 1..n /\ i - 1 \in 0..n
      BY <1>1, <2>2
    <3> QED BY <1>1, <1>3, <2>2, <3>1
  <2> QED BY <2>1, <2>2
<1>5. parts = [i \in 0..n |-> parts[i]]
  OBVIOUS
<1> HIDE DEF parts, Next1
<1>6. IsMine(parts)
  BY <1>4, <1>5
<1> HIDE DEF IsMine
<1>7. IsMine(mine)
  BY <1>6
<1> HIDE DEF mine
<1>8. \A i \in 0..n : mine[i] = Next1(mine, i)
  BY <1>7 DEF IsMine
<1> DEFINE T == {i \in Nat : i <= n => mine[i] = SubSeq(messages, 1, i)}
<1>9. 0 \in T
  <2>1. mine[0] = Next1(mine, 0)
    BY <1>1, <1>8
  <2>2. mine[0] = <<>>
    BY <2>1 DEF Next1
  <2> QED BY <1>2, <2>2
<1>10. \A i \in Nat : i \in T => i + 1 \in T
  <2> SUFFICES ASSUME NEW i \in Nat, i \in T, i + 1 <= n
               PROVE  mine[i + 1] = SubSeq(messages, 1, i + 1)
    OBVIOUS
  <2>1. i + 1 \in 1..n /\ (i + 1) - 1 = i /\ i <= n /\ i + 1 \in 0..n
    BY <1>1
  <2>2. mine[i + 1] = Append(mine[i], messages[i + 1])
    <3>1. mine[i + 1] = Next1(mine, i + 1)
      BY <1>8, <2>1
    <3>2. i + 1 # 0 /\ to[i + 1] = q
      BY <1>1, <2>1
    <3> QED BY <2>1, <3>1, <3>2 DEF Next1
  <2>3. mine[i] = SubSeq(messages, 1, i)
    BY <2>1
  <2>4. SubSeq(messages, 1, i + 1) = Append(SubSeq(messages, 1, i), messages[i + 1])
    BY <1>3, <2>1
  <2> QED BY <2>2, <2>3, <2>4
<1> HIDE DEF T
<1>11. Nat \subseteq T
  BY <1>9, <1>10, NatSetInduction
<1>12. mine[n] = SubSeq(messages, 1, n)
  BY <1>1, <1>11 DEF T
<1>13. SubSeq(messages, 1, n) = messages
  BY SubSeqFull DEF n
<1>14. Dealt(messages, to, q) = mine[n]
  BY DEF Dealt, mine, IsMine, Next1, n
<1> QED BY <1>12, <1>13, <1>14

\* What a handler that pushes leaves to be recorded.
Reports(x, after) ==
  /\ after.push \in Seq(Pushed) /\ after.worker.up = x.up
  /\ \A messages \in Seq(Pushed) : \A doc :
       Recorded(messages, doc, x.owner) => Recorded(messages \o after.push, doc, after.worker.owner)

LEMMA MessageTypes ==
  /\ \A kind \in PushedKinds, u \in Persons, to \in To : Message(kind, u, to) \in Pushed
  /\ NoReply \in To /\ NoUser \in Persons
BY ChannelTypes DEF Message, Pushed, Persons

\* An answer says nothing of the owner.
LEMMA ReplyRecorded ==
  ASSUME NEW kind \in PushedKinds, kind \notin Owning, NEW to \in To
  PROVE  /\ Reply(kind, to) \in Seq(Pushed)
         /\ \A messages \in Seq(Pushed) : \A doc, u :
              Recorded(messages, doc, u) => Recorded(messages \o Reply(kind, to), doc, u)
<1> DEFINE m == Message(kind, NoUser, to)
<1>1. m \in Pushed /\ m.kind = kind
  BY MessageTypes DEF Message
<1>2. Reply(kind, to) = IF to = NoReply THEN <<>> ELSE <<m>>
  BY DEF Reply
<1> HIDE DEF m
<1>3. Reply(kind, to) \in Seq(Pushed)
  BY <1>1, <1>2
<1>4. ASSUME NEW messages \in Seq(Pushed), NEW doc, NEW u, Recorded(messages, doc, u)
      PROVE  Recorded(messages \o Reply(kind, to), doc, u)
  <2>1. messages \o <<>> = messages /\ messages \o <<m>> = Append(messages, m)
    BY <1>1
  <2>2. Recorded(Append(messages, m), doc, u)
    BY <1>1, <1>4, AppendRecorded
  <2> QED BY <1>2, <1>4, <2>1, <2>2
<1> QED BY <1>3, <1>4

LEMMA LeaveReports ==
  ASSUME NEW x, Fit(x), NEW to \in To
  PROVE  Reports(x, Leave(x, to))
<1>1. "okay" \in PushedKinds \ Owning /\ "fail" \in PushedKinds \ Owning
  BY DEF PushedKinds, Owning
<1>2. CASE x.owner = NoUser
  BY <1>1, <1>2, ReplyRecorded DEF Leave, Handled, Reports
<1>3. CASE x.owner # NoUser
  <2> DEFINE first == Message("leave", x.owner, NoReply)
             second == Message("ask", NoUser, NoReply)
             reply == Reply("okay", to)
             after == [x EXCEPT !.owner = NoUser, !.asked = @ + 1]
  <2>1. /\ first \in Pushed /\ first.kind = "leave" /\ second \in Pushed /\ second.kind = "ask"
    <3>1. "leave" \in PushedKinds /\ "ask" \in PushedKinds /\ x.owner \in Persons
      BY DEF PushedKinds, Owning, Fit, Workers, Persons
    <3>2. first \in Pushed /\ second \in Pushed
      BY <3>1, MessageTypes
    <3> QED BY <3>2 DEF Message
  <2>2. Leave(x, to) = [worker |-> after, push |-> <<first, second>> \o reply]
    BY <1>3 DEF Leave, Handled
  <2>3. after.up = x.up /\ after.owner = NoUser
    BY DEF Fit, Workers
  <2>4. reply \in Seq(Pushed)
    BY <1>1, ReplyRecorded
  <2> HIDE DEF first, second, reply, after
  <2>5. <<first, second>> \in Seq(Pushed) /\ <<first, second>> \o reply \in Seq(Pushed)
    BY <2>1, <2>4, ConcatProperties
  <2>6. ASSUME NEW messages \in Seq(Pushed), NEW doc, Recorded(messages, doc, x.owner)
        PROVE  Recorded(messages \o (<<first, second>> \o reply), doc, NoUser)
    <3> DEFINE one == Append(messages, first)
               two == Append(one, second)
    <3>1. one \in Seq(Pushed) /\ two \in Seq(Pushed)
      BY <2>1
    <3>2. OwnerOf(first) = NoUser /\ first.kind \in {"join", "leave"} /\ second.kind \notin Owning
      BY <2>1 DEF OwnerOf, Owning
    <3>3. Recorded(one, doc, NoUser)
      BY <2>1, <2>6, <3>2, AppendRecorded
    <3>4. two = messages \o <<first, second>>
      BY <2>1
    <3> HIDE DEF one
    <3>5. Recorded(two, doc, NoUser)
      BY <2>1, <3>1, <3>2, <3>3, AppendRecorded
    <3> HIDE DEF two
    <3>6. Recorded(two \o reply, doc, NoUser)
      BY <1>1, <3>1, <3>5, ReplyRecorded DEF reply
    <3>7. two \o reply = messages \o (<<first, second>> \o reply)
      BY <2>4, <2>5, <3>4, ConcatAssociative
    <3> QED BY <3>6, <3>7
  <2>7. Leave(x, to).worker = after /\ Leave(x, to).push = <<first, second>> \o reply
    BY <2>2
  <2> QED BY <2>3, <2>5, <2>6, <2>7 DEF Reports
<1> QED BY <1>2, <1>3

LEMMA GroupReports ==
  ASSUME NEW x, Fit(x), NEW u \in Users, NEW to \in To
  PROVE  Reports(x, Group(x, u, to))
<1>1. "okay" \in PushedKinds \ Owning
  BY DEF PushedKinds, Owning
<1>2. CASE x.owner # NoUser
  BY <1>1, <1>2, ReplyRecorded DEF Group, Handled, Reports
<1>3. CASE x.owner = NoUser
  <2> DEFINE first == Message("join", u, NoReply)
             reply == Reply("okay", to)
             after == [x EXCEPT !.owner = u, !.wake = TRUE]
  <2>1. first \in Pushed /\ first.kind = "join" /\ first.user = u
    <3>1. "join" \in PushedKinds /\ u \in Persons
      BY DEF PushedKinds, Owning, Persons
    <3>2. first \in Pushed
      BY <3>1, MessageTypes
    <3> QED BY <3>2 DEF Message
  <2>2. Group(x, u, to) = [worker |-> after, push |-> <<first>> \o reply]
    BY <1>3 DEF Group, Handled
  <2>3. after.up = x.up /\ after.owner = u
    BY DEF Fit, Workers
  <2>4. reply \in Seq(Pushed)
    BY <1>1, ReplyRecorded
  <2> HIDE DEF first, reply, after
  <2>5. <<first>> \in Seq(Pushed) /\ <<first>> \o reply \in Seq(Pushed)
    BY <2>1, <2>4, ConcatProperties
  <2>6. ASSUME NEW messages \in Seq(Pushed), NEW doc, Recorded(messages, doc, x.owner)
        PROVE  Recorded(messages \o (<<first>> \o reply), doc, u)
    <3> DEFINE one == Append(messages, first)
    <3>1. one \in Seq(Pushed)
      BY <2>1
    <3>2. OwnerOf(first) = u /\ first.kind \in {"join", "leave"}
      BY <2>1 DEF OwnerOf
    <3>3. Recorded(one, doc, u)
      BY <2>1, <2>6, <3>2, AppendRecorded
    <3>4. one = messages \o <<first>>
      BY <2>1
    <3> HIDE DEF one
    <3>5. Recorded(one \o reply, doc, u)
      BY <1>1, <3>1, <3>3, ReplyRecorded DEF reply
    <3>6. one \o reply = messages \o (<<first>> \o reply)
      BY <2>4, <2>5, <3>4, ConcatAssociative
    <3> QED BY <3>5, <3>6
  <2>7. Group(x, u, to).worker = after /\ Group(x, u, to).push = <<first>> \o reply
    BY <2>2
  <2> QED BY <2>3, <2>5, <2>6, <2>7 DEF Reports
<1> QED BY <1>2, <1>3

LEMMA SilentReports ==
  ASSUME NEW x, NEW y, y.owner = x.owner, y.up = x.up
  PROVE  Reports(x, Handled(y, <<>>))
<1>1. \A messages \in Seq(Pushed) : messages \o <<>> = messages
  OBVIOUS
<1> QED BY <1>1 DEF Handled, Reports

LEMMA ReceiveReports ==
  ASSUME NEW x, Fit(x), NEW m \in DeviceMessages
  PROVE  Reports(x, Receive(x, m))
<1>0. m.to \in To /\ m.kind \in {"group", "ungroup", "connect", "origin"}
  BY DEF DeviceMessages
<1>1. CASE m.kind = "group"
  <2>1. m.user \in Users
    BY <1>1 DEF DeviceMessages
  <2> QED BY <1>0, <1>1, <2>1, GroupReports DEF Receive
<1>2. CASE m.kind = "ungroup"
  BY <1>0, <1>2, LeaveReports DEF Receive
<1>3. CASE m.kind = "connect"
  <2> DEFINE y == [x EXCEPT !.connects = @ \cup {m.to}]
  <2>1. y.owner = x.owner /\ y.up = x.up
    BY DEF Fit, Workers
  <2>2. Receive(x, m) = Handled(y, <<>>)
    BY <1>3 DEF Receive, ConnectStart
  <2> QED BY <2>1, <2>2, SilentReports
<1>4. CASE m.kind = "origin"
  <2>1. Answered(x).owner = x.owner /\ Answered(x).up = x.up
    BY DEF Answered, Fit, Workers
  <2>2. Receive(x, m) = Handled(Answered(x), <<>>)
    BY <1>4 DEF Receive
  <2> QED BY <2>1, <2>2, SilentReports
<1> QED BY <1>0, <1>1, <1>2, <1>3, <1>4

-----------------------------------------------------------------------------
RecordInv(q) ==
  /\ queue \in [Processors -> Seq(Pushed)]
  /\ device \in Documents
  /\ w.up => Recorded(queue[q], device, w.owner)

\* Where there is one processor it is given everything.
LEMMA PushToOne ==
  ASSUME NEW q, Processors = {q}, queue \in [Processors -> Seq(Pushed)],
         NEW messages \in Seq(Pushed), Push(messages)
  PROVE  /\ queue' \in [Processors -> Seq(Pushed)]
         /\ queue'[q] = queue[q] \o messages
<1>1. PICK to \in [DOMAIN messages -> Processors] :
        queue' = [p \in Processors |-> queue[p] \o Dealt(messages, to, p)]
  BY DEF Push
<1>2. to \in [DOMAIN messages -> {q}]
  OBVIOUS
<1>3. Dealt(messages, to, q) = messages
  BY <1>2, DealtToOne
<1>4. queue[q] \in Seq(Pushed) /\ q \in Processors
  OBVIOUS
<1>5. queue[q] \o messages \in Seq(Pushed)
  BY <1>4, ConcatProperties
<1>6. queue' = [p \in Processors |-> queue[q] \o messages]
  BY <1>1, <1>3
<1> QED BY <1>4, <1>5, <1>6

LEMMA RecordedWhenPushed ==
  ASSUME NEW q, Processors = {q}, RecordInv(q), device' = device,
         NEW after, Reports(w, after), WorkerDoes(after)
  PROVE  RecordInv(q)'
<1>1. w' = after.worker /\ Push(after.push) /\ after.push \in Seq(Pushed) /\ w'.up = w.up
  BY DEF WorkerDoes, Reports
<1>2. /\ queue' \in [Processors -> Seq(Pushed)]
      /\ queue'[q] = queue[q] \o after.push
  BY <1>1, PushToOne DEF RecordInv
<1>3. queue[q] \in Seq(Pushed)
  BY DEF RecordInv
<1>4. w.up => Recorded(queue[q] \o after.push, device, w'.owner)
  BY <1>1, <1>3 DEF RecordInv, Reports
<1> QED BY <1>1, <1>2, <1>4 DEF RecordInv

LEMMA RecordStep ==
  ASSUME NEW q, Processors = {q}, RequestsInv, AwakeInv, RecordInv(q), [Next]_vars
  PROVE  RecordInv(q)'
<1>0. Fit(w) /\ queue[q] \in Seq(Pushed) /\ q \in Processors
  BY DEF AwakeInv, Fit, RecordInv
<1>1. ASSUME Deliver PROVE RecordInv(q)'
  <2>1. Head(toDevice) \in DeviceMessages /\ device' = device
    <3>1. toDevice \in Seq(DeviceMessages) /\ toDevice # <<>>
      BY <1>1 DEF RequestsInv, Deliver
    <3> QED BY <1>1, <3>1, HeadTailProperties DEF Deliver
  <2>2. CASE ~w.up
    BY <1>1, <2>1, <2>2 DEF Deliver, RecordInv
  <2>3. CASE w.up
    <3>1. WorkerDoes(Receive(w, Head(toDevice)))
      BY <1>1, <2>3 DEF Deliver
    <3>2. Reports(w, Receive(w, Head(toDevice)))
      BY <1>0, <2>1, ReceiveReports
    <3> QED BY <2>1, <3>1, <3>2, RecordedWhenPushed
  <2> QED BY <2>2, <2>3
<1>2. ASSUME ConnectionOpens PROVE RecordInv(q)'
  <2>1. PICK to \in w.connects : WorkerDoes(Connected(w, to))
    BY <1>2 DEF ConnectionOpens
  <2>2. to \in To /\ device' = device
    BY <1>0, <1>2 DEF Fit, Workers, ConnectionOpens, WorkerUnchanged
  <2>3. Reports(w, Connected(w, to))
    <3> DEFINE after == [w EXCEPT !.connects = @ \ {to}]
    <3>1. after.owner = w.owner /\ after.up = w.up
      BY <1>0 DEF Fit, Workers
    <3>2. "connected" \in PushedKinds /\ "connected" \notin Owning
      BY DEF PushedKinds, Owning
    <3>3. /\ Connected(w, to).worker = after
          /\ Connected(w, to).push = Reply("connected", to)
      BY DEF Connected, Handled
    <3> HIDE DEF after
    <3> QED BY <2>2, <3>1, <3>2, <3>3, ReplyRecorded DEF Reports
  <2> QED BY <2>1, <2>2, <2>3, RecordedWhenPushed
<1>3. ASSUME CleanupEnds \/ OriginTimeout PROVE RecordInv(q)'
  <2>1. w' \in {Cleaned(w), Unanswered(w)} /\ UNCHANGED <<device, queue>>
    BY <1>3 DEF CleanupEnds, OriginTimeout, WorkerUnchanged, net
  <2>2. w'.up = w.up /\ w'.owner = w.owner
    BY <1>0, <2>1 DEF Cleaned, Unanswered, Fit, Workers
  <2> QED BY <2>1, <2>2 DEF RecordInv
<1>4. ASSUME AutomaticTimeout PROVE RecordInv(q)'
  <2>1. WorkerDoes(Leave(w, NoReply)) /\ device' = device
    BY <1>4 DEF AutomaticTimeout
  <2>2. Reports(w, Leave(w, NoReply))
    BY <1>0, LeaveReports, MessageTypes
  <2> QED BY <2>1, <2>2, RecordedWhenPushed
<1>5. ASSUME Die PROVE RecordInv(q)'
  <2>1. ~w'.up /\ device' = device
    BY <1>5 DEF Die, DeadWorker, NewWorker
  <2>2. <<Message("absent", NoUser, NoReply)>> \in Seq(Pushed)
    <3>1. "absent" \in PushedKinds
      BY DEF PushedKinds, Owning
    <3>2. Message("absent", NoUser, NoReply) \in Pushed
      BY <3>1, MessageTypes
    <3> QED BY <3>2
  <2>3. queue' = queue \/ Push(<<Message("absent", NoUser, NoReply)>>)
    BY <1>5 DEF Die
  <2>4. queue' \in [Processors -> Seq(Pushed)]
    BY <2>2, <2>3, PushToOne DEF RecordInv
  <2> QED BY <2>1, <2>4 DEF RecordInv
<1>6. ASSUME Restart PROVE RecordInv(q)'
  <2> DEFINE ready == Message("ready", NoUser, NoReply)
             intro == Message("introduction", NoUser, NoReply)
  <2>1. ready \in Pushed /\ intro \in Pushed /\ ready.kind = "ready"
    <3>1. "ready" \in PushedKinds /\ "introduction" \in PushedKinds
      BY DEF PushedKinds, Owning
    <3>2. ready \in Pushed /\ intro \in Pushed
      BY <3>1, MessageTypes
    <3> QED BY <3>2 DEF Message
  <2>2. w'.owner = NoUser /\ device' = device
    BY <1>6 DEF Restart, NewWorker, WorkerUnchanged
  <2>3. Push(<<ready>>) \/ Push(<<intro, ready>>)
    BY <1>6 DEF Restart
  <2> HIDE DEF ready, intro
  <2>4. <<ready>> \in Seq(Pushed) /\ <<intro, ready>> \in Seq(Pushed)
    BY <2>1
  <2>5. PICK before \in Seq(Pushed) :
          queue' \in [Processors -> Seq(Pushed)] /\ queue'[q] = Append(before, ready)
    <3>1. CASE Push(<<ready>>)
      <4>1. queue[q] \o <<ready>> = Append(queue[q], ready)
        BY <1>0, <2>1
      <4>2. queue' \in [Processors -> Seq(Pushed)] /\ queue'[q] = queue[q] \o <<ready>>
        BY <2>4, <3>1, PushToOne DEF RecordInv
      <4> QED BY <1>0, <4>1, <4>2
    <3>2. CASE Push(<<intro, ready>>)
      <4>1. /\ queue[q] \o <<intro, ready>> = Append(Append(queue[q], intro), ready)
            /\ Append(queue[q], intro) \in Seq(Pushed)
        <5> DEFINE rest == queue[q]
        <5>1. rest \in Seq(Pushed)
          BY <1>0
        <5> HIDE DEF rest
        <5>2. Append(rest, intro) \in Seq(Pushed)
          BY <2>1, <5>1
        <5>3. rest \o <<intro, ready>> = Append(Append(rest, intro), ready)
          BY <2>1, <5>1
        <5> QED BY <5>2, <5>3 DEF rest
      <4>2. queue' \in [Processors -> Seq(Pushed)] /\ queue'[q] = queue[q] \o <<intro, ready>>
        BY <2>4, <3>2, PushToOne DEF RecordInv
      <4> QED BY <4>1, <4>2
    <3> QED BY <2>3, <3>1, <3>2
  <2>6. Recorded(queue'[q], device, NoUser)
    BY <2>1, <2>5, AppendRecorded
  <2> QED BY <2>2, <2>5, <2>6 DEF RecordInv
<1>7. ASSUME \E p \in Processors : Write(p) PROVE RecordInv(q)'
  <2>1. Write(q)
    BY <1>7
  <2> DEFINE m == Head(queue[q])
  <2>2. /\ queue[q] # <<>> /\ w' = w /\ device' = Written(device, m)
        /\ queue' = [queue EXCEPT ![q] = Tail(queue[q])]
    BY <2>1 DEF Write
  <2>3. /\ Written(device, m) \in Documents
        /\ w.up => Recorded(Tail(queue[q]), Written(device, m), w.owner)
    BY <1>0, <2>2, WriteRecorded DEF RecordInv
  <2>4. queue' \in [Processors -> Seq(Pushed)] /\ queue'[q] = Tail(queue[q])
    <3>1. Tail(queue[q]) \in Seq(Pushed)
      BY <1>0, <2>2
    <3> QED BY <1>0, <2>2, <3>1 DEF RecordInv
  <2> QED BY <2>2, <2>3, <2>4 DEF RecordInv
<1>8. ASSUME \E p \in Processors : PassOn(p) PROVE RecordInv(q)'
  <2>1. PassOn(q)
    BY <1>8
  <2>2. PICK i \in FirstPassedOn(queue[q]) : queue' = [queue EXCEPT ![q] = Without(queue[q], i)]
    BY <2>1 DEF PassOn
  <2>3. i \in DOMAIN queue[q] /\ queue[q][i].kind \notin Owning
    BY <2>2 DEF FirstPassedOn, PassedOn, Owning
  <2>4. /\ Without(queue[q], i) \in Seq(Pushed)
        /\ w.up => Recorded(Without(queue[q], i), device, w.owner)
    BY <1>0, <2>3, WithoutRecorded DEF RecordInv
  <2>5. queue' \in [Processors -> Seq(Pushed)] /\ queue'[q] = Without(queue[q], i)
    BY <1>0, <2>2, <2>4 DEF RecordInv
  <2>6. w' = w /\ device' = device
    BY <2>1 DEF PassOn
  <2> QED BY <2>4, <2>5, <2>6 DEF RecordInv
<1>9. ASSUME \/ Page \/ Hear \/ UNCHANGED vars
             \/ \E k \in Calls : \/ Request(k) \/ TransactionTimeout(k)
                                \/ ResponseTimeout(k) \/ ConnectTimeout(k)
      PROVE  RecordInv(q)'
  <2>1. UNCHANGED <<w, device, queue>>
    BY <1>9 DEF Page, Hear, vars, net, Request, TransactionTimeout, ResponseTimeout,
                ConnectTimeout, CallUnchanged
  <2> QED BY <2>1 DEF RecordInv
<1> QED BY <1>1, <1>2, <1>3, <1>4, <1>5, <1>6, <1>7, <1>8, <1>9 DEF Next

LEMMA RecordInit ==
  ASSUME NEW q, Processors = {q}, Init
  PROVE  RecordInv(q)
<1>1. <<>> \in Seq(Pushed) /\ DOMAIN <<>> = {}
  OBVIOUS
<1>2. queue \in [Processors -> Seq(Pushed)] /\ queue[q] = <<>>
  BY <1>1 DEF Init
<1>3. device \in Documents /\ device.owner = NoUser /\ device.ready /\ device.present
  BY DEF Init, NewDevice, Documents, Persons
<1>4. w.owner = NoUser
  BY DEF Init, NewWorker
<1>5. Recorded(queue[q], device, w.owner)
  BY <1>1, <1>2, <1>3, <1>4 DEF Recorded
<1> QED BY <1>2, <1>3, <1>5 DEF RecordInv

\* The document ends up with the owner the worker has, present and ready, however joins,
\* leaves, crashes and restarts follow one another, where one processor handles them all:
\* its calls of the database end in order (JoinGroup, LeaveGroup, DeviceReady).  With two
\* a join and a leave can be written in the wrong order.
THEOREM OwnerAlwaysRecorded ==
  ASSUME NEW CONSTANT q, Processors = {q}
  PROVE  Spec => []OwnerRecorded
<1>1. Init => RecordInv(q)
  BY RecordInit
<1>2. RequestsInv /\ AwakeInv /\ RecordInv(q) /\ [Next]_vars => RecordInv(q)'
  BY RecordStep
<1>3. RecordInv(q) => OwnerRecorded
  <2> SUFFICES ASSUME RecordInv(q), w.up, Handed
               PROVE  device = [owner |-> w.owner, ready |-> TRUE, present |-> TRUE]
    BY DEF OwnerRecorded
  <2>1. queue[q] = <<>> /\ DOMAIN <<>> = {}
    BY DEF Handed
  <2>2. device.owner = w.owner /\ device.ready /\ device.present
    BY <2>1 DEF RecordInv, Recorded, Silent
  <2>3. device \in Documents
    BY DEF RecordInv
  <2> QED BY <2>2, <2>3 DEF Documents
<1>4. Spec => []AwakeInv
  <2>1. Init => AwakeInv
    BY NewFit DEF Init, AwakeInv, Fit
  <2>2. RequestsInv /\ AwakeInv /\ [Next]_vars => AwakeInv'
    BY AwakeStep
  <2> QED BY <2>1, <2>2, RequestsInductive, PTL DEF Spec
<1> QED BY <1>1, <1>2, <1>3, <1>4, RequestsInductive, PTL DEF Spec
=============================================================================
