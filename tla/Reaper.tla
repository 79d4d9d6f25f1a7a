------------------------------- MODULE Reaper -------------------------------
(***************************************************************************)
(* The reaper unit (lib/units/reaper) with what decides the "present" flag *)
(* of a device: the provider and the device worker that announce it, the   *)
(* processors (lib/units/processor) that write the flag to the database,   *)
(* and the triproxy sides the reaper listens to.                           *)
(*                                                                         *)
(* A pushed message is handed to one of the replicated processors, which   *)
(* starts handlers in the order of arrival.  A handler that touches the    *)
(* database goes on when its call completes: the calls of one processor    *)
(* complete in order, those of two processors in any order.                *)
(***************************************************************************)
EXTENDS TTLSet, SequencesExt

CONSTANTS
  Processors,    \* the replicated processor units
  Sides,         \* where --connect-sub points: "app", "dev" or both
  MaxQueue,      \* bound: devices send only while each queue is shorter
  MaxRestarts,   \* bound: crashes of the reaper
  MaxHandlers    \* bound: router handlers attached by init() and its retries

ASSUME ReaperAssumption ==
  /\ Processors # {} /\ Sides \subseteq {"app", "dev"}
  /\ {MaxQueue, MaxHandlers} \subseteq Nat \ {0}
  /\ MaxRestarts \in Nat

VARIABLES
  worker,     \* a device at its provider: "gone", "introduced" or "beating"
  queue,      \* per processor, messages on their way and handlers awaiting
  present,    \* the database: device.present
  inbox,      \* per side, what the triproxy delivers to the reaper
  set,        \* the reaper's ttlset
  phase,      \* "init" until GetPresentDevices is answered, then "loaded"
  handlers,   \* how often sub.on('message', router.handler()) was called
  restarts,   \* crashes so far
  silence     \* history: ticks since the reaper last heard of a device it tracks

vars == <<worker, queue, present, inbox, set, phase, handlers, restarts, silence>>
reaper == <<set, phase, handlers, restarts, silence>>

Msg(type, v) == [type |-> type, serial |-> v]
GetPresentDevices == [type |-> "GetPresentDevices"]
DevicesReply(S) == [type |-> "Devices", serials |-> S]

\* zmq hands each message to one of the processors, in the order pushed.
Send(ms) == \E p \in Processors : queue' = [queue EXCEPT ![p] = @ \o ms]

Init ==
  /\ worker = [v \in Serials |-> "gone"]
  /\ \E p \in Processors :
       queue = [q \in Processors |-> IF q = p THEN <<GetPresentDevices>> ELSE <<>>]
  /\ present = [v \in Serials |-> FALSE]
  /\ inbox = [side \in {"app", "dev"} |-> <<>>]
  /\ set = EmptyTTLSet
  /\ phase = "init" /\ handlers = 1 /\ restarts = 0
  /\ silence = [v \in Serials |-> 0]

-----------------------------------------------------------------------------
(* Devices: the provider and the worker process of each device. *)

Room ==
  /\ \A p \in Processors : Len(queue[p]) < MaxQueue
  /\ \A side \in Sides : Len(inbox[side]) < MaxQueue

Deliver(side, m) == [inbox EXCEPT ![side] = IF side \in Sides THEN Append(@, m) ELSE @]

\* ADB lists the device; register() introduces it.
Connect(v) ==
  /\ worker[v] = "gone" /\ Room
  /\ worker' = [worker EXCEPT ![v] = "introduced"]
  /\ Send(<<Msg("DeviceIntroduction", v)>>)
  /\ UNCHANGED <<present, inbox, reaper>>

\* The worker runs: it beats from now on and tells that it is ready.
StartWorker(v) ==
  /\ worker[v] = "introduced" /\ Room
  /\ worker' = [worker EXCEPT ![v] = "beating"]
  /\ Send(<<Msg("DeviceReady", v)>>)
  /\ UNCHANGED <<present, inbox, reaper>>

\* A heartbeat awaits nothing in the processor, which returns it to the device
\* side.
Beat(v) ==
  /\ worker[v] = "beating" /\ Room
  /\ inbox' = Deliver("dev", Msg("DeviceHeartbeat", v))
  /\ UNCHANGED <<worker, queue, present, reaper>>

\* The device is unplugged: onCleanup says so and the worker is killed.
Disconnect(v) ==
  /\ worker[v] # "gone" /\ Room
  /\ worker' = [worker EXCEPT ![v] = "gone"]
  /\ Send(<<Msg("DeviceAbsent", v)>>)
  /\ UNCHANGED <<present, inbox, reaper>>

\* The provider's host fails: nobody tells.
Lose(v) ==
  /\ worker[v] # "gone"
  /\ worker' = [worker EXCEPT ![v] = "gone"]
  /\ UNCHANGED <<queue, present, inbox, reaper>>

-----------------------------------------------------------------------------
(* Processors. *)

\* What saveDeviceInitialState, setDevicePresent, setDeviceReady and
\* setDeviceAbsent write; GetPresentDevices only reads.
PresentAfter(m) ==
  IF m.type = "GetPresentDevices" THEN present
  ELSE [present EXCEPT ![m.serial] = m.type # "DeviceAbsent"]

\* The database call of a handler completes and the handler goes on: it
\* answers on the device side or passes the message to the app side.
Process(p) ==
  /\ queue[p] # <<>>
  /\ LET m == Head(queue[p])
     IN /\ present' = PresentAfter(m)
        /\ inbox' = IF m.type = "GetPresentDevices"
                    THEN Deliver("dev", DevicesReply({v \in Serials : present[v]}))
                    ELSE Deliver("app", m)
  /\ queue' = [queue EXCEPT ![p] = Tail(@)]
  /\ UNCHANGED <<worker, reaper>>

-----------------------------------------------------------------------------
(* The reaper. *)

HandleMessage(s, m) ==
  CASE m.type = "DeviceIntroduction" -> Bump(Drop(s, m.serial, TRUE), m.serial, FALSE)
    [] m.type = "DeviceHeartbeat"    -> Bump(s, m.serial, FALSE)
    [] m.type = "DeviceAbsent"       -> Drop(s, m.serial, TRUE)
    [] OTHER                         -> s

\* Every handler of the router runs once per attached listener.
Routed(s, m, n) ==
  LET after[k \in 0..n] == IF k = 0 THEN s ELSE HandleMessage(after[k - 1], m)
  IN after[n]

\* The initial state: silent, so nobody is told the devices are present.
BumpAll(s, order) ==
  LET after[k \in 0..Len(order)] ==
        IF k = 0 THEN s ELSE Bump(after[k - 1], order[k], TRUE)
  IN after[Len(order)]

\* The messages the listeners of "insert" and "drop" push for a set's events.
Pushed(s) ==
  [i \in DOMAIN s.emits |->
     Msg(IF s.emits[i].type = "insert" THEN "DevicePresent" ELSE "DeviceAbsent",
         s.emits[i].serial)]

\* The set becomes s: its events are pushed and forgotten.
SetBecomes(s) ==
  \E t \in {s} :
    /\ Send(Pushed(t))
    /\ set' = [t EXCEPT !.emits = <<>>]

Heard(S) == [v \in Serials |-> IF v \in S THEN 0 ELSE silence[v]]

\* The answer to GetPresentDevices is awaited only during init().
ReceiveDevices(side) ==
  /\ inbox[side] # <<>> /\ Head(inbox[side]).type = "Devices"
  /\ phase' = "loaded"
  /\ LET known == IF phase = "init" THEN Head(inbox[side]).serials ELSE {}
     IN /\ \E order \in SetToSeqs(known) : SetBecomes(BumpAll(set, order))
        /\ silence' = Heard(known)
  /\ inbox' = [inbox EXCEPT ![side] = Tail(@)]
  /\ UNCHANGED <<worker, present, handlers, restarts>>

Receive(side) ==
  /\ inbox[side] # <<>> /\ Head(inbox[side]).type # "Devices"
  /\ LET m == Head(inbox[side])
     IN /\ SetBecomes(Routed(set, m, handlers))
        /\ silence' = IF m.type \in {"DeviceIntroduction", "DeviceHeartbeat", "DeviceAbsent"}
                      THEN Heard({m.serial}) ELSE silence
  /\ inbox' = [inbox EXCEPT ![side] = Tail(@)]
  /\ UNCHANGED <<worker, present, phase, handlers, restarts>>

\* The timer of the set fires.
CheckTimer ==
  /\ set.timer = 0
  /\ SetBecomes(Check(set))
  /\ silence' = Heard(set.mapping \ Check(set).mapping)
  /\ UNCHANGED <<worker, present, inbox, phase, handlers, restarts>>

\* GetPresentDevices times out: init() runs again and attaches the router
\* once more.
RetryInit ==
  /\ phase = "init" /\ handlers < MaxHandlers
  /\ handlers' = handlers + 1
  /\ Send(<<GetPresentDevices>>)
  /\ UNCHANGED <<worker, present, inbox, set, phase, restarts, silence>>

\* The unit dies with its sockets and starts over.
Restart ==
  /\ restarts < MaxRestarts
  /\ restarts' = restarts + 1
  /\ set' = EmptyTTLSet /\ phase' = "init" /\ handlers' = 1
  /\ Send(<<GetPresentDevices>>)
  /\ inbox' = [side \in {"app", "dev"} |-> <<>>]
  /\ silence' = [v \in Serials |-> 0]
  /\ UNCHANGED <<worker, present>>

Tick ==
  /\ set' = Elapse(set)
  /\ silence' = [v \in Serials |-> IF v \in set.mapping /\ silence[v] < Oldest
                                   THEN silence[v] + 1 ELSE silence[v]]
  /\ UNCHANGED <<worker, queue, present, inbox, phase, handlers, restarts>>

-----------------------------------------------------------------------------
Next ==
  \/ \E v \in Serials : Connect(v) \/ StartWorker(v) \/ Beat(v) \/ Disconnect(v) \/ Lose(v)
  \/ \E p \in Processors : Process(p)
  \/ \E side \in Sides : ReceiveDevices(side) \/ Receive(side)
  \/ CheckTimer \/ RetryInit \/ Restart \/ Tick

\* Units that are up take their messages, timers fire, time passes, workers
\* beat; nothing makes a device appear or disappear, or the reaper restart.
Fairness ==
  /\ \A p \in Processors : WF_vars(Process(p))
  /\ \A side \in Sides : WF_vars(ReceiveDevices(side) \/ Receive(side))
  /\ WF_vars(CheckTimer) /\ WF_vars(Tick)
  /\ \A v \in Serials : WF_vars(Beat(v))

Spec == Init /\ [][Next]_vars /\ Fairness

-----------------------------------------------------------------------------
(* Properties. *)

Message ==
  [type : {"DeviceIntroduction", "DeviceReady", "DeviceHeartbeat", "DevicePresent",
           "DeviceAbsent"}, serial : Serials]
    \cup {GetPresentDevices} \cup {DevicesReply(S) : S \in SUBSET Serials}

\* Every variable keeps its type and every queue its bound.
TypeOK ==
  /\ worker \in [Serials -> {"gone", "introduced", "beating"}]
  /\ \A p \in Processors : ToSet(queue[p]) \subseteq Message
  /\ present \in [Serials -> BOOLEAN]
  /\ \A side \in {"app", "dev"} : ToSet(inbox[side]) \subseteq Message
  /\ set \in TTLSets
  /\ phase \in {"init", "loaded"}
  /\ handlers \in 1..MaxHandlers /\ restarts \in 0..MaxRestarts
  /\ silence \in [Serials -> 0..Oldest]

\* No order of bumps, drops and checks corrupts the links of the set, and check()
\* may stop at the first young head: behind it nothing is older.
SetInOrder == LinksConsistent(set) /\ OldestFirst(set)

\* Whenever the list has a head, a timer will look at it in time, whatever
\* dropped or moved the head the timer was armed for.
SetTimerCoversHead == TimerCoversHead(set)

\* "Reaping device due to heartbeat timeout": DeviceAbsent is pushed only for
\* a device the reaper has not heard of for longer than the timeout.
ReapOnlySilent ==
  [][\A v \in Serials :
       CheckTimer /\ Msg("DeviceAbsent", v) \in ToSet(Pushed(Check(set)))
         => silence[v] > TTL]_vars

\* A device the loaded reaper has in its set and that is lost does not keep
\* its present flag.
TrackedLostIsReaped ==
  \A v \in Serials :
    (worker[v] = "gone" /\ v \in set.mapping /\ phase = "loaded")
      ~> (~present[v] \/ worker[v] # "gone")

\* Whatever happened before it was lost, a lost device does not keep its
\* present flag.
LostIsReaped ==
  \A v \in Serials : worker[v] = "gone" ~> (~present[v] \/ worker[v] # "gone")

\* A device whose worker beats on is not left absent for good.
BeatingIsPresent ==
  \A v \in Serials : <>[](worker[v] = "beating") => []<>present[v]
=============================================================================
