---------------------------- MODULE AdbObserver ----------------------------
(***************************************************************************)
(* units/provider/ADBObserver.ts: the provider's view of the devices, kept *)
(* by polling the ADB server and by asking every device for a property     *)
(* through one shared connection with a queue of requests.                 *)
(*                                                                         *)
(* Everything the observer holds is one record, for a handler runs to its  *)
(* end, and with it whatever its promises resume, before the next one.     *)
(***************************************************************************)
EXTENDS AdbServer, SequencesExt

CONSTANTS
  Network,             \* devices whose serial has a port: reconnect() acts on them
  MaxHealthAttempts,   \* maxHealthCheckAttempts
  MaxReconnects,       \* maxReconnectAttempts
  MayHang,             \* devices that may stop to answer shell commands
  Slow,                \* whether the network may take longer than intervals and timeouts
  MaxFaults            \* bound: devices plugged, unplugged or hanging, connections lost

ASSUME AdbObserverAssumption ==
  /\ Network \subseteq Devices /\ MayHang \subseteq Devices /\ Slow \in BOOLEAN
  /\ MaxHealthAttempts \in Nat \ {0, 1} /\ MaxReconnects \in Nat \ {0}
  /\ MaxFaults \in Nat

VARIABLES
  o,        \* the observer and its sockets
  known,    \* the state of each device as the ADB server knows it
  hung,     \* the devices that answer no shell command
  faults,   \* counts against MaxFaults
  rested,   \* the callers for whom the network has been quiet since their last round
  away,     \* history: the devices that were not online at some time
  lossy     \* history: whether a connection was lost or refused

vars == <<o, known, hung, faults, rested, away, lossy>>
devices == <<known, hung, faults, away, lossy>>

\* Who sends commands, and the loop of attemptReconnect(), which only connects.
Poll == <<"poll", 0>>
Health == <<"health", 0>>
Recovery(d) == <<"reconnect", d>>
Callers == {Poll, Health} \cup {Recovery(d) : d \in Network}
ReconnectLoop == <<"attemptReconnect", 0>>

\* A request of the queue: for whom, and whether its timer runs (it is in flight)
\* and its raw stream has begun.
Request(who, command) ==
  [who |-> who, command |-> command, timer |-> FALSE, started |-> FALSE]
Requests == [who : Callers, command : Commands, timer : BOOLEAN, started : BOOLEAN]
NeedsData(request) ==
  request.command.name \in {"host:devices", "host:disconnect", "host:connect"}
IsRawStream(request) == request.command.name = "shell:getprop"

-----------------------------------------------------------------------------
(* The connection and the queue.                                           *)

Room(q) == \E s \in Sockets : q.sockets[s] = NoSocket
FreeSocket(q) == CHOOSE s \in Sockets : q.sockets[s] = NoSocket
CreateConnection(q, who) ==
  [q EXCEPT !.connecting = TRUE, !.sockets[FreeSocket(q)] = Opening(who)]

\* Writes the first request if it is not in flight and there is a connection.
ProcessNextRequest(q) ==
  IF q.queue = <<>> \/ q.connection = 0 THEN q
  ELSE IF q.queue[1].timer THEN q
  ELSE [q EXCEPT !.queue[1].timer = TRUE,
                 !.sockets[q.connection].commands = Append(@, q.queue[1].command)]

\* sendADBCommand() with a connection: what a caller asks for is queued.
Enqueue(q, who) ==
  ProcessNextRequest([q EXCEPT
    !.queue = Append(@, Request(who, q.callers[who].command)),
    !.callers[who].state = "queued"])

\* ensureConnection(): the connection that is there, the one that others wait for,
\* or a new one.  Bound: without a free socket the caller waits, and is refused.
Send(q, who, command) ==
  LET asking == [q EXCEPT !.callers[who] = [state |-> "waiting", command |-> command]]
  IN IF q.connection # 0 THEN Enqueue(asking, who)
     ELSE IF q.connecting \/ q.attempt # 0 \/ ~Room(q) THEN asking
     ELSE CreateConnection([asking EXCEPT !.callers[who].state = "opening"], who)

CloseConnectionAfterTransport(q) ==
  IF q.connection = 0 THEN q
  ELSE [q EXCEPT !.sockets[q.connection].state = "destroyed", !.connection = 0]

-----------------------------------------------------------------------------
(* What the callers do with an answer, or with the failure to get one.      *)

Idle == [state |-> "idle", command |-> ListDevices]

\* The loop of performHealthChecks(): the next device of the map that is online
\* and not stuck.
NextHealthCheck(q) ==
  LET next == SelectInSeq(q.order, LAMBDA d :
                /\ d \notin q.checked /\ d \notin q.stuck /\ q.type[d] = "device")
  IN IF next = 0 \/ ~q.running
     THEN [q EXCEPT !.callers[Health] = Idle, !.checked = {}]
     ELSE Send([q EXCEPT !.checked = @ \cup ToSet(SubSeq(q.order, 1, next))],
               Health, Transport(q.order[next]))

\* device.reconnect(), which the health check does not wait for.
Reconnect(q, d) ==
  IF d \in Network /\ q.callers[Recovery(d)] = Idle
  THEN Send(q, Recovery(d), Disconnect(d)) ELSE q

\* handleDeviceHealthCheckFailure(): too many failures in a row and it is stuck.
HealthCheckFailure(q, d) ==
  IF q.attempts[d] + 1 < MaxHealthAttempts
  THEN [q EXCEPT !.attempts[d] = @ + 1]
  ELSE Reconnect([q EXCEPT !.attempts[d] = 0, !.stuck = @ \cup {d},
                           !.order = IF d \in ToSet(@) THEN @ ELSE Append(@, d)], d)

\* pollDevices() with a list: devices that are new, changed, gone.  A list that
\* is not one reads as an empty one.
Listed(answer) ==
  IF answer.token = "list" THEN answer.known ELSE [d \in Devices |-> "absent"]
Polled(q, list) ==
  LET here == {d \in Devices : list[d] # "absent"}
      tracked == ToSet(q.order)
      new == SelectSeq([d \in Devices |-> d], LAMBDA d : d \in here \ tracked)
      recovered == {d \in here \cap tracked : q.type[d] # list[d] /\ list[d] = "device"}
  IN [q EXCEPT
       !.order = SelectSeq(@, LAMBDA d : d \in here) \o new,
       !.type = list,
       !.stuck = (@ \cap (here \cap tracked)) \ recovered,
       !.attempts = [d \in Devices |-> IF d \in tracked \ here THEN 0 ELSE @[d]],
       !.checked = @ \cap here]

\* The steps of reconnect(): disconnect (whatever it answers), connect, list.
Reconnecting(q, d, command, answer) ==
  CASE command = Disconnect(d) -> Send(q, Recovery(d), Connect(d))
    [] command = Connect(d) /\ answer # Failed ->
         [q EXCEPT !.callers[Recovery(d)] = [state |-> "pausing", command |-> ListDevices]]
    [] command = ListDevices /\ answer # Failed /\ Listed(answer)[d] = "device" ->
         [q EXCEPT !.callers[Recovery(d)] = Idle, !.stuck = @ \ {d},
                   !.type[d] = IF d \in ToSet(q.order) THEN "device" ELSE @]
    [] OTHER -> [q EXCEPT !.callers[Recovery(d)] = Idle]


\* getADBDevices() throws what it is refused.
Answered(answer) == answer # Failed

\* The caller of a request goes on with its answer; Failed is a rejection.
Resume(q, who, command, answer) ==
  CASE who = Poll ->
         LET done == [q EXCEPT !.callers[Poll] = Idle]
         IN IF Answered(answer) THEN Polled(done, Listed(answer)) ELSE done
    [] who = Health ->
         LET d == command.device
         IN NextHealthCheck(IF answer = Failed THEN HealthCheckFailure(q, d)
                            ELSE [q EXCEPT !.attempts[d] = 0])
    [] OTHER -> Reconnecting(q, who[2], command, answer)

\* The first request is settled and the next one written; then its caller goes on.
\* After a transport the caller has its shell command queued, behind the others.
Resolve(q, answer) ==
  LET request == Head(q.queue) rest == [q EXCEPT !.queue = Tail(@)]
  IN IF request.command.name = "host:transport"
     THEN ProcessNextRequest([rest EXCEPT
            !.queue = Append(@, Request(request.who, GetProp(request.command.device)))])
     ELSE Resume(ProcessNextRequest(rest), request.who, request.command, answer)
Reject(q) ==
  LET request == Head(q.queue)
  IN Resume(ProcessNextRequest([q EXCEPT !.queue = Tail(@)]),
            request.who, request.command, Failed)

\* The promises of a queue are rejected one after the other.
RejectEach(q, queue) ==
  LET rejected[i \in 0..Len(queue)] ==
        IF i = 0 THEN q
        ELSE Resume(rejected[i - 1], queue[i].who, queue[i].command, Failed)
  IN rejected[Len(queue)]

\* mutant: the requests that are rejected stay in the queue
RejectAllKept(q) == RejectEach(q, q.queue)

RejectAll(q) == RejectEach([q EXCEPT !.queue = <<>>], q.queue)

-----------------------------------------------------------------------------
(* processADBResponses(): one answer is read off the buffer of a socket, and *)
(* whatever follows it waits for more data.                                *)

\* A request that is not the one the answer was for reads it all the same; the second
\* of two statuses reads as a length that is not a number, and so as an empty answer.
Understood(q, s) ==
  LET buffer == q.sockets[s].buffer
      request == Head(q.queue)
      Left(n) == [q EXCEPT !.sockets[s].buffer = SubSeq(@, n + 1, Len(@))]
      lines == {i \in 1..Len(buffer) : buffer[i].token \in {"line", "list"}}
  IN IF q.queue = <<>> \/ buffer = <<>> THEN q
     ELSE IF request.started \/ (buffer[1] = Okay /\ IsRawStream(request))
     THEN IF lines = {} THEN [Left(Len(buffer)) EXCEPT !.queue[1].started = TRUE]
          ELSE LET rest == [Left(Len(buffer)) EXCEPT !.queue = Tail(@)]
               IN Resume(ProcessNextRequest(CloseConnectionAfterTransport(rest)),
                         request.who, request.command, Line)
     ELSE CASE buffer[1] = Failed -> Reject(Left(1))
            [] buffer[1] = Okay /\ ~NeedsData(request) -> Resolve(Left(1), Okay)
            [] buffer[1] = Okay /\ NeedsData(request) /\ Len(buffer) > 1 ->
                 CASE buffer[2].token \in {"list", "text"} -> Resolve(Left(2), buffer[2])
                   [] buffer[2] = Okay -> Resolve(q, Text)
                   [] OTHER -> q
            [] OTHER -> q

-----------------------------------------------------------------------------
(* The steps.                                                              *)

Init ==
  /\ known \in [Devices -> States]
  /\ o = [connection |-> 0, connecting |-> FALSE, attempt |-> 0, running |-> TRUE,
          queue |-> <<>>, sockets |-> [s \in Sockets |-> NoSocket],
          callers |-> [c \in Callers |-> Idle], order |-> <<>>, checked |-> {},
          type |-> [d \in Devices |-> "absent"], stuck |-> {},
          attempts |-> [d \in Devices |-> 0]]
  /\ hung = {} /\ faults = 0 /\ rested = {Poll, Health}
  /\ lossy = FALSE /\ away = {d \in Devices : known[d] # "device"}

Observes == UNCHANGED <<devices, rested>>

\* The close event of a socket the observer destroys comes before any timer and
\* before a connection that is made afterwards opens.
NoneClosing == \A s \in Sockets : o.sockets[s].state # "destroyed"

\* The next round of a caller, after its interval.
StartPoll ==
  /\ NoneClosing /\ o.running /\ o.callers[Poll] = Idle /\ Poll \in rested
  /\ o' = Send(o, Poll, ListDevices) /\ rested' = rested \ {Poll}
  /\ UNCHANGED devices

StartHealthChecks ==
  /\ NoneClosing /\ o.running /\ o.callers[Health] = Idle /\ Health \in rested
  /\ o' = NextHealthCheck(o) /\ rested' = rested \ {Health}
  /\ UNCHANGED devices

\* Nothing is on its way on a socket.
Quiet(s) ==
  \/ o.sockets[s] = NoSocket
  \/ /\ o.sockets[s].state = "open"
     /\ o.sockets[s].commands = <<>> /\ o.sockets[s].sent = <<>>
AllQuiet == \A s \in Sockets : Quiet(s)

\* An interval passes: longer than what the network takes, unless Slow.
Rest(c) ==
  /\ NoneClosing /\ c \notin rested /\ o.callers[c] = Idle
  /\ Slow \/ /\ AllQuiet /\ o.attempt = 0
             /\ \A other \in Callers : o.callers[other].state # "waiting"
  /\ rested' = rested \cup {c}
  /\ UNCHANGED <<o, devices>>

\* checkConnection, every 10 ms.
CheckConnection(c) ==
  /\ NoneClosing /\ Observes /\ o.callers[c].state = "waiting"
  /\ \/ o.connection # 0 /\ o' = Enqueue(o, c)
     \/ o.connection = 0 /\ ~o.connecting /\ o.attempt = 0
        /\ o' = Resume(o, c, o.callers[c].command, Failed)

Pause(c) ==
  /\ NoneClosing /\ Observes /\ o.callers[c].state = "pausing"
  /\ o' = Send(o, c, o.callers[c].command)

Opened(s) ==
  LET open == [o EXCEPT !.connecting = FALSE, !.connection = s,
                        !.sockets[s].state = "open", !.sockets[s].waiter = None]
      waiter == o.sockets[s].waiter
  IN /\ NoneClosing /\ Observes /\ o.sockets[s].state = "opening"
     /\ o' = IF waiter = ReconnectLoop
             THEN ProcessNextRequest([open EXCEPT !.attempt = 0])
             ELSE Enqueue(open, waiter)

Refused(s) ==
  LET closed == [o EXCEPT !.connecting = FALSE, !.connection = 0, !.sockets[s] = NoSocket]
      waiter == o.sockets[s].waiter
  IN /\ NoneClosing /\ o.sockets[s].state = "opening" /\ faults < MaxFaults /\ faults' = faults + 1
     /\ o' = CASE waiter # ReconnectLoop ->
                    Resume(closed, waiter, o.callers[waiter].command, Failed)
               [] waiter = ReconnectLoop /\ o.attempt = 0 -> closed
               [] waiter = ReconnectLoop /\ o.attempt \in 1..(MaxReconnects - 1) ->
                    [closed EXCEPT !.attempt = @ + 1]
               [] OTHER -> RejectAll([closed EXCEPT !.attempt = 0])
     /\ lossy' = TRUE /\ UNCHANGED <<known, hung, rested, away>>

\* attemptReconnect(), after the delay that an attempt begins with.
AttemptReconnect ==
  /\ NoneClosing /\ Observes /\ o.attempt # 0 /\ Room(o)
  /\ \A s \in Sockets : o.sockets[s].waiter # ReconnectLoop
  /\ o' = CreateConnection(o, ReconnectLoop)

Serve(s) ==
  /\ o.sockets[s].state = "open" /\ o.sockets[s].commands # <<>>
  /\ \E socket \in Served(o.sockets[s], known, hung) : o' = [o EXCEPT !.sockets[s] = socket]
  /\ UNCHANGED <<devices, rested>>

\* The data event: any part of what was sent.
Data(s) ==
  /\ Observes /\ o.sockets[s].state \in {"open", "ended"}
  /\ \E n \in 1..Len(o.sockets[s].sent) :
       o' = Understood([o EXCEPT !.sockets[s].sent = SubSeq(@, n + 1, Len(@)),
                                 !.sockets[s].buffer = @ \o SubSeq(o.sockets[s].sent, 1, n)], s)

\* The timer of the request in flight.  An answer that comes comes in time, unless Slow.
RequestTimeout ==
  /\ NoneClosing /\ Observes /\ o.queue # <<>> /\ Head(o.queue).timer
  /\ Slow \/ AllQuiet
  /\ o' = Reject(o)

\* The first request is not in flight any more, and is written again on the next connection.
NotInFlight(q) == IF q.queue = <<>> THEN q ELSE [q EXCEPT !.queue[1].timer = FALSE]

\* mutant: the connection is not made again
NotReconnecting(q) == q

\* attemptReconnect() begins, unless it is under way.
StartReconnecting(q) == IF q.attempt = 0 THEN [q EXCEPT !.attempt = 1] ELSE q

\* The close event, the last of a socket; after an error, connecting ends too.  Whichever
\* socket it is, the connection is gone.
RawStreamStarted == o.queue # <<>> /\ Head(o.queue).started
Close(s) ==
  /\ \/ o.sockets[s].state = "destroyed"
     \/ o.sockets[s].state = "ended" /\ o.sockets[s].sent = <<>>
  /\ \E error \in {FALSE, o.sockets[s].commands # <<>>} :
       LET closed == [o EXCEPT !.connection = 0, !.sockets[s] = NoSocket,
                               !.connecting = @ /\ ~error]
           request == Head(o.queue)
       IN \/ /\ RawStreamStarted
             /\ o' = Resume([closed EXCEPT !.queue = Tail(@)], request.who, request.command, Line)
          \/ /\ ~RawStreamStarted /\ o.running
             /\ o' = StartReconnecting(NotInFlight(closed))
          \/ /\ ~RawStreamStarted /\ ~o.running
             /\ o' = RejectAll(closed)
  /\ UNCHANGED <<devices, rested>>

\* stop(): the connection is closed and every request rejected.
Stop ==
  /\ o.running /\ faults < MaxFaults /\ faults' = faults + 1
  /\ o' = RejectAll([CloseConnectionAfterTransport(o) EXCEPT
                      !.running = FALSE, !.attempt = 0])
  /\ UNCHANGED <<known, hung, rested, away, lossy>>

\* What happens to devices and connections.
Fault == faults < MaxFaults /\ faults' = faults + 1
TunnelsTo(d) == {s \in Sockets : o.sockets[s].to = d /\ o.sockets[s].state = "open"}
PlugOrUnplug(d, state) ==
  /\ Fault /\ state # known[d]
  /\ known' = [known EXCEPT ![d] = state]
  /\ away' = away \cup {d}
  /\ o' = [o EXCEPT !.sockets = [s \in Sockets |->
             IF s \in TunnelsTo(d) THEN [@[s] EXCEPT !.state = "ended"] ELSE @[s]]]
  /\ lossy' = (lossy \/ TunnelsTo(d) # {})
  /\ UNCHANGED <<hung, rested>>

Hang(d) ==
  /\ Fault /\ d \in MayHang
  /\ hung' = IF d \in hung THEN hung \ {d} ELSE hung \cup {d}
  /\ UNCHANGED <<o, known, rested, away, lossy>>

Lose(s) ==
  /\ Fault /\ o.sockets[s].state = "open"
  /\ o' = [o EXCEPT !.sockets[s].state = "ended"]
  /\ lossy' = TRUE /\ UNCHANGED <<known, hung, rested, away>>

Next ==
  \/ StartPoll \/ StartHealthChecks \/ AttemptReconnect \/ RequestTimeout \/ Stop
  \/ Rest(Poll) \/ Rest(Health)
  \/ \E c \in Callers : CheckConnection(c) \/ Pause(c)
  \/ \E s \in Sockets : Opened(s) \/ Refused(s) \/ Serve(s) \/ Data(s) \/ Close(s)
                     \/ Lose(s)
  \/ \E d \in Devices : Hang(d) \/ \E state \in States : PlugOrUnplug(d, state)

\* A timer that is due fires when no close event is pending, and the network and the
\* server go on.
Fairness ==
  /\ SF_vars(Rest(Poll) \/ StartPoll) /\ SF_vars(Rest(Health) \/ StartHealthChecks)
  /\ \A c \in Callers : SF_vars(CheckConnection(c) \/ Pause(c))
  /\ WF_vars(AttemptReconnect) /\ WF_vars(RequestTimeout)
  /\ \A s \in Sockets : WF_vars(Opened(s) \/ Serve(s) \/ Data(s) \/ Close(s))

Spec == Init /\ [][Next]_vars /\ Fairness

-----------------------------------------------------------------------------

TypeOK ==
  /\ o.connection \in {0} \cup Sockets /\ o.connecting \in BOOLEAN /\ o.running \in BOOLEAN
  /\ o.attempt \in 0..MaxReconnects /\ o.queue \in Seq(Requests)
  /\ o.attempts \in [Devices -> 0..(MaxHealthAttempts - 1)] /\ o.type \in [Devices -> States]
  /\ o.stuck \subseteq Devices /\ o.checked \subseteq Devices
  /\ ToSet(o.order) \subseteq Devices /\ IsInjective(o.order)
  /\ known \in [Devices -> States] /\ hung \subseteq Devices /\ away \subseteq Devices
  /\ faults \in 0..MaxFaults /\ lossy \in BOOLEAN /\ rested \subseteq {Poll, Health}

\* A caller that waits for an answer has exactly one request in the queue, through
\* timeouts, connections that close with requests in flight and reconnections that fail:
\* each promise of sendADBCommand() is settled once and none is left behind.
OneRequestEach ==
  \A c \in Callers :
    Cardinality({i \in 1..Len(o.queue) : o.queue[i].who = c})
      = IF o.callers[c].state = "queued" THEN 1 ELSE 0


\* Whoever waits for an answer gets one or an error, whatever hangs and however the
\* connections end: isPolling does not stay set, and the health checks go on.
EverySettled == \A c \in Callers : (o.callers[c] # Idle) ~> (o.callers[c] = Idle)

\* closeConnectionAfterTransport() says that a socket that leads to a device cannot be used
\* for other commands: no host command is written to one.
NoCommandInTunnel ==
  \A s \in Sockets : o.sockets[s].to # 0 =>
    \A i \in 1..Len(o.sockets[s].commands) : o.sockets[s].commands[i].name = "shell:getprop"

\* The observer declares stuck (and the provider takes away) only devices that hang or
\* were away: performHealthChecks() is there to find those.
StuckWasIll == o.running => o.stuck \subseteq hung \cup away
=============================================================================
