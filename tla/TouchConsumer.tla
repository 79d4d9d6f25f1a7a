---------------------------- MODULE TouchConsumer ----------------------------
(***************************************************************************)
(* units/device/plugins/touch/index.ts: the TouchConsumer that keeps       *)
(* minitouch running on the device and writes touches to its socket.       *)
(*                                                                         *)
(* It resembles the FrameProducer of ScreenStream, with two differences:   *)
(* restart() stops the service itself, outside the lock of _ensureState(), *)
(* and a start that fails ends the worker.                                 *)
(***************************************************************************)
EXTENDS StateQueue

CONSTANTS
  FailLimit,    \* threshold of the FailCounter
  MaxFaults     \* bound: calls that fail, streams that end

ASSUME TouchConsumerAssumption == FailLimit \in Nat \ {0} /\ MaxFaults \in Nat

VARIABLES
  c,        \* the TouchConsumer, and "written", what has reached minitouch
  faults

\* The calls of _stop() under way, by the caller that goes on after them: "socket"
\* waits for the socket to end and "output" for the service.
Restarts == {<<"restart", i>> : i \in 1..MaxFaults}
StopState == <<"stopState", 0>>
StartState == <<"startState", 0>>
Stoppers == Restarts \cup {StopState, StartState}
NoStop == "none"

\* A stream whose end somebody waits for is "ending": its end is an expected one.
Streams == {"none", "open", "ending", "ended"}
Expect(stream) == IF stream = "open" THEN "ending" ELSE stream

Stop(r, who) == [r EXCEPT !.stops[who] = "socket", !.socket = Expect(@)]

-----------------------------------------------------------------------------
\* _ensureState(), under its lock: the state that is asked for, or, when it is the
\* one that is there, another try after setImmediate.
EnsureState(r) ==
  IF r.desired = <<>> \/ r.lock THEN r
  ELSE LET q == [r EXCEPT !.desired = Tail(@)]
           next == Head(r.desired)
       IN IF r.running \in {STARTING, STOPPING} THEN [r EXCEPT !.lock = TRUE]
          ELSE IF next = r.running THEN [q EXCEPT !.immediates = @ + 1]
          ELSE IF next = STARTED
          THEN [q EXCEPT !.lock = TRUE, !.running = STARTING, !.start = "service"]
          ELSE Stop([q EXCEPT !.lock = TRUE, !.running = STOPPING], StopState)

\* restart(): the state stays what it was while _stop() is awaited.
Restart(r) ==
  IF r.running \notin {STARTED, STARTING} THEN r
  ELSE Stop(r, CHOOSE w \in Restarts : r.stops[w] = NoStop)

\* mutant: a restart that asks for the stop only
RestartedForgets(r) == EnsureState([r EXCEPT !.desired = Push(@, STOPPED)])

Restarted(r) ==
  EnsureState([r EXCEPT !.desired = Push(Push(@, STOPPED), STARTED)])

Inc(r) == IF r.fails = FailLimit THEN [r EXCEPT !.dead = TRUE]
          ELSE [r EXCEPT !.fails = @ + 1]

\* The end of _stop(), whatever has been started meanwhile, and what its caller does.
\* A stream that is only forgotten may still end.
Stopped(r, who) ==
  LET q == [r EXCEPT !.running = STOPPED, !.stops[who] = NoStop, !.banner = FALSE,
                     !.output = "none", !.socket = "none",
                     !.leaked = @ + (IF r.output = "open" THEN 1 ELSE 0)
                                  + (IF r.socket = "open" THEN 1 ELSE 0)]
  IN IF who = StartState THEN [q EXCEPT !.dead = TRUE]
     ELSE IF who = StopState THEN EnsureState([q EXCEPT !.lock = FALSE])
     ELSE Restarted(q)

\* mutant: a touch is written as soon as there is a socket, before those that wait
QueueWriteEarly(r, touch) ==
  IF r.socket = "open" THEN [r EXCEPT !.written = Append(@, touch)]
  ELSE [r EXCEPT !.writeQueue = Append(@, touch)]


\* A touch is written when the consumer is started, and kept until then otherwise.  A
\* write to a socket that has ended, or that is not there, is lost.
Written(r, touches) == IF r.socket = "open" THEN r.written \o touches ELSE r.written
QueueWrite(r, touch) ==
  IF r.running = STARTED THEN [r EXCEPT !.written = Written(r, <<touch>>)]
  ELSE [r EXCEPT !.writeQueue = Append(@, touch)]

\* The banner is there: the touches that wait are written, then it is started.  Where
\* a _stop() has taken the socket away this throws.
Started(r) ==
  IF r.socket = "none" THEN Stop([r EXCEPT !.start = "failing"], StartState)
  ELSE EnsureState([r EXCEPT !.start = "none", !.running = STARTED, !.lock = FALSE,
         !.banner = TRUE, !.written = Written(r, r.writeQueue), !.writeQueue = <<>>])

-----------------------------------------------------------------------------
InitConsumer ==
  /\ c = [running |-> STARTING, desired |-> <<>>, lock |-> TRUE, start |-> "service",
          stops |-> [w \in Stoppers |-> NoStop], output |-> "none", socket |-> "none",
          immediates |-> 0, fails |-> 0, dead |-> FALSE, leaked |-> 0,
          banner |-> FALSE, writeQueue |-> <<>>, written |-> <<>>]
  /\ faults = 0

Alive == ~c.dead
Fault == faults < MaxFaults /\ faults' = faults + 1
Expected == UNCHANGED faults

\* startState(), one step for each thing it awaits.
ServiceStarted ==
  /\ Alive /\ c.start = "service" /\ c.immediates = 0
  /\ c' = [c EXCEPT !.start = "connect", !.output = "open"]
  /\ Expected
Connected ==
  /\ Alive /\ c.start = "connect"
  /\ c' = [c EXCEPT !.start = "banner", !.socket = "open"]
  /\ Expected
BannerRead ==
  /\ Alive /\ c.start = "banner"
  /\ c' = Started(c)
  /\ Expected
StartFails ==
  /\ Alive /\ c.start \in {"service", "connect", "banner"} /\ Fault
  /\ c' = Stop([c EXCEPT !.start = "failing"], StartState)

\* A stream ends; when nobody waits for it that is a failure, and a restart.
OutputEnds ==
  /\ Alive
  /\ \/ c.output = "open" /\ Fault /\ c' = Restart(Inc([c EXCEPT !.output = "ended"]))
     \/ c.output = "ending" /\ Expected /\ c' = [c EXCEPT !.output = "ended"]
SocketEnds ==
  /\ Alive
  /\ \/ c.socket = "open" /\ Fault /\ c' = Restart(Inc([c EXCEPT !.socket = "ended"]))
     \/ c.socket = "ending" /\ Expected /\ c' = [c EXCEPT !.socket = "ended"]
LeakedEnds ==
  /\ Alive /\ c.leaked > 0 /\ Fault
  /\ c' = Restart(Inc([c EXCEPT !.leaked = @ - 1]))

\* _stop(): the socket has ended, or two seconds have passed; then the service is
\* killed, and its output ended at the last, or at once while its pid is not known.
Disconnected(who) ==
  /\ Alive /\ c.stops[who] = "socket"
  /\ IF c.socket = "ending" THEN Fault ELSE Expected
  /\ c' = [c EXCEPT !.stops[who] = "output", !.output = Expect(@)]
ServiceStopped(who) ==
  /\ Alive /\ c.stops[who] = "output"
  /\ IF c.output = "ending" /\ c.banner THEN Fault ELSE Expected
  /\ c' = Stopped(c, who)

Immediate ==
  /\ Alive /\ c.immediates > 0
  /\ c' = EnsureState([c EXCEPT !.immediates = @ - 1])
  /\ Expected
Forget ==
  /\ Alive /\ c.fails > 0
  /\ c' = [c EXCEPT !.fails = @ - 1]
  /\ Expected

ConsumerNext ==
  \/ ServiceStarted \/ Connected \/ BannerRead \/ StartFails \/ OutputEnds \/ SocketEnds
  \/ LeakedEnds
  \/ \E who \in Stoppers : Disconnected(who) \/ ServiceStopped(who)
  \/ Immediate \/ Forget
=============================================================================
