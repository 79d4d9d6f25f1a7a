---------------------------- MODULE ScreenStream ----------------------------
(***************************************************************************)
(* units/device/plugins/screen/stream.js: the FrameProducer that starts,   *)
(* watches, restarts and stops minicap on the device, and the set of       *)
(* WebSocket clients it sends the frames to.                               *)
(*                                                                         *)
(* The producer is one record, for a callback runs to its end, with the    *)
(* bluebird continuations that are ready, before the next one.             *)
(***************************************************************************)
EXTENDS StateQueue, FiniteSets

CONSTANTS
  Clients,      \* WebSocket clients that have been let in
  Grabbers,     \* values of options.needScrcpy to begin with
  FailLimit,    \* threshold of the FailCounter
  MaxChanges,   \* bound: rotations, projections and qualities
  MaxFaults     \* bound: calls that fail or time out, streams that end

ASSUME ScreenStreamAssumption ==
  /\ Grabbers \subseteq BOOLEAN /\ Grabbers # {}
  /\ FailLimit \in Nat \ {0} /\ MaxChanges \in Nat /\ MaxFaults \in Nat

VARIABLES
  p,          \* the FrameProducer
  clients,    \* broadcastSet
  told,       \* history: the clients that got 'start' from the stream in progress
  wish,       \* history: the state pushed last
  gaveUp,     \* history: whether a start has failed since
  changes, faults   \* count against the bounds

vars == <<p, clients, told, wish, gaveUp, changes, faults>>

Streams == {"none", "open", "ended"}
Producers ==
  [scrcpy : BOOLEAN, running : {STOPPED, STARTING, STARTED, STOPPING},
   desired : {q \in UNION {[1..n -> Wishes] : n \in 0..2} : IsStateQueue(q)},
   start : {"none", "scrcpy", "service", "pid", "connect", "banner", "failing"},
   stop : {"none", "socket", "output"}, output : Streams, socket : Streams,
   pid : BOOLEAN, immediates : 0..2, fails : 0..FailLimit, dead : BOOLEAN,
   readable : BOOLEAN, needsReadable : BOOLEAN, pumps : 0..2, endless : BOOLEAN]

-----------------------------------------------------------------------------
(* FrameProducer: the states.                                              *)

Alive == ~p.dead


\* _ensureState(): one step towards the state that is asked for.
EnsureState(r) ==
  IF r.desired = <<>> \/ r.running \in {STARTING, STOPPING} THEN r
  ELSE LET q == [r EXCEPT !.desired = Tail(@)]
           next == Head(r.desired)
       IN IF next = r.running THEN [q EXCEPT !.immediates = @ + 1]
          ELSE IF next = STARTED
          THEN [q EXCEPT !.running = STARTING,
                         !.start = IF r.scrcpy THEN "scrcpy" ELSE "service"]
          ELSE [q EXCEPT !.running = STOPPING, !.stop = "socket"]

Request(r, state) == EnsureState([r EXCEPT !.desired = Push(@, state)])
Restarts(r) == r.running \in {STARTED, STARTING}
Restart(r) ==
  IF Restarts(r)
  THEN EnsureState([r EXCEPT !.desired = Push(Push(@, STOPPED), STARTED)])
  ELSE r

\* failCounter.inc(): one failure too many emits 'error', which ends the worker.
Inc(r) == IF r.fails = FailLimit THEN [r EXCEPT !.dead = TRUE]
          ELSE [r EXCEPT !.fails = @ + 1]

\* mutant: the end of _stop() without _ensureState()
StoppedForGood(r) ==
  LET q == [r EXCEPT !.running = STOPPED, !.stop = "none", !.output = "none",
                     !.socket = "none", !.pid = FALSE, !.start = "none"]
  IN IF r.start = "failing" THEN Inc(q) ELSE q

\* The end of _stop(); a start that failed counts as a failure.
Stopped(r) ==
  LET q == [r EXCEPT !.running = STOPPED, !.stop = "none", !.output = "none",
                     !.socket = "none", !.pid = FALSE, !.start = "none"]
  IN EnsureState(IF r.start = "failing" THEN Inc(q) ELSE q)

-----------------------------------------------------------------------------
(* FrameProducer: the frames.                                              *)

\* mutant: a stream without a whole frame that is not asked again
NextFrameForgets(r, hasFrame) ==
  IF r.socket # "none" /\ hasFrame THEN [r EXCEPT !.pumps = @ + 1]
  ELSE [r EXCEPT !.readable = FALSE]

\* The 'readable' handler: one frame and then, when it is sent, the next one, or
\* needFrame().  Without a parser nothing is read, and readable stays what it was.
NextFrame(r, hasFrame) ==
  IF r.socket # "none"
  THEN IF hasFrame THEN [r EXCEPT !.pumps = @ + 1]
       ELSE [r EXCEPT !.readable = FALSE, !.needsReadable = TRUE]
  ELSE [r EXCEPT !.needsReadable = TRUE, !.endless = r.readable]
Readable(r, hasFrame) ==
  LET q == [r EXCEPT !.readable = TRUE]
  IN IF r.needsReadable THEN NextFrame([q EXCEPT !.needsReadable = FALSE], hasFrame) ELSE q

\* What the chain of a start does when the banner is there.
Started(r, hasFrame) ==
  LET q == Readable([r EXCEPT !.needsReadable = TRUE], hasFrame)
  IN EnsureState([q EXCEPT !.start = "none", !.running = STARTED])

-----------------------------------------------------------------------------
Init ==
  /\ \E scrcpy \in Grabbers :
       p = [scrcpy |-> scrcpy, running |-> STOPPED, desired |-> <<>>, start |-> "none",
            stop |-> "none", output |-> "none", socket |-> "none", pid |-> FALSE,
            immediates |-> 0, fails |-> 0, dead |-> FALSE, readable |-> FALSE,
            needsReadable |-> FALSE, pumps |-> 0, endless |-> FALSE]
  /\ clients = {} /\ told = {} /\ wish = STOPPED /\ gaveUp = FALSE
  /\ changes = 0 /\ faults = 0

Fault == faults < MaxFaults /\ faults' = faults + 1
Expected == UNCHANGED faults
Inside == UNCHANGED <<clients, told, wish, gaveUp, changes>>

\* mutant: a client that comes while the stream runs is not told
InsertSilently(c) ==
  /\ Alive /\ c \notin clients
  /\ clients' = clients \cup {c}
  /\ IF clients = {} THEN p' = Request(p, STARTED) /\ wish' = STARTED /\ gaveUp' = FALSE
     ELSE UNCHANGED <<p, wish, gaveUp>>
  /\ UNCHANGED <<told, changes, faults>>

\* broadcastSet.insert(): who comes while the stream runs is told at once, and the
\* first client starts it.
Insert(c) ==
  /\ Alive /\ c \notin clients
  /\ clients' = clients \cup {c}
  /\ told' = IF p.running = STARTED THEN told \cup {c} ELSE told
  /\ IF clients = {} THEN p' = Request(p, STARTED) /\ wish' = STARTED /\ gaveUp' = FALSE
     ELSE UNCHANGED <<p, wish, gaveUp>>
  /\ UNCHANGED <<changes, faults>>

\* broadcastSet.remove(), for 'off', a closed socket and an error.
Remove(c) ==
  /\ Alive /\ c \in clients
  /\ clients' = clients \ {c} /\ told' = told \ {c}
  /\ IF clients = {c} THEN p' = Request(p, STOPPED) /\ wish' = STOPPED
     ELSE UNCHANGED <<p, wish>>
  /\ UNCHANGED <<gaveUp, changes, faults>>

\* What the restart of a producer that runs, or is about to, does to the histories.
RestartWish ==
  /\ wish' = IF Restarts(p) THEN STARTED ELSE wish
  /\ gaveUp' = IF Restarts(p) THEN FALSE ELSE gaveUp

\* updateRotation(), updateProjection() and changeQuality() with a new value.
ConfigChanged ==
  /\ Alive /\ changes < MaxChanges /\ changes' = changes + 1
  /\ p' = Restart(p) /\ RestartWish
  /\ UNCHANGED <<clients, told, faults>>

\* The chain of a start, one step for each thing it waits for.  What setImmediate and
\* bluebird have scheduled runs before the device can answer the first call.
LoopTurned == p.pumps = 0 /\ p.immediates = 0
ServiceStarted ==
  /\ Alive /\ p.start = "service" /\ LoopTurned
  /\ p' = [p EXCEPT !.start = "pid", !.output = "open"]
  /\ Inside /\ Expected
PidRead ==
  /\ Alive /\ p.output = "open" /\ ~p.pid
  /\ p' = [p EXCEPT !.pid = TRUE]
  /\ Inside /\ Expected
PidNeverComes == p.start = "pid" /\ ~p.pid /\ p.output = "ended"
PidKnown ==
  /\ Alive /\ p.start = "pid" /\ p.pid
  /\ p' = [p EXCEPT !.start = "connect"]
  /\ Inside /\ Expected
Connected ==
  /\ Alive /\ p.start = "connect"
  /\ p' = [p EXCEPT !.start = "banner", !.socket = "open"]
  /\ Inside /\ Expected
BannerRead ==
  /\ Alive /\ p.start = "banner"
  /\ \E hasFrame \in BOOLEAN : p' = Started(p, hasFrame)
  /\ told' = clients
  /\ UNCHANGED <<clients, wish, gaveUp, changes>> /\ Expected

\* A call of the chain fails or times out: _stop(), and no second try of its own.
StartFails ==
  /\ Alive /\ p.start \in {"service", "pid", "connect", "banner"}
  /\ p.start = "service" => LoopTurned
  /\ p.start = "pid" => ~p.pid
  /\ IF PidNeverComes THEN Expected ELSE Fault
  /\ p' = [p EXCEPT !.start = "failing", !.stop = "socket"]
  /\ gaveUp' = TRUE
  /\ UNCHANGED <<clients, told, wish, changes>>

\* scrcpyClient.start(): nothing follows it, and a rejection is not handled.
ScrcpyStarted ==
  /\ Alive /\ p.start = "scrcpy"
  /\ p' = [p EXCEPT !.start = "none", !.running = STARTED]
  /\ told' = clients
  /\ UNCHANGED <<clients, wish, gaveUp, changes>> /\ Expected
ScrcpyFails ==
  /\ Alive /\ p.start = "scrcpy" /\ Fault
  /\ p' = [p EXCEPT !.start = "none"]
  /\ gaveUp' = TRUE
  /\ UNCHANGED <<clients, told, wish, changes>>

\* A stream ends that nobody has ended: one failure, and a restart.
UnexpectedEnd(r) == p' = Restart(Inc(r)) /\ RestartWish
OutputEnds ==
  /\ Alive /\ p.output = "open"
  /\ LET r == [p EXCEPT !.output = "ended"]
     IN IF p.stop = "output" THEN p' = r /\ UNCHANGED <<wish, gaveUp>> /\ Expected
        ELSE UnexpectedEnd(r) /\ Fault
  /\ UNCHANGED <<clients, told, changes>>
SocketEnds ==
  /\ Alive /\ p.socket = "open"
  /\ LET r == [p EXCEPT !.socket = "ended"]
     IN IF p.stop = "socket" THEN p' = r /\ UNCHANGED <<wish, gaveUp>> /\ Expected
        ELSE UnexpectedEnd(r) /\ Fault
  /\ UNCHANGED <<clients, told, changes>>

\* _stop(): the socket is ended first; one that does not end in time is an error.
Disconnected ==
  /\ Alive /\ p.stop = "socket" /\ p.socket # "open"
  /\ p' = [p EXCEPT !.stop = "output"]
  /\ Inside /\ Expected
DisconnectTimeout ==
  /\ Alive /\ p.stop = "socket" /\ p.socket = "open" /\ Fault
  /\ p' = [p EXCEPT !.dead = TRUE]
  /\ Inside

\* Then the service is killed; at the last the output is ended whatever it does.
ServiceStopped ==
  /\ Alive /\ p.stop = "output"
  /\ IF p.output = "open" /\ p.pid THEN Fault ELSE Expected
  /\ p' = Stopped(p) /\ told' = {}
  /\ UNCHANGED <<clients, wish, gaveUp, changes>>

\* setImmediate(_ensureState)
Immediate ==
  /\ Alive /\ p.immediates > 0
  /\ p' = EnsureState([p EXCEPT !.immediates = @ - 1])
  /\ Inside /\ Expected

\* 'readable' of the socket, whose listener _readFrames() adds and _stop() removes.
Data ==
  /\ Alive /\ p.running = STARTED /\ p.socket = "open" /\ p.pumps = 0
  /\ \E hasFrame \in BOOLEAN : p' = Readable(p, hasFrame)
  /\ Inside /\ Expected

\* The frame is handed to every client: the next one.
Pump ==
  /\ Alive /\ p.pumps > 0
  /\ \E hasFrame \in BOOLEAN : p' = NextFrame([p EXCEPT !.pumps = @ - 1], hasFrame)
  /\ Inside /\ Expected

\* Ten seconds pass: the oldest failure does not count any more.
Forget ==
  /\ Alive /\ p.fails > 0
  /\ p' = [p EXCEPT !.fails = @ - 1]
  /\ Inside /\ Expected

Next ==
  \/ \E c \in Clients : Insert(c) \/ Remove(c)
  \/ ConfigChanged
  \/ ServiceStarted \/ PidRead \/ PidKnown \/ Connected \/ BannerRead \/ StartFails
  \/ ScrcpyStarted \/ ScrcpyFails \/ OutputEnds \/ SocketEnds
  \/ Disconnected \/ DisconnectTimeout \/ ServiceStopped
  \/ Immediate \/ Data \/ Pump \/ Forget

\* Every call of a start has a timeout and every stop a last resort, so that what is
\* under way ends; bluebird and Node run what is scheduled.
Fairness ==
  /\ WF_vars(ServiceStarted) /\ WF_vars(PidRead) /\ WF_vars(PidKnown)
  /\ WF_vars(Connected) /\ WF_vars(BannerRead) /\ WF_vars(ScrcpyStarted)
  /\ WF_vars(Disconnected) /\ WF_vars(ServiceStopped) /\ WF_vars(Immediate)
  /\ WF_vars(p.stop = "socket" /\ SocketEnds) /\ WF_vars(p.stop = "output" /\ OutputEnds)
  /\ WF_vars(PidNeverComes /\ StartFails) /\ WF_vars(Pump)

-----------------------------------------------------------------------------
(* Properties.                                                             *)

TypeOK ==
  /\ p \in Producers
  /\ clients \subseteq Clients /\ told \subseteq Clients
  /\ wish \in Wishes /\ gaveUp \in BOOLEAN
  /\ changes \in 0..MaxChanges /\ faults \in 0..MaxFaults

\* A producer that has nothing under way has nothing left to do and is in the state
\* it was asked for last, unless a start has failed, which nothing tries again:
\* whatever was asked of it while it was starting or stopping, or failed, and
\* however its streams ended meanwhile (_ensureState, StateQueue, restart).
Rests == p.start = "none" /\ p.stop = "none" /\ p.immediates = 0
RestsAtWish ==
  ~p.scrcpy /\ Alive /\ Rests =>
    p.desired = <<>> /\ (p.running = wish \/ gaveUp)

\* Every client of a started stream has been told its banner, whether it came before
\* or after the start and whatever restarts there were (onStart).
WatchersTold == p.running = STARTED => clients \subseteq told

\* The frames of a started stream are pulled: either 'readable' of the socket will
\* start the loop or the loop is going on, so that no frame waits for ever
\* (needFrame, _maybeEmitReadable, nextFrame).
FramesArePulled ==
  ~p.scrcpy /\ p.running = STARTED => p.needsReadable \/ p.pumps > 0


\* What does not hold.  A started producer has both its streams or is asked to stop
\* already; a stream nobody watches stops; one that is watched runs; the loop that
\* pulls the frames of a stream that is gone ends; a stop that is asked for while
\* scrcpy starts is applied.
StreamIsWhole ==
  ~p.scrcpy /\ Alive /\ p.running = STARTED /\ p.desired = <<>> =>
    p.output = "open" /\ p.socket = "open"
UnwatchedStops == clients = {} ~> (clients # {} \/ p.running = STOPPED \/ p.dead)
WatchedIsStreamed == clients # {} ~> (clients = {} \/ p.running = STARTED \/ p.dead)
PullingEnds == ~p.endless
ScrcpyStops == Alive /\ Rests => p.desired = <<>>

-----------------------------------------------------------------------------
Spec == Init /\ [][Next]_vars
FairSpec == Spec /\ Fairness
=============================================================================
