------------------------------- MODULE Touch -------------------------------
(***************************************************************************)
(* Touches from the page to the device: the user interface numbers the     *)
(* messages of a gesture, a network delivers them, the plugin of           *)
(* units/device/plugins/touch/index.ts puts them in order with a SeqQueue  *)
(* and its TouchConsumer writes them to minitouch.                         *)
(***************************************************************************)
EXTENDS SeqQueue, TouchConsumer, FiniteSets

CONSTANTS
  Kinds,        \* the messages the page sends: of each gesture "start", its touches, "stop"
  Window,       \* bound: how many later messages may overtake one, plus one
  MaxLost       \* bound: messages the network loses

ASSUME TouchAssumption ==
  Kinds \in Seq({"start", "touch", "stop"}) /\ Window \in Nat \ {0} /\ MaxLost \in Nat

VARIABLES
  sent,      \* how many messages the page has sent
  transit,   \* those that are on their way
  lost,      \* those that never arrive
  q,         \* the SeqQueue
  ran        \* history: the messages whose handlers have run

vars == <<c, faults, sent, transit, lost, q, ran>>

Messages == DOMAIN Kinds
SeqOf(m) == (m - 1) % Size
Handled == {m \in Messages : Kinds[m] # "start"}

\* What the page sends, gesture after gesture.
Gestures ==
  \A m \in Messages : Kinds[m] = "start" <=> m = 1 \/ (m > 1 /\ Kinds[m - 1] = "stop")
\* No message overtakes more of them than the queue has numbers, or patience, for.
Narrow == Window <= Size /\ Window <= MaxWaiting

Init ==
  /\ InitConsumer
  /\ sent = 0 /\ transit = {} /\ lost = {} /\ q = EmptyQueue /\ ran = <<>>

\* The page: a gesture begins when the messages of the last one are there or lost.
Send ==
  /\ sent < Len(Kinds)
  /\ Kinds[sent + 1] = "start" => transit = {}
  /\ sent' = sent + 1 /\ transit' = transit \cup {sent + 1}
  /\ UNCHANGED <<c, faults, lost, q, ran>>

Lose(m) ==
  /\ m \in transit /\ Cardinality(lost) < MaxLost
  /\ transit' = transit \ {m} /\ lost' = lost \cup {m}
  /\ UNCHANGED <<c, faults, sent, q, ran>>

\* The router hands the message to the queue, and the handlers it runs to the consumer.
Touches(consumer, messages) ==
  LET touched[i \in 0..Len(messages)] ==
        IF i = 0 THEN consumer
        ELSE IF Kinds[messages[i]] = "touch" THEN QueueWrite(touched[i - 1], messages[i])
        ELSE touched[i - 1]
  IN touched[Len(messages)]
Queued(m) ==
  IF Kinds[m] = "start" THEN StartQueue(q, SeqOf(m))
  ELSE PushHandler(q, SeqOf(m), [message |-> m, stops |-> Kinds[m] = "stop"])
Deliver(m) ==
  /\ Alive /\ m \in transit /\ \A n \in transit : m < n + Window
  /\ transit' = transit \ {m}
  /\ q' = [Queued(m) EXCEPT !.ran = <<>>]
  /\ ran' = ran \o Queued(m).ran
  /\ c' = Touches(c, Queued(m).ran)
  /\ UNCHANGED <<faults, sent, lost>>

NoMessage == UNCHANGED <<sent, transit, lost, q, ran>>

Next ==
  \/ Send
  \/ \E m \in Messages : Lose(m) \/ Deliver(m)
  \/ ConsumerNext /\ NoMessage

\* What startState() and _stop() await comes or is given up, and then they go on; the
\* page may stop to send, and the network to deliver, at any time.
ConsumerProgress ==
  \/ ServiceStarted \/ Connected \/ BannerRead \/ Immediate
  \/ (c.output = "ending" /\ OutputEnds) \/ (c.socket = "ending" /\ SocketEnds)
  \/ \E who \in Stoppers : Disconnected(who) \/ ServiceStopped(who)
Fairness == WF_vars(ConsumerProgress /\ NoMessage)
Spec == Init /\ [][Next]_vars /\ Fairness

-----------------------------------------------------------------------------
(* Properties.                                                             *)

Consumers ==
  [running : {STOPPED, STARTING, STARTED, STOPPING},
   desired : {d \in UNION {[1..n -> Wishes] : n \in 0..2} : IsStateQueue(d)},
   lock : BOOLEAN, start : {"none", "service", "connect", "banner", "failing"},
   stops : [Stoppers -> {NoStop, "socket", "output"}],
   output : Streams, socket : Streams, banner : BOOLEAN, leaked : Nat,
   immediates : 0..3, fails : 0..FailLimit, dead : BOOLEAN,
   writeQueue : Seq(Messages), written : Seq(Messages)]
TypeOK ==
  /\ c \in Consumers /\ faults \in 0..MaxFaults
  /\ sent \in 0..Len(Kinds) /\ transit \subseteq 1..sent /\ lost \subseteq 1..sent
  /\ q.lo \in 0..Size /\ q.waiting \in Nat /\ q.locked \in BOOLEAN /\ q.ran = <<>>

Increasing(messages) ==
  \A i, j \in DOMAIN messages : i < j => messages[i] < messages[j]

\* The queue undoes what the network does to the order: the handlers that have run are
\* those of the messages sent first, each once, without a gap (SeqQueue).  It is not
\* so once one is lost, see below.
RunInOrder ==
  lost = {} =>
  /\ Increasing(ran)
  /\ \A i \in DOMAIN ran : \A m \in Handled : m < ran[i] => \E j \in 1..i : ran[j] = m

\* When everything has arrived every handler has run and the queue is empty and locked
\* again, so that nothing of one gesture is left for the next (stop, waiting).
GestureLeavesNothing ==
  Alive /\ lost = {} /\ transit = {} /\ (sent = 0 \/ Kinds[sent] = "stop") =>
    /\ \A m \in Handled : m <= sent => \E i \in DOMAIN ran : ran[i] = m
    /\ q.locked /\ q.waiting = 0

\* The touches that reach minitouch reach it in the order they were made, whether they
\* waited for a start or not and however often it was restarted (_queueWrite).
DeviceInOrder == lost = {} => Increasing(c.written)

\* Nothing is under way in the consumer.
ConsumerRests ==
  c.start = "none" /\ c.immediates = 0 /\ \A w \in Stoppers : c.stops[w] = NoStop

\* A consumer at rest runs, with both streams and without a wish left; for its streams
\* may end at any moment of a start, a stop or a restart, and several at a time.
RestsStarted ==
  Alive /\ ConsumerRests =>
    /\ c.running = STARTED /\ c.desired = <<>> /\ ~c.lock
    /\ c.output = "open" /\ c.socket = "open"


\* What does not hold.  Every touch reaches minitouch; when messages are lost those
\* that arrive run nevertheless, and in their order.
EveryTouchWritten ==
  Alive /\ ConsumerRests =>
    \A i \in DOMAIN ran : Kinds[ran[i]] = "touch" => \E j \in DOMAIN c.written : c.written[j] = ran[i]
ArrivedHasRun ==
  Alive /\ transit = {} /\ sent = Len(Kinds) =>
    \A m \in Handled \ lost : \E i \in DOMAIN ran : ran[i] = m
NoStaleHandler == Increasing(ran)
=============================================================================
