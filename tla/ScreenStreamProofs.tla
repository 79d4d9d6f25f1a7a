-------------------------- MODULE ScreenStreamProofs --------------------------
(***************************************************************************)
(* For any number of clients, changes and faults: a producer at rest is in *)
(* the state it was asked for last (RestsAtWish), the frames of a started  *)
(* stream are pulled (FramesArePulled) and its clients have been told of   *)
(* it (WatchersTold).                                                      *)
(*                                                                         *)
(* WishInv says in every state what the queue will make of the producer.   *)
(* StreamInv adds the frames and the clients, of which all but a few steps *)
(* know nothing (Alike): only the end of a start makes a producer STARTED. *)
(***************************************************************************)
EXTENDS ScreenStream, SequenceTheorems, TLAPS

\* The queues IsStateQueue() allows.
Queues == {q \in Seq(Wishes) : Len(q) <= 2 /\ (Len(q) = 2 => q[1] # q[2])}
LastOf(queue) == queue[Len(queue)]

\* The fields of a producer, without the bounds of the model.
Shape ==
  [scrcpy : BOOLEAN, running : {STOPPED, STARTING, STARTED, STOPPING},
   desired : Queues,
   start : {"none", "scrcpy", "service", "pid", "connect", "banner", "failing"},
   stop : {"none", "socket", "output"}, output : Streams, socket : Streams,
   pid : BOOLEAN, immediates : Nat, fails : Nat, dead : BOOLEAN,
   readable : BOOLEAN, needsReadable : BOOLEAN, pumps : Nat, endless : BOOLEAN]

\* A start is under way exactly in STARTING, a stop in STOPPING and after a failed start.
Coherent(r) ==
  /\ r.start # "none" <=> r.running = STARTING
  /\ r.stop # "none" <=> r.running = STOPPING \/ r.start = "failing"
  /\ r.start # "scrcpy"

\* The queue ends with the wish w; where it is empty the producer is, or is on its way
\* to, what was wished, or a start has failed (g).
Aimed(r, w, g) ==
  /\ r.desired # <<>> => LastOf(r.desired) = w
  /\ r.desired = <<>> =>
       /\ r.running = STARTED => w = STARTED
       /\ r.running = STARTING /\ r.start # "failing" => w = STARTED
       /\ r.start = "failing" => g
       /\ r.running = STOPPING => w = STOPPED
       /\ r.running = STOPPED => w = STOPPED \/ g

\* A queue that nothing under way will look at has its setImmediate().
Prompted(r) == r.desired # <<>> /\ r.running \in {STOPPED, STARTED} => r.immediates > 0

\* The inductive invariant.
Settled(r, w, g) == Coherent(r) /\ Aimed(r, w, g) /\ Prompted(r)
WishInv ==
  /\ p \in Shape /\ wish \in Wishes /\ gaveUp \in BOOLEAN
  /\ Alive /\ ~p.scrcpy => Settled(p, wish, gaveUp)

-----------------------------------------------------------------------------
(* The queue.                                                              *)

LEMMA UpToTwo ==
  /\ \A l \in Nat \ {0} : l <= 2 => l \in 1..2
  /\ \A l \in Nat : l + 1 = 2 => l = 1
  /\ \A n \in Nat : n <= 2 /\ 2 \in 1..n => n = 2
  /\ \A l \in Nat : l <= 2 /\ l # 2 => l <= 1
OBVIOUS

\* What is pushed comes last, and the queue keeps its form (StateQueue.push).
LEMMA PushLast ==
  ASSUME NEW q \in Queues, NEW s \in Wishes
  PROVE  /\ Push(q, s) \in Queues
         /\ Push(q, s) # <<>>
         /\ LastOf(Push(q, s)) = s
<1>1. CASE ~ \E i \in DOMAIN q : q[i] = s
  <2>1. Push(q, s) = Append(q, s)
    BY <1>1 DEF Push
  <2>2. Len(q) <= 1
    <3>1. Len(q) \in Nat /\ Len(q) <= 2 /\ (Len(q) = 2 => q[1] # q[2])
      BY DEF Queues
    <3>2. ASSUME Len(q) = 2 PROVE FALSE
      <4>1. q[1] \in Wishes /\ q[2] \in Wishes
        BY <3>2 DEF Queues
      <4>2. q[1] # s /\ q[2] # s
        BY <1>1, <3>2 DEF Queues
      <4> QED BY <3>1, <3>2, <4>1, <4>2 DEF Wishes
    <3> QED BY <3>1, <3>2, UpToTwo
  <2>3. /\ Len(Push(q, s)) = Len(q) + 1
        /\ Push(q, s)[Len(q) + 1] = s
        /\ Len(q) = 1 => Push(q, s)[1] = q[1]
    BY <2>1 DEF Queues
  <2>4. Len(q) \in Nat /\ (Len(q) = 1 => q[1] # s)
    BY <1>1 DEF Queues
  <2>8. Push(q, s) \in Seq(Wishes)
    BY <2>1 DEF Queues
  <2>5. Push(q, s) \in Queues
    <3>1. Len(Push(q, s)) <= 2
      BY <2>2, <2>3, <2>4
    <3>2. ASSUME Len(Push(q, s)) = 2 PROVE Push(q, s)[1] # Push(q, s)[2]
      <4>1. Len(q) = 1 /\ Len(q) + 1 = 2
        BY <2>3, <2>4, <3>2, UpToTwo
      <4> QED BY <2>3, <2>4, <4>1
    <3> QED BY <2>8, <3>1, <3>2 DEF Queues
  <2>6. Push(q, s) # <<>>
    BY <2>3, <2>4
  <2>7. LastOf(Push(q, s)) = s
    BY <2>3 DEF LastOf
  <2> QED BY <2>5, <2>6, <2>7
<1>2. CASE \E i \in DOMAIN q : q[i] = s
  <2>1. PICK f \in DOMAIN q : q[f] = s /\ \A j \in DOMAIN q : q[j] = s => f <= j
    BY <1>2 DEF Queues
  <2>2. FirstOf(q, s) \in DOMAIN q /\ q[FirstOf(q, s)] = s
    BY <2>1 DEF FirstOf
  <2>3. FirstOf(q, s) \in 1..Len(q) /\ Len(q) \in Nat
    BY <2>2 DEF Queues
  <2>9. q \in Seq(Wishes)
    BY DEF Queues
  <2>4. Push(q, s) = SubSeq(q, 1, FirstOf(q, s))
    BY <1>2 DEF Push
  <2>5. /\ Len(Push(q, s)) = FirstOf(q, s)
        /\ \A i \in 1..FirstOf(q, s) : Push(q, s)[i] = q[i]
    BY <2>3, <2>4, <2>9
  <2>10. Push(q, s) \in Seq(Wishes)
    BY <2>3, <2>4, <2>9
  <2>6. Push(q, s) \in Queues
    <3>1. Len(q) <= 2 /\ (Len(q) = 2 => q[1] # q[2])
      BY DEF Queues
    <3>2. Len(Push(q, s)) <= 2
      BY <2>3, <2>5, <3>1
    <3>3. ASSUME Len(Push(q, s)) = 2 PROVE Push(q, s)[1] # Push(q, s)[2]
      <4>1. FirstOf(q, s) = 2 /\ Len(q) = 2
        <5>1. FirstOf(q, s) = 2 /\ 2 \in 1..Len(q)
          BY <2>3, <2>5, <3>3
        <5> QED BY <2>3, <3>1, <5>1, UpToTwo
      <4>2. Push(q, s)[1] = q[1] /\ Push(q, s)[2] = q[2]
        BY <2>5, <4>1
      <4> QED BY <3>1, <4>1, <4>2
    <3> QED BY <2>10, <3>2, <3>3 DEF Queues
  <2>7. Push(q, s) # <<>>
    BY <2>3, <2>5
  <2>8. LastOf(Push(q, s)) = s
    BY <2>2, <2>3, <2>5 DEF LastOf
  <2> QED BY <2>6, <2>7, <2>8
<1> QED BY <1>1, <1>2

\* Taking the first state out of the queue leaves the last one, if any is left.
LEMMA TailLast ==
  ASSUME NEW q \in Queues, q # <<>>
  PROVE  /\ Tail(q) \in Queues /\ Head(q) \in Wishes
         /\ Tail(q) # <<>> => LastOf(Tail(q)) = LastOf(q)
         /\ Tail(q) = <<>> => Head(q) = LastOf(q)
<1>0. q \in Seq(Wishes) /\ Len(q) \in 1..2
  <2>1. q \in Seq(Wishes)
    BY DEF Queues
  <2>2. Len(q) <= 2
    BY DEF Queues
  <2>3. Len(q) \in Nat \ {0}
    BY <2>1, EmptySeq
  <2>4. Len(q) \in 1..2
    BY <2>2, <2>3, UpToTwo
  <2> QED BY <2>1, <2>4
<1>1. /\ Len(q) \in 1..2 /\ Head(q) = q[1] /\ q[1] \in Wishes
      /\ Tail(q) \in Seq(Wishes) /\ Len(Tail(q)) = Len(q) - 1
      /\ Len(q) = 2 => Tail(q)[1] = q[2]
  BY <1>0, HeadTailProperties
<1>2. Tail(q) = <<>> <=> Len(q) = 1
  BY <1>1, EmptySeq
<1> QED BY <1>1, <1>2 DEF Queues, LastOf

-----------------------------------------------------------------------------
(* The producer.                                                           *)

\* _ensureState() keeps what the queue says of the end, and leaves a setImmediate()
\* where it leaves something to do.
LEMMA EnsureSettles ==
  ASSUME NEW r \in Shape, NEW w \in Wishes, NEW g \in BOOLEAN
  PROVE  /\ EnsureState(r) \in Shape
         /\ EnsureState(r).scrcpy = r.scrcpy /\ EnsureState(r).dead = r.dead
         /\ ~r.scrcpy /\ Coherent(r) /\ Aimed(r, w, g) => Settled(EnsureState(r), w, g)
<1> DEFINE q == [r EXCEPT !.desired = Tail(@)]
<1> USE DEF STOPPED, STARTED, STARTING, STOPPING
<1>1. CASE r.desired = <<>> \/ r.running \in {STARTING, STOPPING}
  <2>1. EnsureState(r) = r
    BY <1>1 DEF EnsureState
  <2> QED BY <1>1, <2>1 DEF Settled, Prompted
<1>2. CASE r.desired # <<>> /\ r.running \in {STOPPED, STARTED}
  <2>1. /\ Tail(r.desired) \in Queues /\ Head(r.desired) \in Wishes
        /\ Tail(r.desired) # <<>> => LastOf(Tail(r.desired)) = LastOf(r.desired)
        /\ Tail(r.desired) = <<>> => Head(r.desired) = LastOf(r.desired)
    BY <1>2, TailLast DEF Shape
  <2>2. CASE Head(r.desired) = r.running
    <3>1. EnsureState(r) = [q EXCEPT !.immediates = @ + 1]
      BY <1>2, <2>2 DEF EnsureState
    <3>2. /\ EnsureState(r) \in Shape
          /\ EnsureState(r).scrcpy = r.scrcpy /\ EnsureState(r).dead = r.dead
          /\ EnsureState(r).immediates > 0
      <4>1. r.immediates \in Nat /\ r.immediates + 1 \in Nat /\ r.immediates + 1 > 0
        BY DEF Shape
      <4>2. EnsureState(r) = [r EXCEPT !.desired = Tail(@), !.immediates = r.immediates + 1]
        BY <3>1 DEF Shape
      <4> QED BY <2>1, <4>1, <4>2 DEF Shape
    <3>3. Coherent(r) => Coherent(EnsureState(r))
      BY <2>1, <3>1 DEF Shape, Coherent
    <3>4. EnsureState(r).desired = Tail(r.desired) /\ EnsureState(r).running = r.running
          /\ EnsureState(r).start = r.start
      BY <3>1 DEF Shape
    <3>5. Coherent(r) /\ Aimed(r, w, g) => Aimed(EnsureState(r), w, g)
      BY <1>2, <2>1, <2>2, <3>4 DEF Coherent, Aimed
    <3> QED BY <3>2, <3>3, <3>5 DEF Settled, Prompted
  <2>3. CASE Head(r.desired) # r.running /\ Head(r.desired) = STARTED
    <3>1. EnsureState(r) = [q EXCEPT !.running = STARTING,
                                     !.start = IF r.scrcpy THEN "scrcpy" ELSE "service"]
      BY <1>2, <2>3 DEF EnsureState
    <3> QED BY <1>2, <2>1, <2>3, <3>1 DEF Shape, Settled, Coherent, Aimed, Prompted, Wishes
  <2>4. CASE Head(r.desired) # r.running /\ Head(r.desired) # STARTED
    <3>1. EnsureState(r) = [q EXCEPT !.running = STOPPING, !.stop = "socket"]
      BY <1>2, <2>4 DEF EnsureState
    <3> QED BY <1>2, <2>1, <2>4, <3>1 DEF Shape, Settled, Coherent, Aimed, Prompted, Wishes
  <2> QED BY <2>2, <2>3, <2>4
<1> QED BY <1>1, <1>2 DEF Shape

\* A wish makes the queue end with it, whatever was asked before.
LEMMA RequestSettles ==
  ASSUME NEW r \in Shape, NEW w \in Wishes, NEW g \in BOOLEAN
  PROVE  /\ Request(r, w) \in Shape
         /\ Request(r, w).scrcpy = r.scrcpy /\ Request(r, w).dead = r.dead
         /\ ~r.scrcpy /\ Coherent(r) => Settled(Request(r, w), w, g)
<1> DEFINE q == [r EXCEPT !.desired = Push(@, w)]
<1>1. Push(r.desired, w) \in Queues /\ Push(r.desired, w) # <<>> /\ LastOf(Push(r.desired, w)) = w
  BY PushLast DEF Shape
<1>2. q \in Shape /\ q.scrcpy = r.scrcpy /\ q.dead = r.dead
  BY <1>1 DEF Shape
<1>3. Coherent(r) => Coherent(q) /\ Aimed(q, w, g)
  BY <1>1 DEF Shape, Coherent, Aimed
<1>4. Request(r, w) = EnsureState(q)
  BY DEF Request
<1> QED BY <1>2, <1>3, <1>4, EnsureSettles

\* A restart is a wish to be started, of a producer that runs or is about to.
LEMMA RestartSettles ==
  ASSUME NEW r \in Shape, NEW g \in BOOLEAN
  PROVE  /\ Restart(r) \in Shape
         /\ Restart(r).scrcpy = r.scrcpy /\ Restart(r).dead = r.dead
         /\ Restarts(r) /\ ~r.scrcpy /\ Coherent(r) => Settled(Restart(r), STARTED, g)
         /\ ~Restarts(r) => Restart(r) = r
<1> DEFINE first == Push(r.desired, STOPPED)
           q == [r EXCEPT !.desired = first]
<1>1. STOPPED \in Wishes /\ STARTED \in Wishes
  BY DEF Wishes
<1>2. first \in Queues
  BY <1>1, PushLast DEF Shape
<1>3. q \in Shape /\ q.scrcpy = r.scrcpy /\ q.dead = r.dead /\ (Coherent(r) => Coherent(q))
  BY <1>2 DEF Shape, Coherent
<1>4. Restarts(r) => Restart(r) = Request(q, STARTED)
  BY DEF Restart, Request, Shape
<1>5. ~Restarts(r) => Restart(r) = r
  BY DEF Restart
<1> QED BY <1>1, <1>3, <1>4, <1>5, RequestSettles

\* Two producers that differ in nothing the invariant looks at.
Same(r, q) ==
  /\ q.scrcpy = r.scrcpy /\ q.running = r.running /\ q.desired = r.desired
  /\ q.start = r.start /\ q.stop = r.stop /\ q.immediates = r.immediates /\ q.dead = r.dead

LEMMA SameSettles ==
  ASSUME NEW r, NEW q, Same(r, q), NEW w, NEW g
  PROVE  /\ Settled(r, w, g) => Settled(q, w, g)
         /\ Coherent(r) => Coherent(q)
         /\ Aimed(r, w, g) => Aimed(q, w, g)
BY DEF Same, Settled, Coherent, Aimed, Prompted

\* Frames change nothing of what is asked for and of what is under way.
LEMMA FramesSame ==
  ASSUME NEW r \in Shape, NEW hasFrame \in BOOLEAN
  PROVE  /\ NextFrame(r, hasFrame) \in Shape /\ Same(r, NextFrame(r, hasFrame))
         /\ Readable(r, hasFrame) \in Shape /\ Same(r, Readable(r, hasFrame))
<1>1. ASSUME NEW x \in Shape
      PROVE  NextFrame(x, hasFrame) \in Shape /\ Same(x, NextFrame(x, hasFrame))
  <2>1. x.pumps + 1 \in Nat
    BY DEF Shape
  <2> QED BY <2>1 DEF NextFrame, Shape, Same
<1>2. [r EXCEPT !.readable = TRUE] \in Shape /\ Same(r, [r EXCEPT !.readable = TRUE])
  BY DEF Shape, Same
<1>3. /\ [[r EXCEPT !.readable = TRUE] EXCEPT !.needsReadable = FALSE] \in Shape
      /\ Same(r, [[r EXCEPT !.readable = TRUE] EXCEPT !.needsReadable = FALSE])
  BY DEF Shape, Same
<1>4. Readable(r, hasFrame) \in Shape /\ Same(r, Readable(r, hasFrame))
  BY <1>1, <1>2, <1>3 DEF Readable, Same
<1> QED BY <1>1, <1>4

\* A failure counted is no change either, but for the worker's end.
LEMMA IncKeeps ==
  ASSUME NEW r \in Shape
  PROVE  /\ Inc(r) \in Shape
         /\ Inc(r).scrcpy = r.scrcpy
         /\ Same(r, [Inc(r) EXCEPT !.dead = r.dead])
         /\ Inc(r).dead \/ Same(r, Inc(r))
<1>1. r.fails + 1 \in Nat
  BY DEF Shape
<1> QED BY <1>1 DEF Inc, Shape, Same

\* The end of a stop, with the state that was asked for while it went on.
LEMMA StoppedSettles ==
  ASSUME NEW r \in Shape, NEW w \in Wishes, NEW g \in BOOLEAN,
         r.stop = "output"
  PROVE  /\ Stopped(r) \in Shape
         /\ Stopped(r).scrcpy = r.scrcpy
         /\ ~r.scrcpy /\ Settled(r, w, g) => Stopped(r).dead \/ Settled(Stopped(r), w, g)
<1> DEFINE q == [r EXCEPT !.running = STOPPED, !.stop = "none", !.output = "none",
                          !.socket = "none", !.pid = FALSE, !.start = "none"]
           f == IF r.start = "failing" THEN Inc(q) ELSE q
<1>1. q \in Shape /\ q.scrcpy = r.scrcpy
  BY DEF Shape, Streams
<1>2. Settled(r, w, g) => Coherent(q) /\ Aimed(q, w, g)
  BY DEF Shape, Settled, Coherent, Aimed, STOPPED, STARTED, STARTING, STOPPING, Streams
<1>3. f \in Shape /\ f.scrcpy = r.scrcpy /\ (f.dead \/ Same(q, f))
  BY <1>1, IncKeeps DEF Same
<1>4. Stopped(r) = EnsureState(f)
  BY DEF Stopped
<1>5. Settled(r, w, g) => f.dead \/ (Coherent(f) /\ Aimed(f, w, g))
  BY <1>2, <1>3, SameSettles
<1> QED BY <1>3, <1>4, <1>5, EnsureSettles

-----------------------------------------------------------------------------
(* The invariant.                                                          *)

LEMMA WishInit == ScreenStreamAssumption /\ Init => WishInv
<1>1. <<>> \in Queues
  <2>1. Len(<<>>) = 0 /\ <<>> \in Seq(Wishes)
    BY EmptySeq
  <2> QED BY <2>1 DEF Queues
<1>2. SUFFICES ASSUME ScreenStreamAssumption, Init PROVE WishInv
  OBVIOUS
<1>3. PICK scrcpy \in BOOLEAN :
        p = [scrcpy |-> scrcpy, running |-> STOPPED, desired |-> <<>>, start |-> "none",
             stop |-> "none", output |-> "none", socket |-> "none", pid |-> FALSE,
             immediates |-> 0, fails |-> 0, dead |-> FALSE, readable |-> FALSE,
             needsReadable |-> FALSE, pumps |-> 0, endless |-> FALSE]
  BY <1>2 DEF Init, ScreenStreamAssumption
<1>4. p \in Shape
  BY <1>1, <1>3 DEF Shape, Streams
<1>5. Settled(p, STOPPED, FALSE)
  BY <1>3 DEF Settled, Coherent, Aimed, Prompted, STOPPED, STARTED, STARTING, STOPPING
<1> QED BY <1>2, <1>4, <1>5 DEF Init, WishInv, Wishes

\* The steps of a producer that change neither wish nor gaveUp nor its queue.
LEMMA QuietStep ==
  ASSUME WishInv,
         \/ ServiceStarted \/ PidRead \/ PidKnown \/ Connected \/ Disconnected
         \/ DisconnectTimeout \/ Forget
  PROVE  WishInv'
<1> USE DEF Inside, Expected, Fault, Alive, WishInv
<1>0. p \in Shape /\ p.fails \in Nat
  BY DEF Shape
<1>1. ASSUME ServiceStarted PROVE WishInv'
  BY <1>0, <1>1 DEF ServiceStarted, Shape, Streams, Settled, Coherent, Aimed, Prompted
<1>2. ASSUME PidRead PROVE WishInv'
  BY <1>0, <1>2 DEF PidRead, Shape, Settled, Coherent, Aimed, Prompted
<1>3. ASSUME PidKnown PROVE WishInv'
  BY <1>0, <1>3 DEF PidKnown, Shape, Settled, Coherent, Aimed, Prompted
<1>4. ASSUME Connected PROVE WishInv'
  BY <1>0, <1>4 DEF Connected, Shape, Streams, Settled, Coherent, Aimed, Prompted
<1>5. ASSUME Disconnected PROVE WishInv'
  BY <1>0, <1>5 DEF Disconnected, Shape, Settled, Coherent, Aimed, Prompted
<1>6. ASSUME DisconnectTimeout PROVE WishInv'
  BY <1>0, <1>6 DEF DisconnectTimeout, Shape
<1>7. ASSUME Forget PROVE WishInv'
  <2>1. p.fails - 1 \in Nat
    BY <1>0, <1>7 DEF Forget
  <2> QED BY <1>0, <1>7, <2>1 DEF Forget, Shape, Settled, Coherent, Aimed, Prompted
<1> QED BY <1>1, <1>2, <1>3, <1>4, <1>5, <1>6, <1>7

\* The steps that pull frames.
LEMMA FrameStep ==
  ASSUME WishInv, Data \/ Pump
  PROVE  WishInv'
<1> USE DEF Inside, Expected, Alive, WishInv
<1>1. ASSUME Data PROVE WishInv'
  <2>1. PICK hasFrame \in BOOLEAN : p' = Readable(p, hasFrame)
    BY <1>1 DEF Data
  <2>2. p' \in Shape /\ Same(p, p')
    BY <2>1, FramesSame
  <2> QED BY <1>1, <2>2, SameSettles DEF Data, Same
<1>2. ASSUME Pump PROVE WishInv'
  <2> DEFINE r == [p EXCEPT !.pumps = @ - 1]
  <2>1. PICK hasFrame \in BOOLEAN : p' = NextFrame(r, hasFrame)
    BY <1>2 DEF Pump
  <2>2. p.pumps - 1 \in Nat
    BY <1>2 DEF Pump, Shape
  <2>3. r \in Shape /\ Same(p, r)
    BY <2>2 DEF Shape, Same
  <2>4. p' \in Shape /\ Same(p, p')
    BY <2>1, <2>3, FramesSame DEF Same
  <2> QED BY <1>2, <2>4, SameSettles DEF Pump, Same
<1> QED BY <1>1, <1>2

\* The start: its end in BannerRead and ScrcpyStarted, and its failures.
LEMMA StartStep ==
  ASSUME WishInv, BannerRead \/ StartFails \/ ScrcpyStarted \/ ScrcpyFails
  PROVE  WishInv'
<1> USE DEF Expected, Fault, Alive, WishInv
<1>1. ASSUME BannerRead PROVE WishInv'
  <2>1. PICK hasFrame \in BOOLEAN : p' = Started(p, hasFrame)
    BY <1>1 DEF BannerRead
  <2> DEFINE r == [p EXCEPT !.needsReadable = TRUE]
             q == Readable(r, hasFrame)
             f == [q EXCEPT !.start = "none", !.running = STARTED]
  <2>2. r \in Shape /\ Same(p, r)
    BY DEF Shape, Same
  <2>3. q \in Shape /\ Same(p, q)
    BY <2>2, FramesSame DEF Same
  <2>4. f \in Shape /\ f.scrcpy = p.scrcpy /\ f.dead = p.dead
    BY <2>3 DEF Shape, Same, STARTED
  <2>5. ~p.scrcpy => Coherent(f) /\ Aimed(f, wish, gaveUp)
    BY <1>1, <2>3 DEF BannerRead, Settled, Shape, Same, Coherent, Aimed,
                      STOPPED, STARTED, STARTING, STOPPING
  <2>6. p' = EnsureState(f)
    BY <2>1 DEF Started
  <2> QED BY <1>1, <2>4, <2>5, <2>6, EnsureSettles DEF BannerRead
<1>2. ASSUME StartFails PROVE WishInv'
  <2>1. p' \in Shape /\ wish' = wish /\ gaveUp' = TRUE
    BY <1>2 DEF StartFails, Shape
  <2>2. Settled(p, wish, gaveUp) => Settled(p', wish, TRUE)
    BY <1>2 DEF StartFails, Shape, Settled, Coherent, Aimed, Prompted,
                STOPPED, STARTED, STARTING, STOPPING
  <2> QED BY <1>2, <2>1, <2>2 DEF StartFails, Shape
<1>3. ASSUME ScrcpyStarted PROVE WishInv'
  BY <1>3 DEF ScrcpyStarted, Shape, Settled, Coherent
<1>4. ASSUME ScrcpyFails PROVE WishInv'
  BY <1>4 DEF ScrcpyFails, Shape, Settled, Coherent
<1> QED BY <1>1, <1>2, <1>3, <1>4

\* Wishes: the first client, the last one, and a new configuration.
LEMMA WishStep ==
  ASSUME WishInv, (\E c \in Clients : Insert(c) \/ Remove(c)) \/ ConfigChanged
  PROVE  WishInv'
<1> USE DEF Alive, WishInv
<1>0. STOPPED \in Wishes /\ STARTED \in Wishes
  BY DEF Wishes
<1>1. ASSUME NEW c \in Clients, Insert(c) PROVE WishInv'
  BY <1>0, <1>1, RequestSettles DEF Insert, Settled
<1>2. ASSUME NEW c \in Clients, Remove(c) PROVE WishInv'
  BY <1>0, <1>2, RequestSettles DEF Remove, Settled
<1>3. ASSUME ConfigChanged PROVE WishInv'
  BY <1>0, <1>3, RestartSettles DEF ConfigChanged, RestartWish, Settled
<1> QED BY <1>1, <1>2, <1>3

\* Streams that end, expected or not, and the end of a stop.
LEMMA EndStep ==
  ASSUME WishInv, OutputEnds \/ SocketEnds \/ ServiceStopped \/ Immediate
  PROVE  WishInv'
<1> USE DEF Expected, Fault, Alive, WishInv
<1>0. ASSUME NEW r \in Shape, Same(p, r), UnexpectedEnd(r), ~p.dead
      PROVE  WishInv'
  <2>1. STARTED \in Wishes
    BY DEF Wishes
  <2>2. Inc(r) \in Shape /\ Inc(r).scrcpy = p.scrcpy /\ (Inc(r).dead \/ Same(p, Inc(r)))
        /\ (Restarts(Inc(r)) <=> Restarts(p))
    BY <1>0, IncKeeps DEF Same, Restarts
  <2>3. p' = Restart(Inc(r)) /\ RestartWish
    BY <1>0 DEF UnexpectedEnd
  <2>4. wish' \in Wishes /\ gaveUp' \in BOOLEAN
    BY <2>1, <2>3 DEF RestartWish
  <2>5. CASE Restarts(p)
    BY <1>0, <2>1, <2>2, <2>3, <2>4, <2>5, RestartSettles, SameSettles DEF RestartWish, Settled
  <2>6. CASE ~Restarts(p)
    BY <1>0, <2>2, <2>3, <2>4, <2>6, RestartSettles, SameSettles DEF RestartWish
  <2> QED BY <2>5, <2>6
<1>1. ASSUME OutputEnds PROVE WishInv'
  <2> DEFINE r == [p EXCEPT !.output = "ended"]
  <2>1. r \in Shape /\ Same(p, r)
    BY DEF Shape, Same, Streams
  <2>2. CASE p.stop = "output"
    <3>1. p' = r /\ wish' = wish /\ gaveUp' = gaveUp /\ ~p.dead
      BY <1>1, <2>2 DEF OutputEnds
    <3>2. Settled(p, wish, gaveUp) => Settled(r, wish, gaveUp)
      BY <2>1, SameSettles
    <3> HIDE DEF r
    <3> QED BY <2>1, <3>1, <3>2 DEF Same
  <2>3. CASE p.stop # "output"
    <3>1. UnexpectedEnd(r) /\ ~p.dead
      BY <1>1, <2>3 DEF OutputEnds
    <3> HIDE DEF r
    <3> QED BY <1>0, <2>1, <3>1
  <2> QED BY <2>2, <2>3
<1>2. ASSUME SocketEnds PROVE WishInv'
  <2> DEFINE r == [p EXCEPT !.socket = "ended"]
  <2>1. r \in Shape /\ Same(p, r)
    BY DEF Shape, Same, Streams
  <2>2. CASE p.stop = "socket"
    <3>1. p' = r /\ wish' = wish /\ gaveUp' = gaveUp /\ ~p.dead
      BY <1>2, <2>2 DEF SocketEnds
    <3>2. Settled(p, wish, gaveUp) => Settled(r, wish, gaveUp)
      BY <2>1, SameSettles
    <3> HIDE DEF r
    <3> QED BY <2>1, <3>1, <3>2 DEF Same
  <2>3. CASE p.stop # "socket"
    <3>1. UnexpectedEnd(r) /\ ~p.dead
      BY <1>2, <2>3 DEF SocketEnds
    <3> HIDE DEF r
    <3> QED BY <1>0, <2>1, <3>1
  <2> QED BY <2>2, <2>3
<1>3. ASSUME ServiceStopped PROVE WishInv'
  BY <1>3, StoppedSettles DEF ServiceStopped
<1>4. ASSUME Immediate PROVE WishInv'
  <2> DEFINE r == [p EXCEPT !.immediates = @ - 1]
  <2>1. p.immediates - 1 \in Nat
    BY <1>4 DEF Immediate, Shape
  <2>2. r \in Shape /\ r.scrcpy = p.scrcpy /\ r.dead = p.dead
    BY <2>1 DEF Shape
  <2>3. Settled(p, wish, gaveUp) => Coherent(r) /\ Aimed(r, wish, gaveUp)
    BY DEF Shape, Settled, Coherent, Aimed
  <2> QED BY <1>4, <2>2, <2>3, EnsureSettles DEF Immediate, Inside
<1> QED BY <1>1, <1>2, <1>3, <1>4

LEMMA WishStutter == WishInv /\ UNCHANGED vars => WishInv'
BY DEF WishInv, vars, Alive

\* The state asked for last is never forgotten: RestsAtWish, which the run screen checks
\* on two clients, for every number of clients and every course of faults
\* (FrameProducer._ensureState, StateQueue).
THEOREM RestsAtWishAlways == ScreenStreamAssumption /\ Spec => []RestsAtWish
<1>1. ScreenStreamAssumption /\ Init => WishInv
  BY WishInit
<1>2. WishInv /\ [Next]_vars => WishInv'
  BY QuietStep, FrameStep, StartStep, WishStep, EndStep, WishStutter DEF Next
<1>3. WishInv => RestsAtWish
  <2> SUFFICES ASSUME WishInv, ~p.scrcpy, Alive, Rests
               PROVE  p.desired = <<>> /\ (p.running = wish \/ gaveUp)
    BY DEF RestsAtWish
  <2>1. p \in Shape /\ Settled(p, wish, gaveUp)
    BY DEF WishInv
  <2>2. p.running \in {STOPPED, STARTED} /\ p.immediates = 0
    BY <2>1 DEF Rests, Settled, Coherent, Shape
  <2> QED BY <2>1, <2>2 DEF Settled, Aimed, Prompted, STOPPED, STARTED
<1> QED BY <1>1, <1>2, <1>3, PTL DEF Spec

-----------------------------------------------------------------------------
(* The frames and the clients.                                             *)

\* What asks for states and ends streams starts nothing at once, and pulls no frames.
Alike(r, q) ==
  /\ q.scrcpy = r.scrcpy /\ q.needsReadable = r.needsReadable /\ q.pumps = r.pumps
  /\ q.running = STARTED => r.running = STARTED

LEMMA AlikeTwice ==
  ASSUME NEW r, NEW q, NEW s, Alike(r, q), Alike(q, s)
  PROVE  Alike(r, s)
BY DEF Alike

LEMMA EnsureAlike ==
  ASSUME NEW r \in Shape
  PROVE  Alike(r, EnsureState(r))
<1>1. r.immediates + 1 \in Nat
  BY DEF Shape
<1> QED BY <1>1 DEF EnsureState, Shape, Alike, STOPPED, STARTED, STARTING, STOPPING

LEMMA RequestAlike ==
  ASSUME NEW r \in Shape, NEW state \in Wishes
  PROVE  Alike(r, Request(r, state))
<1> DEFINE q == [r EXCEPT !.desired = Push(@, state)]
<1>1. Push(r.desired, state) \in Queues
  BY PushLast DEF Shape
<1>2. q \in Shape /\ Alike(r, q)
  BY <1>1 DEF Shape, Alike
<1>3. Request(r, state) = EnsureState(q)
  BY DEF Request
<1> HIDE DEF q
<1> QED BY <1>2, <1>3, EnsureAlike, AlikeTwice

LEMMA RestartAlike ==
  ASSUME NEW r \in Shape
  PROVE  Alike(r, Restart(r))
<1> DEFINE first == Push(r.desired, STOPPED)
           q == [r EXCEPT !.desired = first]
<1>1. STOPPED \in Wishes /\ STARTED \in Wishes
  BY DEF Wishes
<1>2. first \in Queues
  BY <1>1, PushLast DEF Shape
<1>3. q \in Shape /\ Alike(r, q)
  BY <1>2 DEF Shape, Alike
<1>4. Restarts(r) => Restart(r) = Request(q, STARTED)
  BY DEF Restart, Request, Shape
<1>5. ~Restarts(r) => Restart(r) = r
  BY DEF Restart
<1> HIDE DEF first, q
<1>6. Alike(r, Request(q, STARTED))
  BY <1>1, <1>3, RequestAlike, AlikeTwice
<1> QED BY <1>4, <1>5, <1>6 DEF Alike

LEMMA IncAlike ==
  ASSUME NEW r \in Shape
  PROVE  Inc(r) \in Shape /\ Alike(r, Inc(r))
<1>1. Inc(r) \in Shape
  BY IncKeeps
<1> QED BY <1>1 DEF Inc, Shape, Alike

LEMMA StoppedAlike ==
  ASSUME NEW r \in Shape
  PROVE  Alike(r, Stopped(r)) /\ Stopped(r).running # STARTED
<1> DEFINE q == [r EXCEPT !.running = STOPPED, !.stop = "none", !.output = "none",
                          !.socket = "none", !.pid = FALSE, !.start = "none"]
           f == IF r.start = "failing" THEN Inc(q) ELSE q
<1>1. q \in Shape /\ Alike(r, q) /\ q.running = STOPPED
  BY DEF Shape, Streams, Alike, STOPPED, STARTED
<1> HIDE DEF q
<1>2. f \in Shape /\ Alike(q, f)
  BY <1>1, IncAlike DEF Alike
<1>3. Stopped(r) = EnsureState(f)
  BY DEF Stopped, q
<1> HIDE DEF f
<1>4. Alike(q, Stopped(r))
  BY <1>2, <1>3, EnsureAlike, AlikeTwice
<1> QED BY <1>1, <1>4, AlikeTwice DEF Alike, STOPPED, STARTED

\* The frames of a started stream are pulled.
Pulled(r) == ~r.scrcpy /\ r.running = STARTED => r.needsReadable \/ r.pumps > 0

LEMMA AlikePulled ==
  ASSUME NEW r, NEW q, Pulled(r), Alike(r, q)
  PROVE  Pulled(q)
BY DEF Pulled, Alike

\* The loop goes on or waits for 'readable', whatever it finds.
LEMMA NextPulled ==
  ASSUME NEW r \in Shape, NEW hasFrame \in BOOLEAN
  PROVE  /\ NextFrame(r, hasFrame).needsReadable \/ NextFrame(r, hasFrame).pumps > 0
         /\ r.needsReadable \/ r.pumps > 0
              => Readable(r, hasFrame).needsReadable \/ Readable(r, hasFrame).pumps > 0
<1>1. ASSUME NEW x \in Shape
      PROVE  NextFrame(x, hasFrame).needsReadable \/ NextFrame(x, hasFrame).pumps > 0
  <2>1. x.pumps + 1 > 0
    BY DEF Shape
  <2> QED BY <2>1 DEF NextFrame, Shape
<1> DEFINE q == [r EXCEPT !.readable = TRUE]
           f == [q EXCEPT !.needsReadable = FALSE]
<1>2. /\ q \in Shape /\ f \in Shape
      /\ q.needsReadable = r.needsReadable /\ q.pumps = r.pumps
  BY DEF Shape
<1>3. Readable(r, hasFrame) = IF q.needsReadable THEN NextFrame(f, hasFrame) ELSE q
  BY DEF Readable
<1> HIDE DEF q, f
<1> QED BY <1>1, <1>2, <1>3

StreamInv == WishInv /\ Pulled(p) /\ WatchersTold

\* The steps of the producer that leave frames and clients alone.
LEMMA AlikeStep ==
  ASSUME StreamInv, Alike(p, p'), UNCHANGED <<clients, told>>
  PROVE  Pulled(p') /\ WatchersTold'
BY AlikePulled DEF StreamInv, Alike, WatchersTold

LEMMA StreamQuietStep ==
  ASSUME StreamInv,
         \/ ServiceStarted \/ PidRead \/ PidKnown \/ Connected \/ Disconnected
         \/ DisconnectTimeout \/ Forget \/ StartFails \/ ScrcpyFails
  PROVE  Pulled(p') /\ WatchersTold'
<1>1. p \in Shape
  BY DEF StreamInv, WishInv
<1>2. UNCHANGED <<clients, told>>
  BY DEF ServiceStarted, PidRead, PidKnown, Connected, Disconnected, DisconnectTimeout, Forget,
         StartFails, ScrcpyFails, Inside
<1>3. Alike(p, p')
  BY <1>1 DEF ServiceStarted, PidRead, PidKnown, Connected, Disconnected, DisconnectTimeout,
              Forget, StartFails, ScrcpyFails, Shape, Alike
<1> QED BY <1>2, <1>3, AlikeStep

LEMMA StreamFrameStep ==
  ASSUME StreamInv, Data \/ Pump
  PROVE  Pulled(p') /\ WatchersTold'
<1>1. p \in Shape /\ UNCHANGED <<clients, told>>
  BY DEF StreamInv, WishInv, Data, Pump, Inside
<1>2. ASSUME Data PROVE Same(p, p') /\ Pulled(p')
  <2>1. PICK hasFrame \in BOOLEAN : p' = Readable(p, hasFrame)
    BY <1>2 DEF Data
  <2>2. Same(p, p')
    BY <1>1, <2>1, FramesSame
  <2> QED BY <1>1, <2>1, <2>2, NextPulled DEF StreamInv, Pulled, Same
<1>3. ASSUME Pump PROVE Same(p, p') /\ Pulled(p')
  <2> DEFINE r == [p EXCEPT !.pumps = @ - 1]
  <2>1. PICK hasFrame \in BOOLEAN : p' = NextFrame(r, hasFrame)
    BY <1>3 DEF Pump
  <2>2. p.pumps - 1 \in Nat
    BY <1>1, <1>3 DEF Pump, Shape
  <2>3. r \in Shape /\ Same(p, r)
    BY <1>1, <2>2 DEF Shape, Same
  <2> HIDE DEF r
  <2>4. Same(p, p')
    BY <2>1, <2>3, FramesSame DEF Same
  <2> QED BY <2>1, <2>3, <2>4, NextPulled DEF Pulled
<1>4. Same(p, p') /\ Pulled(p')
  BY <1>2, <1>3
<1> QED BY <1>1, <1>4 DEF StreamInv, WatchersTold, Same

\* A stream that has started: every client is told, and frames are asked for.
LEMMA StreamStartStep ==
  ASSUME StreamInv, BannerRead \/ ScrcpyStarted
  PROVE  Pulled(p') /\ WatchersTold'
<1>1. p \in Shape /\ told' = clients /\ clients' = clients
  BY DEF StreamInv, WishInv, BannerRead, ScrcpyStarted
<1>2. ASSUME BannerRead PROVE Pulled(p')
  <2>1. PICK hasFrame \in BOOLEAN : p' = Started(p, hasFrame)
    BY <1>2 DEF BannerRead
  <2> DEFINE r == [p EXCEPT !.needsReadable = TRUE]
             q == Readable(r, hasFrame)
             f == [q EXCEPT !.start = "none", !.running = STARTED]
  <2>2. r \in Shape /\ r.needsReadable
    BY <1>1 DEF Shape
  <2>3. p' = EnsureState(f)
    BY <2>1 DEF Started
  <2> HIDE DEF r
  <2>4. q \in Shape /\ (q.needsReadable \/ q.pumps > 0)
    BY <2>2, FramesSame, NextPulled
  <2> HIDE DEF q
  <2>5. f \in Shape /\ Pulled(f)
    BY <2>4 DEF Shape, Pulled, STARTED
  <2> HIDE DEF f
  <2> QED BY <2>3, <2>5, EnsureAlike, AlikePulled
<1>3. ASSUME ScrcpyStarted PROVE Pulled(p')
  <2>1. p.scrcpy
    BY <1>3 DEF ScrcpyStarted, StreamInv, WishInv, Settled, Coherent
  <2> QED BY <1>1, <1>3, <2>1 DEF ScrcpyStarted, Shape, Pulled
<1> QED BY <1>1, <1>2, <1>3 DEF WatchersTold

\* Clients that come and go.
LEMMA StreamClientStep ==
  ASSUME StreamInv, NEW c \in Clients, Insert(c) \/ Remove(c)
  PROVE  Pulled(p') /\ WatchersTold'
<1>1. p \in Shape /\ STARTED \in Wishes /\ STOPPED \in Wishes
  BY DEF StreamInv, WishInv, Wishes
<1>2. p' = p \/ p' = Request(p, STARTED) \/ p' = Request(p, STOPPED)
  BY DEF Insert, Remove
<1>3. Alike(p, p')
  BY <1>1, <1>2, RequestAlike DEF Alike
<1>4. Pulled(p')
  BY <1>3, AlikePulled DEF StreamInv
<1>5. p'.running = STARTED => clients' \subseteq told'
  BY <1>3 DEF StreamInv, WatchersTold, Alike, Insert, Remove
<1> QED BY <1>4, <1>5 DEF WatchersTold

\* What restarts and what ends.
LEMMA StreamEndStep ==
  ASSUME StreamInv, ConfigChanged \/ OutputEnds \/ SocketEnds \/ ServiceStopped \/ Immediate
  PROVE  Pulled(p') /\ WatchersTold'
<1>1. p \in Shape
  BY DEF StreamInv, WishInv
<1>2. ASSUME NEW r \in Shape, Alike(p, r), p' = r \/ p' = Restart(Inc(r)) \/ p' = Restart(r)
      PROVE  Alike(p, p')
  <2>1. Inc(r) \in Shape /\ Alike(r, Inc(r))
    BY IncAlike
  <2>2. Alike(p, Inc(r))
    BY <1>2, <2>1, AlikeTwice
  <2>3. Alike(r, Restart(r)) /\ Alike(Inc(r), Restart(Inc(r)))
    BY <2>1, RestartAlike
  <2> QED BY <1>2, <2>2, <2>3, AlikeTwice
<1>3. ASSUME ConfigChanged \/ OutputEnds \/ SocketEnds PROVE Alike(p, p')
  <2>1. Alike(p, p) /\ Alike(p, [p EXCEPT !.output = "ended"]) /\ Alike(p, [p EXCEPT !.socket = "ended"])
    BY <1>1 DEF Shape, Alike
  <2>2. [p EXCEPT !.output = "ended"] \in Shape /\ [p EXCEPT !.socket = "ended"] \in Shape
    BY <1>1 DEF Shape, Streams
  <2> QED BY <1>1, <1>2, <1>3, <2>1, <2>2 DEF ConfigChanged, OutputEnds, SocketEnds, UnexpectedEnd
<1>4. ASSUME ServiceStopped PROVE Alike(p, p') /\ p'.running # STARTED
  BY <1>1, <1>4, StoppedAlike DEF ServiceStopped
<1>5. ASSUME Immediate PROVE Alike(p, p')
  <2> DEFINE r == [p EXCEPT !.immediates = @ - 1]
  <2>1. p.immediates - 1 \in Nat
    BY <1>1, <1>5 DEF Immediate, Shape
  <2>2. r \in Shape /\ Alike(p, r)
    BY <1>1, <2>1 DEF Shape, Alike
  <2>3. p' = EnsureState(r)
    BY <1>5 DEF Immediate
  <2> HIDE DEF r
  <2> QED BY <2>2, <2>3, EnsureAlike, AlikeTwice
<1>6. CASE ServiceStopped
  BY <1>4, <1>6, AlikePulled DEF StreamInv, WatchersTold
<1>7. CASE ConfigChanged \/ OutputEnds \/ SocketEnds \/ Immediate
  <2>1. UNCHANGED <<clients, told>>
    BY <1>7 DEF ConfigChanged, OutputEnds, SocketEnds, Immediate, Inside
  <2> QED BY <1>3, <1>5, <1>7, <2>1, AlikeStep
<1> QED BY <1>6, <1>7

LEMMA WishInductive == WishInv /\ [Next]_vars => WishInv'
BY QuietStep, FrameStep, StartStep, WishStep, EndStep, WishStutter DEF Next

LEMMA StreamInductive == ScreenStreamAssumption /\ Spec => []StreamInv
<1>1. ScreenStreamAssumption /\ Init => StreamInv
  <2> SUFFICES ASSUME ScreenStreamAssumption, Init PROVE StreamInv
    OBVIOUS
  <2>1. p.running = STOPPED
    BY DEF Init
  <2> QED BY <2>1, WishInit DEF StreamInv, Pulled, WatchersTold, STOPPED, STARTED
<1>2. StreamInv /\ [Next]_vars => StreamInv'
  <2> SUFFICES ASSUME StreamInv, [Next]_vars PROVE StreamInv'
    OBVIOUS
  <2>1. WishInv'
    BY WishInductive DEF StreamInv
  <2>2. CASE UNCHANGED vars
    BY <2>1, <2>2 DEF StreamInv, Pulled, WatchersTold, vars
  <2>3. CASE Next
    <3>1. Pulled(p') /\ WatchersTold'
      BY <2>3, StreamQuietStep, StreamFrameStep, StreamStartStep, StreamClientStep, StreamEndStep
         DEF Next
    <3> QED BY <2>1, <3>1 DEF StreamInv, Pulled
  <2> QED BY <2>2, <2>3
<1> QED BY <1>1, <1>2, PTL DEF Spec

\* No client of a started stream has missed its banner, whenever it came and whatever
\* restarts there were (broadcastSet.insert, onStart).
THEOREM WatchersAlwaysTold == ScreenStreamAssumption /\ Spec => []WatchersTold
<1>1. StreamInv => WatchersTold
  BY DEF StreamInv
<1> QED BY <1>1, StreamInductive, PTL

\* No frame of a started stream waits for ever: the loop that pulls them goes on or
\* 'readable' will start it (needFrame, _maybeEmitReadable, nextFrame).
THEOREM FramesAlwaysPulled == ScreenStreamAssumption /\ Spec => []FramesArePulled
<1>1. StreamInv => FramesArePulled
  BY DEF StreamInv, Pulled, FramesArePulled
<1> QED BY <1>1, StreamInductive, PTL
=============================================================================
