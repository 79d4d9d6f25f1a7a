---------------------------- MODULE TouchProofs ----------------------------
(***************************************************************************)
(* Proofs about Touch, for any number of messages and of faults.           *)
(*                                                                         *)
(* ConsumerInv says of the TouchConsumer what its lock, its state and its  *)
(* queue of wishes have to do with one another at every stage of a start,  *)
(* a stop and a restart.  QueueInv says, as long as no message is lost,    *)
(* which message the queue waits for and that it holds all that overtook   *)
(* it; it is an invariant of the loop of maybeConsume() as well, where     *)
(* Looping states it.  OrderInv adds what the consumer has written and     *)
(* still has to.                                                           *)
(***************************************************************************)
EXTENDS Touch, Integers, SequenceTheorems, FiniteSetTheorems, WellFoundedInduction, TLAPS

-----------------------------------------------------------------------------
(* Numbers and sequences.                                                  *)

\* Induction, stated with a set: a set that has 0 and with each number the next one has
\* every natural number.
LEMMA NatSetInduction ==
  ASSUME NEW T, 0 \in T, \A n \in Nat : n \in T => n + 1 \in T
  PROVE  Nat \subseteq T
<1> SUFFICES ASSUME Nat \ T # {} PROVE FALSE
  OBVIOUS
<1>1. PICK x \in Nat \ T : \A y \in Nat \ T : ~ (<<y, x>> \in OpToRel(<, Nat))
  BY NatLessThanWellFounded, WFMin
<1>2. x # 0 /\ x - 1 \in Nat
  OBVIOUS
<1>3. <<x - 1, x>> \in OpToRel(<, Nat)
  BY <1>2 DEF OpToRel
<1>4. x - 1 \in T
  BY <1>1, <1>2, <1>3
<1>5. (x - 1) + 1 \in T
  BY <1>2, <1>4
<1>6. (x - 1) + 1 = x
  OBVIOUS
<1> QED BY <1>5, <1>6

\* Division with a remainder.
LEMMA DivMod ==
  ASSUME NEW a \in Nat, NEW b \in Nat \ {0}
  PROVE  a = b * (a \div b) + (a % b) /\ a \div b \in Nat /\ a % b \in 0..b-1
<1>1. a = b * (a \div b) + (a % b)
  BY SMT
<1>2. a % b \in 0..b-1
  BY SMT
<1>3. a \div b \in Int
  BY SMT
<1>4. a \div b \in Nat
  BY SMT
<1> QED BY <1>1, <1>2, <1>3, <1>4

\* A function on 0..n can be defined by its value at 0 and by a step from each value in T
\* to the next one.
Steps(n, T) == [1..n -> [T -> T]]
LEMMA Recursion ==
  ASSUME NEW T, NEW start \in T, NEW n \in Nat, NEW step \in Steps(n, T)
  PROVE  \E f \in [0..n -> T] : f[0] = start /\ \A k \in 1..n : f[k] = step[k][f[k - 1]]
<1> DEFINE Fits(m, f) == /\ f \in [0..m -> T] /\ f[0] = start
                         /\ \A k \in 1..m : f[k] = step[k][f[k - 1]]
           U == {m \in Nat : m <= n => \E f : Fits(m, f)}
<1>1. 0 \in U
  <2> DEFINE f == [k \in 0..0 |-> start]
  <2>1. f \in [0..0 -> T] /\ f[0] = start /\ 1..0 = {}
    OBVIOUS
  <2> HIDE DEF f
  <2>2. Fits(0, f)
    BY <2>1
  <2> QED BY <2>2
<1>2. ASSUME NEW m \in Nat, m \in U PROVE m + 1 \in U
  <2> SUFFICES ASSUME m + 1 <= n PROVE \E f : Fits(m + 1, f)
    OBVIOUS
  <2>1. PICK f : Fits(m, f)
    BY <1>2
  <2> DEFINE last == step[m + 1][f[m]]
             g == [k \in 0..m + 1 |-> IF k <= m THEN f[k] ELSE last]
  <2>2. last \in T
    <3>1. m + 1 \in 1..n /\ f[m] \in T
      BY <2>1
    <3> QED BY <3>1 DEF Steps
  <2> HIDE DEF last
  <2>3. g \in [0..m + 1 -> T]
    BY <2>1, <2>2
  <2>4. ASSUME NEW k \in 1..m + 1 PROVE g[k] = step[k][g[k - 1]]
    <3>1. CASE k <= m
      <4>1. k \in 1..m /\ g[k] = f[k] /\ g[k - 1] = f[k - 1]
        BY <3>1
      <4> QED BY <2>1, <4>1
    <3>2. CASE ~(k <= m)
      <4>1. k = m + 1 /\ g[k] = last /\ g[k - 1] = f[m]
        BY <3>2
      <4> QED BY <4>1 DEF last
    <3> QED BY <3>1, <3>2
  <2>5. g[0] = start
    BY <2>1
  <2> QED BY <2>3, <2>4, <2>5
<1> HIDE DEF U
<1>3. Nat \subseteq U
  BY <1>1, <1>2, NatSetInduction
<1>4. \E f : Fits(n, f)
  <2> HIDE DEF Fits
  <2>1. n \in U /\ n <= n
    BY <1>3
  <2> QED BY <2>1 DEF U
<1> QED BY <1>4

-----------------------------------------------------------------------------
(* The queue of wishes of the consumer.                                    *)

StopThenStart == <<STOPPED, STARTED>>
Desires == {<<>>, <<STARTED>>, StopThenStart}

LEMMA PushAgain ==
  ASSUME NEW d \in Seq(Wishes), NEW s \in Wishes, d # <<>>, d[1] = s
  PROVE  Push(d, s) = <<s>>
<1>1. 1 \in DOMAIN d /\ Len(d) \in Nat
  BY EmptySeq
<1>2. FirstOf(d, s) \in DOMAIN d /\ d[FirstOf(d, s)] = s
      /\ \A j \in DOMAIN d : d[j] = s => FirstOf(d, s) <= j
  <2>1. \A j \in DOMAIN d : d[j] = s => 1 <= j
    OBVIOUS
  <2>2. \E i \in DOMAIN d : d[i] = s /\ \A j \in DOMAIN d : d[j] = s => i <= j
    BY <1>1, <2>1
  <2> QED BY <2>2 DEF FirstOf
<1>3. FirstOf(d, s) = 1
  BY <1>1, <1>2
<1>4. Push(d, s) = SubSeq(d, 1, 1)
  BY <1>1, <1>3 DEF Push
<1>5. SubSeq(d, 1, 1) = <<d[1]>>
  <2>1. 1 \in Int /\ \A j \in 1..1 : d[j] \in Wishes
    BY <1>1
  <2>2. /\ SubSeq(d, 1, 1) \in Seq(Wishes)
        /\ Len(SubSeq(d, 1, 1)) = IF 1 <= 1 THEN 1 - 1 + 1 ELSE 0
        /\ \A j \in 1..1 - 1 + 1 : SubSeq(d, 1, 1)[j] = d[1 + j - 1]
    BY <2>1, SubSeqProperties
  <2> DEFINE v == SubSeq(d, 1, 1)
  <2> HIDE DEF v
  <2>3. v \in Seq(Wishes) /\ Len(v) = 1 /\ v[1] = d[1]
    BY <2>2 DEF v
  <2>4. v = <<d[1]>>
    BY <2>3
  <2> QED BY <2>4 DEF v
<1> QED BY <1>4, <1>5

\* What restart() asks for is a stop and a start, unless a start comes next already.
LEMMA AskForRestart ==
  /\ Push(Push(<<>>, STOPPED), STARTED) = StopThenStart
  /\ Push(Push(<<STARTED>>, STOPPED), STARTED) = <<STARTED>>
  /\ Push(Push(StopThenStart, STOPPED), STARTED) = StopThenStart
<1>0. STOPPED # STARTED /\ STOPPED \in Wishes /\ STARTED \in Wishes
  BY DEF STOPPED, STARTED, Wishes
<1> USE DEF StopThenStart
<1>1. Push(<<>>, STOPPED) = <<STOPPED>>
  BY DEF Push
<1>2. Push(<<STOPPED>>, STARTED) = <<STOPPED, STARTED>>
  <2>1. \A i \in DOMAIN <<STOPPED>> : <<STOPPED>>[i] # STARTED
    BY <1>0
  <2>2. Push(<<STOPPED>>, STARTED) = Append(<<STOPPED>>, STARTED)
    BY <2>1 DEF Push
  <2> QED BY <2>2
<1>3. Push(<<STARTED>>, STOPPED) = <<STARTED, STOPPED>>
  <2>1. \A i \in DOMAIN <<STARTED>> : <<STARTED>>[i] # STOPPED
    BY <1>0
  <2>2. Push(<<STARTED>>, STOPPED) = Append(<<STARTED>>, STOPPED)
    BY <2>1 DEF Push
  <2> QED BY <2>2
<1>4. Push(<<STARTED, STOPPED>>, STARTED) = <<STARTED>>
  <2>1. <<STARTED, STOPPED>> \in Seq(Wishes) /\ <<STARTED, STOPPED>> # <<>>
        /\ <<STARTED, STOPPED>>[1] = STARTED
    BY <1>0
  <2> QED BY <1>0, <2>1, PushAgain
<1>5. Push(<<STOPPED, STARTED>>, STOPPED) = <<STOPPED>>
  <2>1. <<STOPPED, STARTED>> \in Seq(Wishes) /\ <<STOPPED, STARTED>> # <<>>
        /\ <<STOPPED, STARTED>>[1] = STOPPED
    BY <1>0
  <2> QED BY <1>0, <2>1, PushAgain
<1> QED BY <1>1, <1>2, <1>3, <1>4, <1>5

-----------------------------------------------------------------------------
(* The consumer.                                                           *)

Awaited == {NoStop, "socket", "output"}
Running == {STOPPED, STARTING, STARTED, STOPPING}
Starts == {"none", "service", "connect", "banner", "failing"}

\* The fields of a consumer, without the bounds of the model.
Shape ==
  [running : Running, desired : Desires, lock : BOOLEAN, start : Starts,
   stops : [Stoppers -> Awaited], output : Streams, socket : Streams, banner : BOOLEAN,
   leaked : Nat, immediates : Nat, fails : Nat, dead : BOOLEAN,
   writeQueue : Seq(Messages), written : Seq(Messages)]

\* The restarts whose _stop() is under way.
Busy(r) == {w \in Restarts : r.stops[w] # NoStop}
Restarting(r) == \E w \in Restarts : r.stops[w] # NoStop

\* The lock is that of a start or a stop, and they are what the state says.
Coherent(r) ==
  /\ r.lock <=> r.start # "none" \/ r.stops[StopState] # NoStop
  /\ r.start = "none" \/ r.stops[StopState] = NoStop
  /\ r.start = "failing" <=> r.stops[StartState] # NoStop
  /\ r.running = STARTING => r.start # "none"
  /\ r.running = STOPPING => r.stops[StopState] # NoStop
  /\ r.running = STARTED => ~r.lock

\* What the queue of wishes holds at each stage.
Aimed(r) ==
  /\ r.start # "none" => r.desired \in {<<>>, StopThenStart}
  /\ r.start # "none" /\ r.running # STARTING => r.start = "failing" \/ r.desired = StopThenStart
  /\ r.stops[StopState] # NoStop => r.desired = <<STARTED>>
  /\ ~r.lock /\ r.running = STOPPED => r.desired # <<>>
  /\ ~r.lock /\ r.running = STARTED => r.desired # <<STARTED>>

\* Where nothing is wished any more the streams that are to stay are there, or a restart
\* has seen that they are not.
Streaming(r) ==
  r.desired = <<>> =>
    /\ ~r.lock /\ r.running = STARTED =>
         Restarting(r) \/ (r.output = "open" /\ r.socket = "open")
    /\ r.start \in {"connect", "banner"} => Restarting(r) \/ r.output = "open"
    /\ r.start = "banner" => Restarting(r) \/ r.socket = "open"

\* A wish that no start and no stop will look at is a start and has its setImmediate().
Prompted(r) ==
  ~r.lock /\ r.desired # <<>> =>
    r.running = STOPPED /\ r.desired = <<STARTED>> /\ r.immediates > 0

Sane(r) == Coherent(r) /\ Aimed(r) /\ Streaming(r) /\ Prompted(r)
ConsumerInv ==
  /\ c \in Shape /\ faults \in 0..MaxFaults
  /\ Cardinality(Busy(c)) <= faults
  /\ Alive => Sane(c)

LEMMA StopperNames ==
  /\ StopState \in Stoppers /\ StartState \in Stoppers /\ Restarts \subseteq Stoppers
  /\ StopState \notin Restarts /\ StartState \notin Restarts /\ StopState # StartState
BY DEF Stoppers, StopState, StartState, Restarts

LEMMA FewRestarts == IsFiniteSet(Restarts) /\ Cardinality(Restarts) = MaxFaults
<1>0. MaxFaults \in Nat
  BY TouchConsumerAssumption
<1> DEFINE f == [i \in 1..MaxFaults |-> <<"restart", i>>]
<1>1. IsFiniteSet(1..MaxFaults) /\ Cardinality(1..MaxFaults) = MaxFaults
  BY <1>0, FS_Interval
<1>2. f \in Bijection(1..MaxFaults, Restarts)
  <2>1. f \in [1..MaxFaults -> Restarts]
    BY DEF Restarts
  <2>2. \A i, j \in 1..MaxFaults : f[i] = f[j] => i = j
    OBVIOUS
  <2>3. \A w \in Restarts : \E i \in 1..MaxFaults : f[i] = w
    BY DEF Restarts
  <2> HIDE DEF f
  <2>4. IsInjective(f)
    BY <2>1, <2>2 DEF IsInjective
  <2>5. f \in Injection(1..MaxFaults, Restarts) /\ f \in Surjection(1..MaxFaults, Restarts)
    BY <2>1, <2>3, <2>4 DEF Injection, Surjection
  <2> QED BY <2>5 DEF Bijection
<1> HIDE DEF f
<1>3. ExistsBijection(1..MaxFaults, Restarts)
  BY <1>2 DEF ExistsBijection
<1> QED BY <1>1, <1>3, FS_Bijection

LEMMA DesireFacts ==
  /\ <<STARTED>> # <<>> /\ StopThenStart # <<>> /\ StopThenStart # <<STARTED>>
  /\ Head(<<STARTED>>) = STARTED /\ Tail(<<STARTED>>) = <<>>
  /\ Head(StopThenStart) = STOPPED /\ Tail(StopThenStart) = <<STARTED>>
BY DEF StopThenStart

LEMMA ExpectStream == ASSUME NEW stream \in Streams PROVE Expect(stream) \in Streams
BY DEF Expect, Streams

\* The fields a step of the driver leaves alone: the writes, and whether it is dead.
SameWrites(r, t) ==
  /\ t.writeQueue = r.writeQueue /\ t.written = r.written
  /\ t.running = STARTED => r.running = STARTED

\* A _stop() begins.
LEMMA StopFields ==
  ASSUME NEW r \in Shape, NEW who \in Stoppers
  PROVE  LET t == Stop(r, who)
         IN  /\ t \in Shape /\ t.stops = [r.stops EXCEPT ![who] = "socket"]
             /\ \A w \in Stoppers : t.stops[w] = IF w = who THEN "socket" ELSE r.stops[w]
             /\ t.running = r.running /\ t.desired = r.desired /\ t.lock = r.lock
             /\ t.start = r.start /\ t.output = r.output /\ t.immediates = r.immediates
             /\ t.dead = r.dead /\ SameWrites(r, t)
<1> DEFINE stops == [r.stops EXCEPT ![who] = "socket"]
           socket == Expect(r.socket)
<1>1. r.stops \in [Stoppers -> Awaited] /\ r.socket \in Streams
  BY DEF Shape
<1>2. stops \in [Stoppers -> Awaited]
      /\ \A w \in Stoppers : stops[w] = IF w = who THEN "socket" ELSE r.stops[w]
  BY <1>1 DEF Awaited
<1>3. socket \in Streams
  BY <1>1, ExpectStream
<1>4. Stop(r, who) = [r EXCEPT !.stops = stops, !.socket = socket]
  BY DEF Stop, Shape
<1> HIDE DEF stops, socket
<1>5. [r EXCEPT !.stops = stops, !.socket = socket] \in Shape
  BY <1>2, <1>3 DEF Shape
<1>6. Stop(r, who).stops = stops
  BY <1>4 DEF Shape
<1> QED BY <1>2, <1>4, <1>5, <1>6 DEF Shape, SameWrites, stops

\* _ensureState() takes what comes next in the queue, or leaves it to who has the lock.
LEMMA EnsureCases ==
  ASSUME NEW r \in Shape, Coherent(r), Aimed(r)
  PROVE  \/ EnsureState(r) = r /\ (r.lock \/ r.desired = <<>>)
         \/ /\ ~r.lock /\ r.running = STOPPED /\ r.desired = <<STARTED>>
            /\ EnsureState(r) = [r EXCEPT !.desired = <<>>, !.lock = TRUE,
                                          !.running = STARTING, !.start = "service"]
         \/ /\ ~r.lock /\ r.running = STOPPED /\ r.desired = StopThenStart
            /\ EnsureState(r) = [r EXCEPT !.desired = <<STARTED>>,
                                          !.immediates = r.immediates + 1]
         \/ /\ ~r.lock /\ r.running = STARTED /\ r.desired = StopThenStart
            /\ EnsureState(r) = Stop([r EXCEPT !.desired = <<STARTED>>, !.lock = TRUE,
                                               !.running = STOPPING], StopState)
<1>1. CASE r.desired = <<>> \/ r.lock
  BY <1>1 DEF EnsureState
<1>2. CASE r.desired # <<>> /\ ~r.lock
  <2>1. r.running \in {STOPPED, STARTED} /\ r.desired \in {<<STARTED>>, StopThenStart}
    BY <1>2 DEF Shape, Coherent, Running, Desires
  <2>2. STOPPED # STARTED /\ STOPPED \notin {STARTING, STOPPING} /\ STARTED \notin {STARTING, STOPPING}
    BY DEF STOPPED, STARTED, STARTING, STOPPING
  <2>3. CASE r.running = STOPPED /\ r.desired = <<STARTED>>
    <3>1. EnsureState(r) = [[r EXCEPT !.desired = Tail(@)] EXCEPT !.lock = TRUE,
                                          !.running = STARTING, !.start = "service"]
      BY <1>2, <2>2, <2>3, DesireFacts DEF EnsureState
    <3> QED BY <1>2, <2>3, <3>1, DesireFacts DEF Shape
  <2>4. CASE r.running = STOPPED /\ r.desired = StopThenStart
    <3>1. EnsureState(r) = [[r EXCEPT !.desired = Tail(@)] EXCEPT !.immediates = @ + 1]
      BY <1>2, <2>2, <2>4, DesireFacts DEF EnsureState
    <3> QED BY <1>2, <2>4, <3>1, DesireFacts DEF Shape
  <2>5. CASE r.running = STARTED /\ r.desired = StopThenStart
    <3>1. EnsureState(r) = Stop([[r EXCEPT !.desired = Tail(@)] EXCEPT !.lock = TRUE,
                                               !.running = STOPPING], StopState)
      BY <1>2, <2>2, <2>5, DesireFacts DEF EnsureState
    <3>2. [[r EXCEPT !.desired = Tail(@)] EXCEPT !.lock = TRUE, !.running = STOPPING]
            = [r EXCEPT !.desired = <<STARTED>>, !.lock = TRUE, !.running = STOPPING]
      BY <2>5, DesireFacts DEF Shape
    <3> QED BY <1>2, <2>5, <3>1, <3>2
  <2>6. ~ (r.running = STARTED /\ r.desired = <<STARTED>>)
    BY <1>2 DEF Aimed
  <2> QED BY <2>1, <2>3, <2>4, <2>5, <2>6
<1> QED BY <1>1, <1>2

\* What _ensureState() leaves is prompted again.
LEMMA EnsureSane ==
  ASSUME NEW r \in Shape, Coherent(r), Aimed(r), Streaming(r)
  PROVE  LET t == EnsureState(r)
         IN  /\ t \in Shape /\ Sane(t) /\ t.dead = r.dead /\ SameWrites(r, t)
             /\ Busy(t) = Busy(r)
<1> DEFINE t == EnsureState(r)
<1>0. /\ STOPPED # STARTED /\ STOPPED # STARTING /\ STOPPED # STOPPING
      /\ STARTED # STARTING /\ STARTED # STOPPING /\ STARTING # STOPPING
  BY DEF STOPPED, STARTED, STARTING, STOPPING
<1>5. \/ t = r /\ (r.lock \/ r.desired = <<>>)
      \/ /\ ~r.lock /\ r.running = STOPPED /\ r.desired = <<STARTED>>
         /\ t = [r EXCEPT !.desired = <<>>, !.lock = TRUE,
                          !.running = STARTING, !.start = "service"]
      \/ /\ ~r.lock /\ r.running = STOPPED /\ r.desired = StopThenStart
         /\ t = [r EXCEPT !.desired = <<STARTED>>, !.immediates = r.immediates + 1]
      \/ /\ ~r.lock /\ r.running = STARTED /\ r.desired = StopThenStart
         /\ t = Stop([r EXCEPT !.desired = <<STARTED>>, !.lock = TRUE,
                               !.running = STOPPING], StopState)
  BY EnsureCases, Zenon
<1> SUFFICES t \in Shape /\ Sane(t) /\ t.dead = r.dead /\ SameWrites(r, t) /\ Busy(t) = Busy(r)
  OBVIOUS
<1> HIDE DEF t
<1>1. CASE t = r /\ (r.lock \/ r.desired = <<>>)
  BY <1>1 DEF Sane, Prompted, SameWrites
<1>2. CASE /\ ~r.lock /\ r.running = STOPPED /\ r.desired = <<STARTED>>
           /\ t = [r EXCEPT !.desired = <<>>, !.lock = TRUE,
                            !.running = STARTING, !.start = "service"]
  <2>1. /\ t \in Shape /\ t.stops = r.stops /\ t.dead = r.dead
        /\ t.desired = <<>> /\ t.lock = TRUE /\ t.running = STARTING /\ t.start = "service"
        /\ t.writeQueue = r.writeQueue /\ t.written = r.written
    BY <1>2 DEF Shape, Desires, Running, Starts
  <2>2. Coherent(t) /\ Aimed(t) /\ Streaming(t) /\ Prompted(t)
    BY <1>0, <1>2, <2>1 DEF Coherent, Aimed, Streaming, Prompted
  <2> QED BY <1>0, <2>1, <2>2 DEF Sane, SameWrites, Busy
<1>3. CASE /\ ~r.lock /\ r.running = STOPPED /\ r.desired = StopThenStart
           /\ t = [r EXCEPT !.desired = <<STARTED>>, !.immediates = r.immediates + 1]
  <2>1. r.immediates + 1 \in Nat /\ r.immediates + 1 > 0
    BY DEF Shape
  <2>2. /\ t \in Shape /\ t.stops = r.stops /\ t.dead = r.dead
        /\ t.desired = <<STARTED>> /\ t.lock = r.lock /\ t.running = r.running
        /\ t.start = r.start /\ t.immediates = r.immediates + 1
        /\ t.writeQueue = r.writeQueue /\ t.written = r.written
    BY <1>3, <2>1 DEF Shape, Desires, Running, Starts
  <2>3. Coherent(t) /\ Aimed(t) /\ Streaming(t) /\ Prompted(t)
    BY <1>0, <1>3, <2>1, <2>2, DesireFacts DEF Coherent, Aimed, Streaming, Prompted
  <2> QED BY <1>0, <2>2, <2>3 DEF Sane, SameWrites, Busy
<1>4. CASE /\ ~r.lock /\ r.running = STARTED /\ r.desired = StopThenStart
           /\ t = Stop([r EXCEPT !.desired = <<STARTED>>, !.lock = TRUE,
                                 !.running = STOPPING], StopState)
  <2> DEFINE u == [r EXCEPT !.desired = <<STARTED>>, !.lock = TRUE, !.running = STOPPING]
  <2>1. /\ u \in Shape /\ u.stops = r.stops /\ u.dead = r.dead
        /\ u.desired = <<STARTED>> /\ u.lock = TRUE /\ u.running = STOPPING
        /\ u.start = r.start
        /\ u.writeQueue = r.writeQueue /\ u.written = r.written
    BY <1>4 DEF Shape, Desires, Running, Starts
  <2> HIDE DEF u
  <2>2. t = Stop(u, StopState)
    BY <1>4 DEF u
  <2>3. /\ t \in Shape /\ t.dead = u.dead /\ SameWrites(u, t)
        /\ t.desired = u.desired /\ t.lock = u.lock /\ t.running = u.running
        /\ t.start = u.start
        /\ \A w \in Stoppers : t.stops[w] = IF w = StopState THEN "socket" ELSE u.stops[w]
    <3>1. u \in Shape /\ StopState \in Stoppers
      BY <2>1, StopperNames
    <3>2. LET v == Stop(u, StopState)
          IN  /\ v \in Shape /\ v.stops = [u.stops EXCEPT ![StopState] = "socket"]
              /\ \A w \in Stoppers : v.stops[w] = IF w = StopState THEN "socket" ELSE u.stops[w]
              /\ v.running = u.running /\ v.desired = u.desired /\ v.lock = u.lock
              /\ v.start = u.start /\ v.output = u.output /\ v.immediates = u.immediates
              /\ v.dead = u.dead /\ SameWrites(u, v)
      BY <3>1, StopFields, Zenon
    <3> QED BY <2>2, <3>2
  <2>4. t.stops[StopState] = "socket" /\ t.stops[StartState] = r.stops[StartState]
        /\ \A w \in Restarts : t.stops[w] = r.stops[w]
    BY <2>1, <2>3, StopperNames
  <2>5. "socket" # NoStop
    BY DEF NoStop
  <2>6. Coherent(t) /\ Aimed(t) /\ Streaming(t) /\ Prompted(t)
    BY <1>0, <1>4, <2>1, <2>3, <2>4, <2>5, DesireFacts DEF Coherent, Aimed, Streaming, Prompted
  <2>7. Busy(t) = Busy(r)
    BY <2>4 DEF Busy
  <2> QED BY <1>0, <2>1, <2>3, <2>6, <2>7 DEF Sane, SameWrites
<1> QED BY <1>1, <1>2, <1>3, <1>4, <1>5

\* The other fields of a step that leaves the driver's own state alone.
Quiet(r, t) ==
  /\ t \in Shape /\ t.running = r.running /\ t.desired = r.desired /\ t.lock = r.lock
  /\ t.start = r.start /\ t.stops = r.stops /\ t.immediates = r.immediates
  /\ t.writeQueue = r.writeQueue /\ t.written = r.written

LEMMA QuietSane ==
  ASSUME NEW r, NEW t, Quiet(r, t), Sane(r), t.output = r.output, t.socket = r.socket
  PROVE  Sane(t) /\ Busy(t) = Busy(r) /\ SameWrites(r, t)
BY DEF Quiet, Sane, Coherent, Aimed, Streaming, Prompted, Restarting, Busy, SameWrites

-----------------------------------------------------------------------------
(* The steps of the consumer.                                              *)

LEMMA StateNames ==
  /\ STOPPED # STARTED /\ STOPPED # STARTING /\ STOPPED # STOPPING
  /\ STARTED # STARTING /\ STARTED # STOPPING /\ STARTING # STOPPING
  /\ NoStop # "socket" /\ NoStop # "output"
BY DEF STOPPED, STARTED, STARTING, STOPPING, NoStop

LEMMA FaultCounts ==
  ASSUME ConsumerInv, Fault \/ Expected
  PROVE  faults' \in 0..MaxFaults /\ faults' >= faults
BY TouchConsumerAssumption DEF ConsumerInv, Fault, Expected

\* A step that begins no restart.
LEMMA StepInv ==
  ASSUME ConsumerInv, Fault \/ Expected, c' \in Shape, Busy(c') \subseteq Busy(c),
         c'.dead \/ Sane(c')
  PROVE  ConsumerInv'
<1>1. Busy(c) \subseteq Restarts
  BY DEF Busy
<1>2. IsFiniteSet(Busy(c))
  BY <1>1, FewRestarts, FS_Subset
<1>3. IsFiniteSet(Busy(c')) /\ Cardinality(Busy(c')) <= Cardinality(Busy(c))
  BY <1>2, FS_Subset
<1>4. Cardinality(Busy(c)) \in Nat /\ Cardinality(Busy(c')) \in Nat
  BY <1>2, <1>3, FS_CardinalityType
<1>5. Cardinality(Busy(c')) <= faults'
  BY <1>3, <1>4, FaultCounts DEF ConsumerInv
<1> QED BY <1>5, FaultCounts DEF ConsumerInv, Alive

LEMMA ServiceStartedInv ==
  ASSUME ConsumerInv, ServiceStarted
  PROVE  ConsumerInv' /\ SameWrites(c, c')
<1>1. /\ c' = [c EXCEPT !.start = "connect", !.output = "open"] /\ Expected
      /\ c.start = "service" /\ c \in Shape /\ Sane(c)
  BY DEF ServiceStarted, ConsumerInv
<1>2. /\ c' \in Shape /\ c'.stops = c.stops /\ c'.start = "connect" /\ c'.output = "open"
      /\ c'.lock = c.lock /\ c'.running = c.running /\ c'.desired = c.desired
      /\ c'.writeQueue = c.writeQueue /\ c'.written = c.written
  BY <1>1 DEF Shape, Starts, Streams
<1>3. Busy(c') = Busy(c) /\ SameWrites(c, c')
  BY <1>2 DEF Busy, SameWrites
<1>4. Sane(c')
  BY <1>1, <1>2, StateNames DEF Sane, Coherent, Aimed, Streaming, Prompted, Restarting
<1> QED BY <1>1, <1>2, <1>3, <1>4, StepInv

LEMMA ConnectedInv ==
  ASSUME ConsumerInv, Connected
  PROVE  ConsumerInv' /\ SameWrites(c, c')
<1>1. /\ c' = [c EXCEPT !.start = "banner", !.socket = "open"] /\ Expected
      /\ c.start = "connect" /\ c \in Shape /\ Sane(c)
  BY DEF Connected, ConsumerInv
<1>2. /\ c' \in Shape /\ c'.stops = c.stops /\ c'.start = "banner" /\ c'.output = c.output
      /\ c'.socket = "open" /\ c'.lock = c.lock /\ c'.running = c.running
      /\ c'.desired = c.desired /\ c'.writeQueue = c.writeQueue /\ c'.written = c.written
  BY <1>1 DEF Shape, Starts, Streams
<1>3. Busy(c') = Busy(c) /\ SameWrites(c, c')
  BY <1>2 DEF Busy, SameWrites
<1>4. Sane(c')
  BY <1>1, <1>2, StateNames DEF Sane, Coherent, Aimed, Streaming, Prompted, Restarting
<1> QED BY <1>1, <1>2, <1>3, <1>4, StepInv

\* A start that fails stops what there is.
LEMMA FailingInv ==
  ASSUME ConsumerInv, Alive, c.start \in {"service", "connect", "banner"}, Fault \/ Expected,
         c' = Stop([c EXCEPT !.start = "failing"], StartState)
  PROVE  ConsumerInv' /\ SameWrites(c, c')
<1> DEFINE u == [c EXCEPT !.start = "failing"]
<1>1. c \in Shape /\ Sane(c)
  BY DEF ConsumerInv
<1>2. /\ u \in Shape /\ u.stops = c.stops /\ u.start = "failing" /\ u.lock = c.lock
      /\ u.running = c.running /\ u.desired = c.desired
      /\ u.writeQueue = c.writeQueue /\ u.written = c.written
  BY <1>1 DEF Shape, Starts
<1> HIDE DEF u
<1>3. c' = Stop(u, StartState)
  BY DEF u
<1>4. /\ c' \in Shape /\ SameWrites(u, c')
      /\ c'.desired = u.desired /\ c'.lock = u.lock /\ c'.running = u.running
      /\ c'.start = u.start
      /\ \A w \in Stoppers : c'.stops[w] = IF w = StartState THEN "socket" ELSE u.stops[w]
  <2>1. u \in Shape /\ StartState \in Stoppers
    BY <1>2, StopperNames
  <2>2. LET v == Stop(u, StartState)
        IN  /\ v \in Shape /\ v.stops = [u.stops EXCEPT ![StartState] = "socket"]
            /\ \A w \in Stoppers : v.stops[w] = IF w = StartState THEN "socket" ELSE u.stops[w]
            /\ v.running = u.running /\ v.desired = u.desired /\ v.lock = u.lock
            /\ v.start = u.start /\ v.output = u.output /\ v.immediates = u.immediates
            /\ v.dead = u.dead /\ SameWrites(u, v)
    BY <2>1, StopFields, Zenon
  <2> QED BY <1>3, <2>2
<1>5. /\ c'.stops[StartState] = "socket" /\ c'.stops[StopState] = c.stops[StopState]
      /\ \A w \in Restarts : c'.stops[w] = c.stops[w]
  BY <1>2, <1>4, StopperNames
<1>6. Busy(c') = Busy(c) /\ SameWrites(c, c')
  BY <1>2, <1>4, <1>5 DEF Busy, SameWrites
<1>7. Sane(c')
  BY <1>1, <1>2, <1>4, <1>5, StateNames DEF Sane, Coherent, Aimed, Streaming, Prompted
<1> QED BY <1>4, <1>6, <1>7, StepInv

\* What is written when a start is over.
Flushed(r, t) == t.writeQueue = <<>> /\ t.written = Written(r, r.writeQueue)

LEMMA BannerReadInv ==
  ASSUME ConsumerInv, BannerRead
  PROVE  ConsumerInv' /\ (SameWrites(c, c') \/ Flushed(c, c'))
<1>1. c.start = "banner" /\ c' = Started(c) /\ Expected /\ Alive /\ c \in Shape /\ Sane(c)
  BY DEF BannerRead, ConsumerInv
<1>2. CASE c.socket = "none"
  <2>1. c' = Stop([c EXCEPT !.start = "failing"], StartState)
    BY <1>1, <1>2 DEF Started
  <2> QED BY <1>1, <2>1, FailingInv
<1>3. CASE c.socket # "none"
  <2> DEFINE written == Written(c, c.writeQueue)
             u == [c EXCEPT !.start = "none", !.running = STARTED, !.lock = FALSE,
                            !.banner = TRUE, !.written = written, !.writeQueue = <<>>]
  <2>1. c' = EnsureState(u)
    BY <1>1, <1>3 DEF Started
  <2>2. written \in Seq(Messages)
    BY <1>1 DEF Written, Shape
  <2> HIDE DEF written
  <2>3. /\ u \in Shape /\ u.stops = c.stops /\ u.start = "none" /\ ~u.lock
        /\ u.running = STARTED /\ u.desired = c.desired /\ u.output = c.output
        /\ u.socket = c.socket /\ u.writeQueue = <<>> /\ u.written = written
    <3> DEFINE v == [c EXCEPT !.start = "none", !.running = STARTED, !.lock = FALSE,
                              !.banner = TRUE]
    <3>1. /\ v \in Shape /\ v.stops = c.stops /\ v.start = "none" /\ ~v.lock
          /\ v.running = STARTED /\ v.desired = c.desired /\ v.output = c.output
          /\ v.socket = c.socket
      BY <1>1 DEF Shape, Starts, Running
    <3>2. u = [v EXCEPT !.written = written, !.writeQueue = <<>>]
      BY <1>1 DEF Shape
    <3> HIDE DEF u, v
    <3>3. <<>> \in Seq(Messages)
      OBVIOUS
    <3> QED BY <2>2, <3>1, <3>2, <3>3 DEF Shape
  <2> HIDE DEF u
  <2>4. Coherent(u) /\ Aimed(u) /\ Streaming(u)
    BY <1>1, <2>3, StateNames, DesireFacts
       DEF Sane, Coherent, Aimed, Streaming, Prompted, Restarting
  <2>5. c' \in Shape /\ Sane(c') /\ SameWrites(u, c') /\ Busy(c') = Busy(u)
    BY <2>1, <2>3, <2>4, EnsureSane, Zenon
  <2>6. Busy(u) = Busy(c)
    BY <2>3 DEF Busy
  <2>7. Flushed(c, c')
    BY <2>3, <2>5 DEF Flushed, SameWrites, written
  <2> QED BY <1>1, <2>5, <2>6, <2>7, StepInv
<1> QED BY <1>2, <1>3

LEMMA StartFailsInv ==
  ASSUME ConsumerInv, StartFails
  PROVE  ConsumerInv' /\ SameWrites(c, c')
BY FailingInv DEF StartFails

LEMMA IncFields ==
  ASSUME NEW r \in Shape
  PROVE  Quiet(r, Inc(r)) /\ Inc(r).output = r.output /\ Inc(r).socket = r.socket
<1>1. CASE r.fails = FailLimit
  <2>1. Inc(r) = [r EXCEPT !.dead = TRUE]
    BY <1>1 DEF Inc
  <2> QED BY <2>1 DEF Quiet, Shape
<1>2. CASE r.fails # FailLimit
  <2>1. Inc(r) = [r EXCEPT !.fails = r.fails + 1] /\ r.fails + 1 \in Nat
    BY <1>2 DEF Inc, Shape
  <2> QED BY <2>1 DEF Quiet, Shape
<1> QED BY <1>1, <1>2

\* One restart more is at most one fault more.
LEMMA BusyGrows ==
  ASSUME ConsumerInv, NEW w \in Restarts, Busy(c') = Busy(c) \cup {w}, faults' = faults + 1
  PROVE  Cardinality(Busy(c')) <= faults'
<1>1. Busy(c) \subseteq Restarts
  BY DEF Busy
<1>2. IsFiniteSet(Busy(c))
  BY <1>1, FewRestarts, FS_Subset
<1>3. Cardinality(Busy(c)) \in Nat
  BY <1>2, FS_CardinalityType
<1>4. Cardinality(Busy(c')) = Cardinality(Busy(c)) \/ Cardinality(Busy(c')) = Cardinality(Busy(c)) + 1
  <2>1. CASE w \in Busy(c)
    <3>1. Busy(c') = Busy(c)
      BY <2>1
    <3> QED BY <3>1
  <2>2. CASE w \notin Busy(c)
    BY <1>2, <2>2, FS_AddElement
  <2> QED BY <2>1, <2>2
<1> QED BY <1>3, <1>4, TouchConsumerAssumption DEF ConsumerInv

\* A fault leaves a restart that is not under way.
LEMMA FreeRestart ==
  ASSUME ConsumerInv, Fault
  PROVE  \E w \in Restarts : c.stops[w] = NoStop
<1> SUFFICES ASSUME \A w \in Restarts : c.stops[w] # NoStop PROVE FALSE
  OBVIOUS
<1>1. Busy(c) = Restarts
  BY DEF Busy
<1> QED BY <1>1, FewRestarts, TouchConsumerAssumption DEF ConsumerInv, Fault

\* A stream ends that nobody waits for: r is the consumer with its stream ended.
LEMMA UnexpectedEnd ==
  ASSUME ConsumerInv, Alive, Fault, NEW r, Quiet(c, r), c' = Restart(Inc(r))
  PROVE  ConsumerInv' /\ SameWrites(c, c')
<1> DEFINE u == Inc(r)
<1>1. c \in Shape /\ Sane(c)
  BY DEF ConsumerInv
<1>2. r \in Shape
  BY DEF Quiet
<1>3. Quiet(r, u)
  BY <1>2, IncFields
<1>4. Quiet(c, u)
  BY <1>3 DEF Quiet
<1> HIDE DEF u
<1>5. Busy(u) = Busy(c) /\ SameWrites(c, u)
  BY <1>4 DEF Quiet, Busy, SameWrites
<1>6. CASE c.running \notin {STARTED, STARTING}
  <2>1. c' = u
    BY <1>4, <1>6 DEF Restart, Quiet, u
  <2>2. Sane(u)
    BY <1>1, <1>4, <1>6, DesireFacts DEF Quiet, Sane, Coherent, Aimed, Streaming, Prompted
  <2>3. c' \in Shape /\ Busy(c') \subseteq Busy(c) /\ Sane(c')
    BY <1>4, <1>5, <2>1, <2>2 DEF Quiet
  <2> QED BY <1>5, <2>1, <2>3, StepInv
<1>7. CASE c.running \in {STARTED, STARTING}
  <2> DEFINE w == CHOOSE w \in Restarts : u.stops[w] = NoStop
  <2>1. w \in Restarts /\ u.stops[w] = NoStop
    <3>1. \E v \in Restarts : u.stops[v] = NoStop
      BY <1>4, FreeRestart DEF Quiet
    <3> QED BY <3>1
  <2>2. c' = Stop(u, w)
    BY <1>4, <1>7 DEF Restart, Quiet, u
  <2> HIDE DEF w
  <2>3. LET v == Stop(u, w)
        IN  /\ v \in Shape /\ v.stops = [u.stops EXCEPT ![w] = "socket"]
            /\ \A x \in Stoppers : v.stops[x] = IF x = w THEN "socket" ELSE u.stops[x]
            /\ v.running = u.running /\ v.desired = u.desired /\ v.lock = u.lock
            /\ v.start = u.start /\ v.output = u.output /\ v.immediates = u.immediates
            /\ v.dead = u.dead /\ SameWrites(u, v)
    <3>1. u \in Shape /\ w \in Stoppers
      BY <1>4, <2>1, StopperNames DEF Quiet
    <3> QED BY <3>1, StopFields, Zenon
  <2>4. /\ c' \in Shape /\ SameWrites(u, c')
        /\ c'.running = c.running /\ c'.desired = c.desired /\ c'.lock = c.lock
        /\ c'.start = c.start /\ c'.immediates = c.immediates
        /\ \A x \in Stoppers : c'.stops[x] = IF x = w THEN "socket" ELSE c.stops[x]
    BY <1>4, <2>2, <2>3 DEF Quiet
  <2>5. c'.stops[StopState] = c.stops[StopState] /\ c'.stops[StartState] = c.stops[StartState]
    BY <2>1, <2>4, StopperNames
  <2>6. Busy(c') = Busy(c) \cup {w} /\ Restarting(c')
    BY <2>1, <2>4, StopperNames, StateNames DEF Busy, Restarting
  <2>7. Sane(c')
    BY <1>1, <2>4, <2>5, <2>6 DEF Sane, Coherent, Aimed, Streaming, Prompted
  <2>8. Cardinality(Busy(c')) <= faults'
    BY <2>1, <2>6, BusyGrows DEF Fault
  <2>9. faults' \in 0..MaxFaults
    BY FaultCounts
  <2>10. SameWrites(c, c')
    BY <1>5, <2>4 DEF SameWrites
  <2> QED BY <2>4, <2>7, <2>8, <2>9, <2>10 DEF ConsumerInv
<1> QED BY <1>6, <1>7

LEMMA OutputEndsInv ==
  ASSUME ConsumerInv, OutputEnds
  PROVE  ConsumerInv' /\ SameWrites(c, c')
<1> DEFINE r == [c EXCEPT !.output = "ended"]
<1>1. Alive /\ c \in Shape /\ Sane(c)
  BY DEF OutputEnds, ConsumerInv
<1>2. Quiet(c, r) /\ r.socket = c.socket
  BY <1>1 DEF Quiet, Shape, Streams
<1>3. CASE Fault /\ c' = Restart(Inc(r))
  <2> HIDE DEF r
  <2> QED BY <1>1, <1>2, <1>3, UnexpectedEnd
<1>4. CASE c.output = "ending" /\ Expected /\ c' = r
  <2> HIDE DEF r
  <2>1. Sane(r) /\ Busy(r) = Busy(c) /\ SameWrites(c, r)
    BY <1>1, <1>2, <1>4
       DEF Quiet, Sane, Coherent, Aimed, Streaming, Prompted, Restarting, Busy, SameWrites
  <2> QED BY <1>2, <1>4, <2>1, StepInv DEF Quiet
<1> QED BY <1>3, <1>4 DEF OutputEnds

LEMMA SocketEndsInv ==
  ASSUME ConsumerInv, SocketEnds
  PROVE  ConsumerInv' /\ SameWrites(c, c')
<1> DEFINE r == [c EXCEPT !.socket = "ended"]
<1>1. Alive /\ c \in Shape /\ Sane(c)
  BY DEF SocketEnds, ConsumerInv
<1>2. Quiet(c, r) /\ r.output = c.output
  BY <1>1 DEF Quiet, Shape, Streams
<1>3. CASE Fault /\ c' = Restart(Inc(r))
  <2> HIDE DEF r
  <2> QED BY <1>1, <1>2, <1>3, UnexpectedEnd
<1>4. CASE c.socket = "ending" /\ Expected /\ c' = r
  <2> HIDE DEF r
  <2>1. Sane(r) /\ Busy(r) = Busy(c) /\ SameWrites(c, r)
    BY <1>1, <1>2, <1>4
       DEF Quiet, Sane, Coherent, Aimed, Streaming, Prompted, Restarting, Busy, SameWrites
  <2> QED BY <1>2, <1>4, <2>1, StepInv DEF Quiet
<1> QED BY <1>3, <1>4 DEF SocketEnds

LEMMA LeakedEndsInv ==
  ASSUME ConsumerInv, LeakedEnds
  PROVE  ConsumerInv' /\ SameWrites(c, c')
<1> DEFINE r == [c EXCEPT !.leaked = c.leaked - 1]
<1>1. Alive /\ c \in Shape /\ c.leaked > 0 /\ Fault /\ c' = Restart(Inc(r))
  BY DEF LeakedEnds, ConsumerInv
<1>2. c.leaked - 1 \in Nat
  BY <1>1 DEF Shape
<1>3. Quiet(c, r)
  BY <1>1, <1>2 DEF Quiet, Shape
<1> HIDE DEF r
<1> QED BY <1>1, <1>3, UnexpectedEnd

LEMMA DisconnectedInv ==
  ASSUME ConsumerInv, NEW who \in Stoppers, Disconnected(who)
  PROVE  ConsumerInv' /\ SameWrites(c, c')
<1> DEFINE stops == [c.stops EXCEPT ![who] = "output"]
           output == Expect(c.output)
<1>1. /\ c \in Shape /\ Sane(c) /\ Alive /\ c.stops[who] = "socket" /\ (Fault \/ Expected)
      /\ c' = [c EXCEPT !.stops = stops, !.output = output]
  BY DEF Disconnected, ConsumerInv, Shape
<1>2. stops \in [Stoppers -> Awaited] /\ output \in Streams
      /\ \A w \in Stoppers : stops[w] # NoStop <=> c.stops[w] # NoStop
  BY <1>1, ExpectStream, StateNames DEF Shape, Awaited
<1> HIDE DEF stops, output
<1>3. /\ c' \in Shape /\ c'.stops = stops /\ c'.socket = c.socket
      /\ c'.running = c.running /\ c'.desired = c.desired /\ c'.lock = c.lock
      /\ c'.start = c.start /\ c'.immediates = c.immediates
      /\ c'.writeQueue = c.writeQueue /\ c'.written = c.written
  BY <1>1, <1>2 DEF Shape
<1>4. Busy(c') = Busy(c) /\ SameWrites(c, c') /\ (Restarting(c') <=> Restarting(c))
  BY <1>2, <1>3, StopperNames DEF Busy, SameWrites, Restarting
<1>5. Coherent(c') /\ Aimed(c') /\ Prompted(c')
  BY <1>1, <1>2, <1>3, StopperNames DEF Sane, Coherent, Aimed, Prompted
<1>6. Streaming(c')
  <2>1. CASE who \in Restarts
    <3>1. Restarting(c')
      BY <1>1, <1>4, <2>1, StateNames DEF Restarting
    <3> QED BY <3>1 DEF Streaming
  <2>2. CASE who = StopState
    BY <1>1, <1>3, <2>2, StateNames DEF Sane, Coherent, Streaming
  <2>3. CASE who = StartState
    BY <1>1, <1>3, <2>3, StateNames DEF Sane, Coherent, Streaming
  <2> QED BY <2>1, <2>2, <2>3 DEF Stoppers
<1> QED BY <1>1, <1>3, <1>4, <1>5, <1>6, StepInv DEF Sane

\* What _stop() leaves behind, for whoever called it.
LEMMA ServiceStoppedInv ==
  ASSUME ConsumerInv, NEW who \in Stoppers, ServiceStopped(who)
  PROVE  ConsumerInv' /\ SameWrites(c, c')
<1> DEFINE stops == [c.stops EXCEPT ![who] = NoStop]
           leaked == c.leaked + (IF c.output = "open" THEN 1 ELSE 0)
                              + (IF c.socket = "open" THEN 1 ELSE 0)
           r == [c EXCEPT !.running = STOPPED, !.stops = stops, !.banner = FALSE,
                          !.output = "none", !.socket = "none", !.leaked = leaked]
<1>1. /\ c \in Shape /\ Sane(c) /\ Alive /\ c.stops[who] = "output" /\ (Fault \/ Expected)
      /\ c' = Stopped(c, who)
  BY DEF ServiceStopped, ConsumerInv
<1>2. /\ stops \in [Stoppers -> Awaited]
      /\ \A w \in Stoppers : stops[w] = IF w = who THEN NoStop ELSE c.stops[w]
  BY <1>1 DEF Shape, Awaited
<1>3. leaked \in Nat
  BY <1>1 DEF Shape
<1>4. Stopped(c, who) = IF who = StartState THEN [r EXCEPT !.dead = TRUE]
                        ELSE IF who = StopState THEN EnsureState([r EXCEPT !.lock = FALSE])
                        ELSE Restarted(r)
  BY <1>1 DEF Stopped, Shape
<1> HIDE DEF stops, leaked
<1>5. /\ r \in Shape /\ r.stops = stops /\ r.running = STOPPED
      /\ r.desired = c.desired /\ r.lock = c.lock /\ r.start = c.start
      /\ r.immediates = c.immediates
      /\ r.writeQueue = c.writeQueue /\ r.written = c.written
  BY <1>1, <1>2, <1>3 DEF Shape, Running, Streams
<1> HIDE DEF r
<1>6. Busy(r) \subseteq Busy(c) /\ SameWrites(c, r)
  <2>1. \A w \in Restarts : r.stops[w] # NoStop => c.stops[w] # NoStop
    BY <1>2, <1>5, StopperNames
  <2> QED BY <1>5, <2>1, StateNames DEF Busy, SameWrites
<1>7. CASE who = StartState
  <2> DEFINE t == [r EXCEPT !.dead = TRUE]
  <2>1. /\ t \in Shape /\ t.dead /\ t.stops = r.stops /\ t.running = r.running
        /\ t.writeQueue = r.writeQueue /\ t.written = r.written
    BY <1>5 DEF Shape
  <2>2. c' = t
    BY <1>1, <1>4, <1>7
  <2> HIDE DEF t
  <2>3. Busy(t) \subseteq Busy(c) /\ SameWrites(c, t)
    BY <1>5, <1>6, <2>1 DEF Busy, SameWrites
  <2> QED BY <1>1, <2>1, <2>2, <2>3, StepInv
<1>8. CASE who = StopState
  <2> DEFINE t == [r EXCEPT !.lock = FALSE]
  <2>1. /\ t \in Shape /\ ~t.lock /\ t.stops = r.stops /\ t.running = r.running
        /\ t.start = r.start /\ t.desired = r.desired
        /\ t.writeQueue = r.writeQueue /\ t.written = r.written
    BY <1>5 DEF Shape
  <2>2. c' = EnsureState(t)
    BY <1>1, <1>4, <1>8, StopperNames
  <2> HIDE DEF t
  <2>3. t.stops[StopState] = NoStop /\ t.stops[StartState] = c.stops[StartState]
        /\ c.stops[StopState] # NoStop
    BY <1>1, <1>2, <1>5, <1>8, <2>1, StopperNames, StateNames
  <2>4. Coherent(t) /\ Aimed(t) /\ Streaming(t)
    BY <1>1, <1>5, <2>1, <2>3, StateNames, DesireFacts DEF Sane, Coherent, Aimed, Streaming
  <2>5. c' \in Shape /\ Sane(c') /\ SameWrites(t, c') /\ Busy(c') = Busy(t)
    BY <2>1, <2>2, <2>4, EnsureSane, Zenon
  <2>6. Busy(t) = Busy(r)
    BY <2>1 DEF Busy
  <2>7. SameWrites(c, c')
    BY <1>6, <2>1, <2>5 DEF SameWrites
  <2> QED BY <1>1, <1>6, <2>5, <2>6, <2>7, StepInv
<1>9. CASE who \in Restarts
  <2> DEFINE desired == Push(Push(r.desired, STOPPED), STARTED)
             t == [r EXCEPT !.desired = desired]
  <2>1. /\ desired \in Desires /\ desired # <<>>
        /\ r.desired \in {<<>>, StopThenStart} => desired = StopThenStart
        /\ r.desired = <<STARTED>> => desired = <<STARTED>>
    BY <1>5, AskForRestart, DesireFacts DEF Shape, Desires
  <2>2. c' = EnsureState(t)
    BY <1>1, <1>4, <1>5, <1>9, StopperNames DEF Restarted, Shape
  <2> HIDE DEF desired
  <2>3. /\ t \in Shape /\ t.lock = r.lock /\ t.stops = r.stops /\ t.running = r.running
        /\ t.start = r.start /\ t.desired = desired
        /\ t.writeQueue = r.writeQueue /\ t.written = r.written
    BY <1>5, <2>1 DEF Shape
  <2> HIDE DEF t
  <2>4. t.stops[StopState] = c.stops[StopState] /\ t.stops[StartState] = c.stops[StartState]
    BY <1>2, <1>5, <1>9, <2>3, StopperNames
  <2>5. Coherent(t) /\ Aimed(t) /\ Streaming(t)
    BY <1>1, <1>5, <2>1, <2>3, <2>4, StateNames, DesireFacts
       DEF Sane, Coherent, Aimed, Streaming
  <2>6. c' \in Shape /\ Sane(c') /\ SameWrites(t, c') /\ Busy(c') = Busy(t)
    BY <2>2, <2>3, <2>5, EnsureSane, Zenon
  <2>7. Busy(t) = Busy(r)
    BY <2>3 DEF Busy
  <2>8. SameWrites(c, c')
    BY <1>6, <2>3, <2>6 DEF SameWrites
  <2> QED BY <1>1, <1>6, <2>6, <2>7, <2>8, StepInv
<1> QED BY <1>7, <1>8, <1>9 DEF Stoppers

LEMMA ImmediateInv ==
  ASSUME ConsumerInv, Immediate
  PROVE  ConsumerInv' /\ SameWrites(c, c')
<1> DEFINE r == [c EXCEPT !.immediates = c.immediates - 1]
<1>1. Alive /\ c \in Shape /\ Sane(c) /\ c.immediates > 0 /\ Expected /\ c' = EnsureState(r)
  BY DEF Immediate, ConsumerInv
<1>2. c.immediates - 1 \in Nat
  BY <1>1 DEF Shape
<1>3. /\ r \in Shape /\ r.stops = c.stops /\ r.running = c.running /\ r.desired = c.desired
      /\ r.lock = c.lock /\ r.start = c.start /\ r.output = c.output /\ r.socket = c.socket
      /\ r.writeQueue = c.writeQueue /\ r.written = c.written
  BY <1>1, <1>2 DEF Shape
<1> HIDE DEF r
<1>4. Coherent(r) /\ Aimed(r) /\ Streaming(r)
  BY <1>1, <1>3 DEF Sane, Coherent, Aimed, Streaming, Restarting
<1>5. c' \in Shape /\ Sane(c') /\ SameWrites(r, c') /\ Busy(c') = Busy(r)
  BY <1>1, <1>3, <1>4, EnsureSane, Zenon
<1>6. Busy(r) = Busy(c) /\ SameWrites(c, c')
  BY <1>3, <1>5 DEF Busy, SameWrites
<1> QED BY <1>1, <1>5, <1>6, StepInv

LEMMA ForgetInv ==
  ASSUME ConsumerInv, Forget
  PROVE  ConsumerInv' /\ SameWrites(c, c')
<1>1. /\ c \in Shape /\ Sane(c) /\ c.fails > 0 /\ Expected
      /\ c' = [c EXCEPT !.fails = c.fails - 1]
  BY DEF Forget, ConsumerInv, Shape
<1>2. c.fails - 1 \in Nat
  BY <1>1 DEF Shape
<1>3. Quiet(c, c') /\ c'.output = c.output /\ c'.socket = c.socket
  BY <1>1, <1>2 DEF Quiet, Shape
<1>4. Sane(c') /\ Busy(c') = Busy(c) /\ SameWrites(c, c')
  BY <1>1, <1>3, QuietSane
<1> QED BY <1>1, <1>3, <1>4, StepInv DEF Quiet

\* The steps of the consumer keep its invariant, and but for the end of a start they write
\* nothing.
LEMMA ConsumerNextInv ==
  ASSUME ConsumerInv, ConsumerNext
  PROVE  ConsumerInv' /\ (SameWrites(c, c') \/ Flushed(c, c'))
BY ServiceStartedInv, ConnectedInv, BannerReadInv, StartFailsInv, OutputEndsInv, SocketEndsInv,
   LeakedEndsInv, DisconnectedInv, ServiceStoppedInv, ImmediateInv, ForgetInv
   DEF ConsumerNext

LEMMA InitConsumerInv == InitConsumer => ConsumerInv
<1> SUFFICES ASSUME InitConsumer PROVE ConsumerInv
  OBVIOUS
<1>0. NoStop \in Awaited /\ <<>> \in Seq(Messages) /\ 0 \in Nat
  BY DEF Awaited
<1>1. /\ c \in Shape /\ c.stops = [w \in Stoppers |-> NoStop] /\ c.start = "service"
      /\ c.lock /\ c.running = STARTING /\ c.desired = <<>>
  BY <1>0 DEF InitConsumer, Shape, Running, Desires, Starts, Streams
<1>2. \A w \in Stoppers : c.stops[w] = NoStop
  BY <1>1
<1>3. Busy(c) = {}
  BY <1>2, StopperNames DEF Busy
<1>4. Cardinality(Busy(c)) <= faults /\ faults \in 0..MaxFaults
  <2>1. faults = 0
    BY DEF InitConsumer
  <2>2. Cardinality(Busy(c)) = 0
    BY <1>3, FS_EmptySet
  <2> QED BY <2>1, <2>2, TouchConsumerAssumption
<1>5. Sane(c)
  BY <1>1, <1>2, StopperNames, StateNames DEF Sane, Coherent, Aimed, Streaming, Prompted
<1> QED BY <1>1, <1>4, <1>5 DEF ConsumerInv

-----------------------------------------------------------------------------
(* Sequence numbers.                                                       *)

LEMMA Multiple ==
  ASSUME NEW b \in Nat \ {0}, NEW x \in Int, -b < b * x, b * x < b
  PROVE  x = 0
<1>1. CASE x >= 1
  <2>1. b * x = b + b * (x - 1)
    OBVIOUS
  <2>2. b * (x - 1) >= 0
    BY <1>1
  <2> QED BY <2>1, <2>2
<1>2. CASE x <= -1
  <2>1. b * x = -b - b * (-x - 1)
    OBVIOUS
  <2>2. b * (-x - 1) >= 0
    BY <1>2
  <2> QED BY <2>1, <2>2
<1> QED BY <1>1, <1>2

\* The quotient and the rest are the only ones.
LEMMA OneRest ==
  ASSUME NEW b \in Nat \ {0}, NEW x \in Int, NEW y \in Int, NEW r \in 0..b-1, NEW s \in 0..b-1,
         b * x + r = b * y + s
  PROVE  r = s
<1>1. b * (x - y) = s - r
  <2>1. b * (x - y) = b * x - b * y
    OBVIOUS
  <2> QED BY <2>1
<1>2. x - y = 0
  BY <1>1, Multiple
<1> QED BY <1>1, <1>2

LEMMA SeqRange == ASSUME NEW m \in Nat \ {0} PROVE SeqOf(m) \in 0..Size - 1
<1>1. m - 1 \in Nat
  OBVIOUS
<1> QED BY <1>1, DivMod, SeqQueueAssumption DEF SeqOf

\* The position in the list that "lo" stands for.
At(lo) == IF lo >= Size THEN 0 ELSE lo

LEMMA SeqNext ==
  ASSUME NEW m \in Nat \ {0}
  PROVE  At(SeqOf(m) + 1) = SeqOf(m + 1)
<1> DEFINE d == (m - 1) \div Size
           e == m \div Size
           s == SeqOf(m + 1)
           r == SeqOf(m)
<1>0. Size \in Nat \ {0} /\ m - 1 \in Nat /\ m \in Nat /\ m + 1 - 1 = m
  BY SeqQueueAssumption
<1>1. m - 1 = Size * d + r /\ d \in Nat /\ r \in 0..Size - 1
  BY <1>0, DivMod DEF SeqOf
<1>2. m = Size * e + s /\ e \in Nat /\ s \in 0..Size - 1
  <2>1. s = m % Size
    BY <1>0 DEF SeqOf
  <2> QED BY <1>0, <2>1, DivMod
<1> HIDE DEF d, e, s, r
<1>3. CASE r + 1 < Size
  <2>1. Size * d + (r + 1) = Size * e + s
    BY <1>0, <1>1, <1>2
  <2>2. r + 1 \in 0..Size - 1
    BY <1>0, <1>1, <1>3
  <2>3. r + 1 = s
    BY <1>0, <1>1, <1>2, <2>1, <2>2, OneRest
  <2> QED BY <1>0, <1>1, <1>3, <2>3 DEF At, r, s
<1>4. CASE r + 1 >= Size
  <2>1. r + 1 = Size
    BY <1>0, <1>1, <1>4
  <2>2. Size * (d + 1) = Size * d + Size
    BY <1>0, <1>1
  <2>3. Size * (d + 1) + 0 = Size * e + s
    BY <1>0, <1>1, <1>2, <2>1, <2>2
  <2>4. 0 \in 0..Size - 1 /\ d + 1 \in Int
    BY <1>0, <1>1
  <2>5. d + 1 \in Int /\ e \in Int /\ Size * (d + 1) + 0 = Size * e + s
    BY <1>0, <1>1, <1>2, <2>3
  <2>6. 0 = s
    BY <1>0, <1>2, <2>4, <2>5, OneRest
  <2> QED BY <1>4, <2>6 DEF At, r, s
<1> QED BY <1>0, <1>1, <1>3, <1>4

\* Messages fewer than Size apart have numbers of their own.
LEMMA SeqDistinct ==
  ASSUME NEW a \in Nat \ {0}, NEW b \in Nat \ {0}, a < b, b < a + Size
  PROVE  SeqOf(a) # SeqOf(b)
<1> DEFINE d == (a - 1) \div Size
           e == (b - 1) \div Size
           r == SeqOf(a)
<1>0. Size \in Nat \ {0} /\ a - 1 \in Nat /\ b - 1 \in Nat
  BY SeqQueueAssumption
<1> SUFFICES ASSUME SeqOf(b) = r PROVE FALSE
  OBVIOUS
<1>1. a - 1 = Size * d + r /\ d \in Nat /\ r \in 0..Size - 1
  BY <1>0, DivMod DEF SeqOf
<1>2. b - 1 = Size * e + r /\ e \in Nat
  BY <1>0, DivMod DEF SeqOf
<1> HIDE DEF d, e, r
<1>3. Size * (e - d) = b - a
  <2>1. Size * (e - d) = Size * e - Size * d
    BY <1>0, <1>1, <1>2
  <2> QED BY <1>0, <1>1, <1>2, <2>1
<1>4. e - d = 0
  BY <1>0, <1>1, <1>2, <1>3, Multiple
<1> QED BY <1>0, <1>3, <1>4

-----------------------------------------------------------------------------
(* The queue of messages.                                                  *)

HandlerOf(m) == [message |-> m, stops |-> Kinds[m] = "stop"]
Handlers == {NoHandler} \cup {HandlerOf(m) : m \in Messages}

\* A queue, and what its loop has run.
Queues ==
  [lo : 0..Size, waiting : Nat, list : [0..Size - 1 -> Handlers], locked : BOOLEAN,
   ran : Seq(Messages)]

LEMMA MessageFacts == Len(Kinds) \in Nat /\ Messages = 1..Len(Kinds) /\ Messages \subseteq Nat \ {0}
BY TouchAssumption DEF Messages

LEMMA HandlerFacts ==
  /\ NoHandler \in Handlers
  /\ \A m \in Messages : /\ HandlerOf(m) \in Handlers /\ HandlerOf(m) # NoHandler
                         /\ HandlerOf(m).message = m /\ HandlerOf(m).stops = (Kinds[m] = "stop")
  /\ \A h \in Handlers : h # NoHandler => h.message \in Messages /\ h.stops \in BOOLEAN
<1>1. \A m \in Messages : HandlerOf(m).message = m /\ HandlerOf(m).stops = (Kinds[m] = "stop")
  BY DEF HandlerOf
<1>2. NoHandler.message = 0
  BY DEF NoHandler
<1>3. \A m \in Messages : HandlerOf(m) # NoHandler
  BY <1>1, <1>2, MessageFacts
<1>4. ASSUME NEW h \in Handlers, h # NoHandler PROVE h.message \in Messages /\ h.stops \in BOOLEAN
  <2>1. PICK m \in Messages : h = HandlerOf(m)
    BY <1>4 DEF Handlers
  <2> QED BY <1>1, <2>1
<1>5. NoHandler \in Handlers /\ \A m \in Messages : HandlerOf(m) \in Handlers
  BY DEF Handlers
<1> QED BY <1>1, <1>3, <1>4, <1>5

\* What a turn of the loop does.
LEMMA Turn ==
  ASSUME NEW x \in Queues
  PROVE  LET y == ConsumeOne(x)
             lo == At(x.lo)
         IN  /\ y \in Queues /\ lo \in 0..Size - 1
             /\ \/ x.waiting = 0 /\ y = x
                \/ /\ x.waiting # 0 /\ x.list[lo] # NoHandler
                   /\ y.lo = lo + 1 /\ y.waiting = x.waiting - 1
                   /\ y.list = [x.list EXCEPT ![lo] = NoHandler]
                   /\ y.locked = (x.locked \/ x.list[lo].stops)
                   /\ y.ran = Append(x.ran, x.list[lo].message)
                \/ x.waiting >= MaxWaiting /\ x.list[lo] = NoHandler
                \/ /\ x.waiting # 0 /\ x.waiting < MaxWaiting /\ x.list[lo] = NoHandler
                   /\ y.lo = lo /\ y.waiting = x.waiting /\ y.list = x.list
                   /\ y.locked = x.locked /\ y.ran = x.ran
<1> DEFINE y == ConsumeOne(x)
           lo == At(x.lo)
           handler == x.list[lo]
           list == [x.list EXCEPT ![lo] = NoHandler]
           locked == x.locked \/ handler.stops
           ran1 == Append(x.ran, handler.message)
<1>0. /\ x.lo \in 0..Size /\ x.waiting \in Nat /\ x.list \in [0..Size - 1 -> Handlers]
      /\ x.locked \in BOOLEAN /\ x.ran \in Seq(Messages)
  BY DEF Queues
<1>1. lo \in 0..Size - 1 /\ lo + 1 \in 0..Size /\ lo \in 0..Size
  BY <1>0, SeqQueueAssumption DEF At
<1>2. y = LET moved == [x EXCEPT !.lo = lo + 1, !.waiting = @ - 1]
          IN IF x.waiting = 0 THEN x
             ELSE IF handler # NoHandler
             THEN [moved EXCEPT !.list[lo] = NoHandler,
                                !.locked = @ \/ handler.stops,
                                !.ran = Append(@, handler.message)]
             ELSE IF x.waiting >= MaxWaiting THEN moved
             ELSE [x EXCEPT !.lo = lo]
  BY DEF ConsumeOne, At
<1>3. handler \in Handlers /\ list \in [0..Size - 1 -> Handlers]
  BY <1>0, <1>1, HandlerFacts
<1> SUFFICES /\ y \in Queues /\ lo \in 0..Size - 1
             /\ \/ x.waiting = 0 /\ y = x
                \/ /\ x.waiting # 0 /\ handler # NoHandler
                   /\ y.lo = lo + 1 /\ y.waiting = x.waiting - 1
                   /\ y.list = list
                   /\ y.locked = locked
                   /\ y.ran = ran1
                \/ x.waiting >= MaxWaiting /\ handler = NoHandler
                \/ /\ x.waiting # 0 /\ x.waiting < MaxWaiting /\ handler = NoHandler
                   /\ y.lo = lo /\ y.waiting = x.waiting /\ y.list = x.list
                   /\ y.locked = x.locked /\ y.ran = x.ran
  OBVIOUS
<1>4. CASE x.waiting = 0
  <2>1. y = x
    BY <1>2, <1>4
  <2> QED BY <1>1, <1>4, <2>1
<1>5. CASE x.waiting # 0 /\ handler # NoHandler
  <2>1. handler.message \in Messages /\ handler.stops \in BOOLEAN
    BY <1>3, <1>5, HandlerFacts
  <2>2. locked \in BOOLEAN /\ ran1 \in Seq(Messages) /\ x.waiting - 1 \in Nat
    BY <1>0, <1>5, <2>1
  <2>3. y = [x EXCEPT !.lo = lo + 1, !.waiting = x.waiting - 1, !.list = list,
                      !.locked = locked, !.ran = ran1]
    BY <1>2, <1>5 DEF Queues
  <2> HIDE DEF lo, y, handler, list, locked, ran1
  <2>4. y \in Queues /\ y.lo = lo + 1 /\ y.waiting = x.waiting - 1 /\ y.list = list
        /\ y.locked = locked /\ y.ran = ran1
    BY <1>1, <1>3, <2>2, <2>3 DEF Queues
  <2> QED BY <1>1, <1>5, <2>4
<1>6. CASE x.waiting # 0 /\ handler = NoHandler /\ x.waiting >= MaxWaiting
  <2>1. y = [x EXCEPT !.lo = lo + 1, !.waiting = x.waiting - 1] /\ x.waiting - 1 \in Nat
    BY <1>0, <1>2, <1>6
  <2> HIDE DEF lo, y, handler, list, locked, ran1
  <2>2. y \in Queues
    BY <1>1, <2>1 DEF Queues
  <2> QED BY <1>1, <1>6, <2>2
<1>7. CASE x.waiting # 0 /\ handler = NoHandler /\ ~ (x.waiting >= MaxWaiting)
  <2>1. y = [x EXCEPT !.lo = lo]
    BY <1>2, <1>7
  <2>2. x.waiting < MaxWaiting
    BY <1>0, <1>7, SeqQueueAssumption
  <2> HIDE DEF lo, y, handler, list, locked, ran1
  <2>3. y \in Queues /\ y.lo = lo /\ y.waiting = x.waiting /\ y.list = x.list
        /\ y.locked = x.locked /\ y.ran = x.ran
    BY <1>1, <2>1 DEF Queues
  <2> QED BY <1>1, <1>7, <2>2, <2>3
<1> QED BY <1>4, <1>5, <1>6, <1>7

\* Consume() is the turns one after the other.
LEMMA ConsumeTurns ==
  ASSUME NEW s \in Queues
  PROVE  \E f \in [0..s.waiting -> Queues] :
           /\ f[0] = s /\ \A i \in 1..s.waiting : f[i] = ConsumeOne(f[i - 1])
           /\ Consume(s) = f[s.waiting]
<1> DEFINE n == s.waiting
           Next1(f, i) == IF i = 0 THEN s ELSE ConsumeOne(f[i - 1])
           consumed == CHOOSE f : f = [i \in 0..n |-> Next1(f, i)]
           step == [i \in 1..n |-> [x \in Queues |-> ConsumeOne(x)]]
<1>1. n \in Nat
  BY DEF Queues
<1>2. Consume(s) = consumed[n]
  BY DEF Consume
<1> HIDE DEF n
<1>3. \A x \in Queues : ConsumeOne(x) \in Queues
  BY Turn
<1>4. \E f : f = [i \in 0..n |-> Next1(f, i)]
  <2>1. step \in Steps(n, Queues)
    BY <1>3 DEF Steps
  <2>2. \A i \in 1..n, x \in Queues : step[i][x] = ConsumeOne(x)
    OBVIOUS
  <2> HIDE DEF step
  <2>3. PICK f \in [0..n -> Queues] : f[0] = s /\ \A i \in 1..n : f[i] = step[i][f[i - 1]]
    BY <1>1, <2>1, Recursion
  <2>4. ASSUME NEW i \in 0..n PROVE f[i] = Next1(f, i)
    <3>1. CASE i = 0
      BY <2>3, <3>1
    <3>2. CASE i # 0
      <4>1. i \in 1..n /\ i - 1 \in 0..n
        BY <1>1, <3>2
      <4>2. f[i - 1] \in Queues
        BY <4>1
      <4> QED BY <2>2, <2>3, <3>2, <4>1, <4>2
    <3> QED BY <3>1, <3>2
  <2>5. f = [i \in 0..n |-> f[i]]
    OBVIOUS
  <2> HIDE DEF Next1
  <2>6. f = [i \in 0..n |-> Next1(f, i)]
    BY <2>4, <2>5
  <2> QED BY <2>6
<1>5. consumed = [i \in 0..n |-> Next1(consumed, i)]
  <2> HIDE DEF Next1
  <2> QED BY <1>4
<1> HIDE DEF consumed, step
<1>6. \A i \in 0..n : consumed[i] = Next1(consumed, i)
  <2> HIDE DEF Next1
  <2> QED BY <1>5
<1>7. consumed[0] = s /\ \A i \in 1..n : consumed[i] = ConsumeOne(consumed[i - 1])
  BY <1>1, <1>6
<1> DEFINE U == {i \in Nat : i <= n => consumed[i] \in Queues}
<1>8. 0 \in U
  BY <1>7
<1>9. ASSUME NEW i \in Nat, i \in U PROVE i + 1 \in U
  <2> SUFFICES ASSUME i + 1 <= n PROVE consumed[i + 1] \in Queues
    OBVIOUS
  <2>1. i <= n /\ i + 1 \in 1..n /\ (i + 1) - 1 = i
    BY <1>1
  <2>2. consumed[i] \in Queues
    BY <1>9, <2>1
  <2> QED BY <1>3, <1>7, <2>1, <2>2
<1> HIDE DEF U
<1>10. Nat \subseteq U
  BY <1>8, <1>9, NatSetInduction
<1>11. \A i \in 0..n : consumed[i] \in Queues
  BY <1>1, <1>10 DEF U
<1>12. consumed \in [0..n -> Queues]
  <2>1. consumed = [i \in 0..n |-> consumed[i]]
    <3> HIDE DEF Next1
    <3> QED BY <1>5
  <2> QED BY <1>11, <2>1
<1> QED BY <1>2, <1>7, <1>12 DEF n

-----------------------------------------------------------------------------
(* What the queue holds while no message is lost: k is the next one, n have been sent *)
(* and t are on their way.                                                            *)

Arrived(k, n, t) == (k..n) \ t
Held(s, k, n, t) ==
  /\ \A m \in Arrived(k, n, t) : s.list[SeqOf(m)] = HandlerOf(m)
  /\ \A i \in 0..Size - 1 :
       s.list[i] # NoHandler => \E m \in Arrived(k, n, t) : SeqOf(m) = i
  /\ s.waiting = Cardinality(Arrived(k, n, t))
Near(k, n, t) ==
  /\ \A m \in t : k <= m
  /\ \A m \in Arrived(k, n, t) : m < k + Window
  /\ \A m \in k + 1..n : Kinds[m] # "start"
Told(s, k, n) ==
  /\ s.locked <=> IF k <= n THEN Kinds[k] = "start" ELSE n = 0 \/ Kinds[n] = "stop"
  /\ ~s.locked => At(s.lo) = SeqOf(k)
Done(h, k) ==
  /\ h \in Seq(Messages) /\ Increasing(h)
  /\ \A m \in Messages : (\E i \in DOMAIN h : h[i] = m) <=> (m \in Handled /\ m < k)

\* The same in the loop, where h has run before it.
Looping(s, k, n, t, h) ==
  /\ k \in 1..n + 1
  /\ Held(s, k, n, t) /\ Near(k, n, t) /\ Told(s, k, n) /\ (s.locked => s.waiting = 0)
  /\ Done(h \o s.ran, k)

LEMMA ArrivedFacts ==
  ASSUME NEW n \in 0..Len(Kinds), NEW k \in 1..n + 1, NEW t
  PROVE  /\ IsFiniteSet(Arrived(k, n, t)) /\ Cardinality(Arrived(k, n, t)) \in Nat
         /\ Arrived(k, n, t) \subseteq Messages
         /\ Arrived(k, n, t) = {} <=> Cardinality(Arrived(k, n, t)) = 0
         /\ Arrived(k + 1, n, t) = Arrived(k, n, t) \ {k}
         /\ k \in Arrived(k, n, t) =>
              Cardinality(Arrived(k + 1, n, t)) = Cardinality(Arrived(k, n, t)) - 1
<1> DEFINE A == Arrived(k, n, t)
<1>1. k \in Int /\ n \in Int /\ IsFiniteSet(k..n)
  BY MessageFacts, FS_Interval
<1>2. A \subseteq k..n /\ A \subseteq Messages
  BY <1>1, MessageFacts DEF Arrived
<1>3. IsFiniteSet(A) /\ Cardinality(A) \in Nat
  BY <1>1, <1>2, FS_Subset, FS_CardinalityType
<1>4. Arrived(k + 1, n, t) = A \ {k}
  BY <1>1, MessageFacts DEF Arrived
<1> HIDE DEF A
<1>5. A = {} <=> Cardinality(A) = 0
  BY <1>3, FS_EmptySet
<1>6. k \in A => Cardinality(A \ {k}) = Cardinality(A) - 1
  BY <1>3, FS_RemoveElement
<1> QED BY <1>2, <1>3, <1>4, <1>5, <1>6 DEF A

LEMMA DoneNext ==
  ASSUME NEW k \in Messages, NEW h, Done(h, k)
  PROVE  /\ Kinds[k] # "start" => Done(Append(h, k), k + 1)
         /\ Kinds[k] = "start" => Done(h, k + 1)
<1>1. h \in Seq(Messages) /\ k \in Nat /\ Messages \subseteq Nat /\ Len(h) \in Nat
      /\ DOMAIN h = 1..Len(h)
  BY MessageFacts DEF Done
<1>2. CASE Kinds[k] = "start"
  <2>1. k \notin Handled
    BY <1>2 DEF Handled
  <2>2. \A m \in Messages : (m \in Handled /\ m < k + 1) <=> (m \in Handled /\ m < k)
    BY <1>1, <2>1
  <2> QED BY <1>2, <2>2 DEF Done
<1>3. CASE Kinds[k] # "start"
  <2> DEFINE g == Append(h, k)
  <2>1. /\ g \in Seq(Messages) /\ DOMAIN g = 1..Len(h) + 1 /\ g[Len(h) + 1] = k
        /\ \A i \in 1..Len(h) : g[i] = h[i]
    BY <1>1
  <2> HIDE DEF g
  <2>2. \A i \in 1..Len(h) : h[i] \in Messages /\ h[i] < k
    <3> TAKE i \in 1..Len(h)
    <3>1. h[i] \in Messages
      BY <1>1
    <3> QED BY <1>1, <3>1 DEF Done
  <2>3. Increasing(g)
    <3> SUFFICES ASSUME NEW i \in 1..Len(h) + 1, NEW j \in 1..Len(h) + 1, i < j
                 PROVE  g[i] < g[j]
      BY <2>1 DEF Increasing
    <3>1. CASE j = Len(h) + 1
      <4>1. i \in 1..Len(h)
        BY <1>1, <3>1
      <4> QED BY <2>1, <2>2, <3>1, <4>1
    <3>2. CASE j # Len(h) + 1
      <4>1. i \in 1..Len(h) /\ j \in 1..Len(h)
        BY <1>1, <3>2
      <4> QED BY <1>1, <2>1, <4>1 DEF Done, Increasing
    <3> QED BY <3>1, <3>2
  <2>4. ASSUME NEW m \in Messages
        PROVE  (\E i \in DOMAIN g : g[i] = m) <=> (m \in Handled /\ m < k + 1)
    <3>1. (\E i \in DOMAIN g : g[i] = m) <=> (\E i \in DOMAIN h : h[i] = m) \/ m = k
      <4>1. Len(h) + 1 \in DOMAIN g /\ \A i \in DOMAIN h : i \in DOMAIN g
        BY <1>1, <2>1
      <4>2. \A i \in DOMAIN g : i \in DOMAIN h \/ i = Len(h) + 1
        BY <1>1, <2>1
      <4> QED BY <1>1, <2>1, <4>1, <4>2
    <3>2. (\E i \in DOMAIN h : h[i] = m) <=> (m \in Handled /\ m < k)
      BY DEF Done
    <3>3. k \in Handled
      BY <1>3 DEF Handled
    <3>4. m \in Nat
      BY <1>1
    <3> QED BY <1>1, <3>1, <3>2, <3>3, <3>4
  <2> QED BY <1>3, <2>1, <2>3, <2>4 DEF Done, g
<1> QED BY <1>2, <1>3

\* Messages that have arrived have numbers of their own.
LEMMA ArrivedDistinct ==
  ASSUME Narrow, NEW n \in 0..Len(Kinds), NEW k \in 1..n + 1, NEW t, Near(k, n, t)
  PROVE  /\ \A a \in Arrived(k, n, t) : a # k => SeqOf(a) # SeqOf(k)
         /\ \A a, b \in Arrived(k, n, t) : SeqOf(a) = SeqOf(b) => a = b
<1>0. /\ n \in Nat /\ k \in Nat \ {0} /\ Size \in Nat \ {0} /\ Window <= Size /\ Window \in Nat
  BY MessageFacts, SeqQueueAssumption, TouchAssumption DEF Narrow
<1>1. \A a \in Arrived(k, n, t) : a \in Nat \ {0} /\ k <= a /\ a < k + Size
  <2> TAKE a \in Arrived(k, n, t)
  <2>1. a \in k..n
    BY DEF Arrived
  <2>2. a < k + Window
    BY DEF Near
  <2> QED BY <1>0, <2>1, <2>2
<1>2. ASSUME NEW a \in Arrived(k, n, t), NEW b \in Arrived(k, n, t), a < b
      PROVE  SeqOf(a) # SeqOf(b)
  <2>1. a \in Nat \ {0} /\ b \in Nat \ {0} /\ b < a + Size
    BY <1>0, <1>1
  <2> QED BY <1>2, <2>1, SeqDistinct
<1>3. ASSUME NEW a \in Arrived(k, n, t), a # k PROVE SeqOf(a) # SeqOf(k)
  <2>1. a \in Nat \ {0} /\ k < a /\ a < k + Size
    BY <1>0, <1>1, <1>3
  <2> QED BY <1>0, <2>1, SeqDistinct
<1>4. ASSUME NEW a \in Arrived(k, n, t), NEW b \in Arrived(k, n, t), SeqOf(a) = SeqOf(b)
      PROVE  a = b
  <2>1. a \in Nat /\ b \in Nat
    BY <1>1
  <2>2. ~ (a < b) /\ ~ (b < a)
    BY <1>2, <1>4
  <2> QED BY <2>1, <2>2
<1> QED BY <1>3, <1>4

\* A turn runs the handler of the next message when it is there.
LEMMA TurnRuns ==
  ASSUME Gestures, Narrow, NEW n \in 0..Len(Kinds), NEW k \in 1..n + 1, NEW t \in SUBSET (1..n),
         NEW h \in Seq(Messages),
         NEW s \in Queues, Looping(s, k, n, t, h), k \in Arrived(k, n, t)
  PROVE  LET y == ConsumeOne(s)
         IN  y \in Queues /\ y.waiting = s.waiting - 1 /\ Looping(y, k + 1, n, t, h)
<1> DEFINE y == ConsumeOne(s)
           lo == SeqOf(k)
           A == Arrived(k, n, t)
           B == Arrived(k + 1, n, t)
<1>0. /\ n \in Nat /\ k \in 1..n /\ k \in Nat \ {0} /\ k \in Messages /\ k \notin t /\ n \in Messages
      /\ lo \in 0..Size - 1 /\ k + 1 \in 1..n + 1
  <2>1. k \in k..n /\ k \notin t
    BY DEF Arrived
  <2> QED BY <2>1, MessageFacts, SeqRange
<1>1. /\ Held(s, k, n, t) /\ Near(k, n, t) /\ Told(s, k, n) /\ (s.locked => s.waiting = 0)
      /\ Done(h \o s.ran, k)
  BY DEF Looping
<1>2. A # {} /\ Cardinality(A) # 0 /\ B = A \ {k} /\ Cardinality(B) = Cardinality(A) - 1
      /\ Cardinality(A) \in Nat
  BY <1>0, ArrivedFacts
<1>3. s.waiting # 0 /\ ~s.locked /\ s.waiting = Cardinality(A)
  BY <1>1, <1>2 DEF Held
<1>4. At(s.lo) = lo /\ Kinds[k] # "start"
  BY <1>0, <1>1, <1>3 DEF Told
<1>5. s.list[lo] = HandlerOf(k)
  BY <1>1 DEF Held
<1>6. HandlerOf(k) # NoHandler /\ HandlerOf(k).message = k
      /\ HandlerOf(k).stops = (Kinds[k] = "stop")
  BY <1>0, HandlerFacts
<1>7. /\ y \in Queues /\ y.lo = lo + 1 /\ y.waiting = s.waiting - 1
      /\ y.list = [s.list EXCEPT ![lo] = NoHandler]
      /\ y.locked = (s.locked \/ HandlerOf(k).stops)
      /\ y.ran = Append(s.ran, k)
  <2>1. LET z == ConsumeOne(s)
            l == At(s.lo)
        IN  /\ z \in Queues /\ l \in 0..Size - 1
            /\ \/ s.waiting = 0 /\ z = s
               \/ /\ s.waiting # 0 /\ s.list[l] # NoHandler
                  /\ z.lo = l + 1 /\ z.waiting = s.waiting - 1
                  /\ z.list = [s.list EXCEPT ![l] = NoHandler]
                  /\ z.locked = (s.locked \/ s.list[l].stops)
                  /\ z.ran = Append(s.ran, s.list[l].message)
               \/ s.waiting >= MaxWaiting /\ s.list[l] = NoHandler
               \/ /\ s.waiting # 0 /\ s.waiting < MaxWaiting /\ s.list[l] = NoHandler
                  /\ z.lo = l /\ z.waiting = s.waiting /\ z.list = s.list
                  /\ z.locked = s.locked /\ z.ran = s.ran
    BY Turn, Zenon
  <2> HIDE DEF lo
  <2> QED BY <1>3, <1>4, <1>5, <1>6, <2>1
<1>8. s.list \in [0..Size - 1 -> Handlers] /\ s.ran \in Seq(Messages)
      /\ s.locked \in BOOLEAN
  BY DEF Queues
<1> SUFFICES y \in Queues /\ y.waiting = s.waiting - 1 /\ Looping(y, k + 1, n, t, h)
  OBVIOUS
<1> HIDE DEF y, lo, A, B
<1>9. Held(y, k + 1, n, t)
  <2>1. \A m \in B : y.list[SeqOf(m)] = HandlerOf(m)
    <3> TAKE m \in B
    <3>1. m \in A /\ m # k /\ m \in Messages
      BY <1>0, <1>2, ArrivedFacts DEF A
    <3>2. SeqOf(m) # lo /\ SeqOf(m) \in 0..Size - 1
      BY <1>0, <1>1, <3>1, ArrivedDistinct, SeqRange, MessageFacts DEF A, lo
    <3>3. s.list[SeqOf(m)] = HandlerOf(m)
      BY <1>1, <3>1 DEF Held, A
    <3> QED BY <1>7, <1>8, <3>2, <3>3
  <2>2. \A i \in 0..Size - 1 : y.list[i] # NoHandler => \E m \in B : SeqOf(m) = i
    <3> SUFFICES ASSUME NEW i \in 0..Size - 1, y.list[i] # NoHandler
                 PROVE  \E m \in B : SeqOf(m) = i
      OBVIOUS
    <3>1. i # lo /\ s.list[i] # NoHandler
      BY <1>7, <1>8
    <3>2. PICK m \in A : SeqOf(m) = i
      BY <1>1, <3>1 DEF Held, A
    <3> QED BY <1>2, <3>1, <3>2 DEF lo
  <2>3. y.waiting = Cardinality(B)
    BY <1>2, <1>3, <1>7
  <2> QED BY <2>1, <2>2, <2>3 DEF Held, B
<1>10. Near(k + 1, n, t)
  <2>1. \A m \in t : k + 1 <= m
    <3> TAKE m \in t
    <3>1. k <= m /\ m # k /\ m \in 1..n
      BY <1>0, <1>1 DEF Near
    <3> QED BY <1>0, <3>1
  <2>2. \A m \in B : m < k + 1 + Window
    <3> TAKE m \in B
    <3>1. m < k + Window
      BY <1>1, <1>2 DEF Near, A
    <3>2. m \in Nat
      BY <1>0, <1>2, ArrivedFacts, MessageFacts DEF A
    <3> QED BY <1>0, <3>1, <3>2, TouchAssumption
  <2>3. \A m \in k + 1 + 1..n : Kinds[m] # "start"
    <3> TAKE m \in k + 1 + 1..n
    <3>1. m \in k + 1..n
      BY <1>0
    <3> QED BY <1>1, <3>1 DEF Near
  <2> QED BY <2>1, <2>2, <2>3 DEF Near, B
<1>11. Kinds[k] = "stop" => k = n
  <2> SUFFICES ASSUME Kinds[k] = "stop", k # n PROVE FALSE
    OBVIOUS
  <2>1. k + 1 \in k + 1..n /\ k + 1 \in Messages /\ k + 1 > 1 /\ k + 1 - 1 = k
    BY <1>0, MessageFacts
  <2>2. Kinds[k + 1] = "start"
    BY <2>1 DEF Gestures
  <2> QED BY <1>1, <2>1, <2>2 DEF Near
<1>12. y.locked = (Kinds[k] = "stop")
  BY <1>3, <1>6, <1>7, <1>8
<1>13. Told(y, k + 1, n)
  <2>1. At(y.lo) = SeqOf(k + 1)
    BY <1>0, <1>7, SeqNext DEF lo
  <2>2. CASE k = n
    <3>1. ~ (k + 1 <= n) /\ n # 0
      BY <1>0, <2>2
    <3> QED BY <1>12, <2>1, <2>2, <3>1 DEF Told
  <2>3. CASE k # n
    <3>1. k + 1 <= n /\ k + 1 \in k + 1..n
      BY <1>0, <2>3
    <3>2. Kinds[k + 1] # "start"
      BY <1>1, <3>1 DEF Near
    <3> QED BY <1>11, <1>12, <2>1, <2>3, <3>1, <3>2 DEF Told
  <2> QED BY <2>2, <2>3
<1>14. y.locked => y.waiting = 0
  <2> SUFFICES ASSUME Kinds[k] = "stop" PROVE y.waiting = 0
    BY <1>12
  <2>1. k = n
    BY <1>11
  <2>2. B = {}
    <3>1. k + 1..n = {}
      BY <1>0, <2>1
    <3> QED BY <3>1 DEF B, Arrived
  <2> QED BY <1>2, <1>3, <1>7, <2>2, FS_EmptySet
<1>15. Done(h \o y.ran, k + 1)
  <2>1. h \o Append(s.ran, k) = Append(h \o s.ran, k)
    BY <1>0, <1>8
  <2> QED BY <1>0, <1>1, <1>4, <1>7, <2>1, DoneNext
<1> QED BY <1>0, <1>7, <1>9, <1>10, <1>13, <1>14, <1>15 DEF Looping

\* Where the next message is missing the queue waits for it.
LEMMA TurnWaits ==
  ASSUME Narrow, NEW n \in 0..Len(Kinds), NEW k \in 1..n + 1, NEW t \in SUBSET (1..n),
         NEW h \in Seq(Messages),
         NEW s \in Queues, Looping(s, k, n, t, h), k \notin Arrived(k, n, t)
  PROVE  ConsumeOne(s) \in Queues /\ Looping(ConsumeOne(s), k, n, t, h)
<1> DEFINE y == ConsumeOne(s)
           A == Arrived(k, n, t)
<1>0. /\ n \in Nat /\ k \in Nat \ {0} /\ SeqOf(k) \in 0..Size - 1
      /\ Window \in Nat \ {0} /\ Window <= MaxWaiting /\ MaxWaiting \in Nat \ {0}
      /\ Size \in Nat \ {0}
  BY MessageFacts, SeqRange, TouchAssumption, SeqQueueAssumption DEF Narrow
<1>1. /\ Held(s, k, n, t) /\ Near(k, n, t) /\ Told(s, k, n) /\ (s.locked => s.waiting = 0)
      /\ Done(h \o s.ran, k)
  BY DEF Looping
<1>2. LET z == ConsumeOne(s)
          l == At(s.lo)
      IN  /\ z \in Queues /\ l \in 0..Size - 1
          /\ \/ s.waiting = 0 /\ z = s
             \/ /\ s.waiting # 0 /\ s.list[l] # NoHandler
                /\ z.lo = l + 1 /\ z.waiting = s.waiting - 1
                /\ z.list = [s.list EXCEPT ![l] = NoHandler]
                /\ z.locked = (s.locked \/ s.list[l].stops)
                /\ z.ran = Append(s.ran, s.list[l].message)
             \/ s.waiting >= MaxWaiting /\ s.list[l] = NoHandler
             \/ /\ s.waiting # 0 /\ s.waiting < MaxWaiting /\ s.list[l] = NoHandler
                /\ z.lo = l /\ z.waiting = s.waiting /\ z.list = s.list
                /\ z.locked = s.locked /\ z.ran = s.ran
  BY Turn, Zenon
<1>3. CASE s.waiting = 0
  <2>1. y = s
    BY <1>0, <1>2, <1>3
  <2> QED BY <2>1
<1>4. CASE s.waiting # 0
  <2>1. ~s.locked /\ At(s.lo) = SeqOf(k)
    BY <1>1, <1>4 DEF Told
  <2>2. s.list[SeqOf(k)] = NoHandler
    <3> SUFFICES ASSUME s.list[SeqOf(k)] # NoHandler PROVE FALSE
      OBVIOUS
    <3>1. PICK m \in A : SeqOf(m) = SeqOf(k)
      BY <1>0, <1>1 DEF Held
    <3>2. m # k
      OBVIOUS
    <3> HIDE DEF A
    <3> QED BY <1>1, <3>1, <3>2, ArrivedDistinct DEF A
  <2>3. s.waiting < MaxWaiting
    <3> DEFINE first == k + 1
               last == k + (Window - 1)
               size == Cardinality(first..last)
               here == Cardinality(A)
    <3>1. first \in Int /\ last \in Int /\ last - first + 1 = Window - 1
      BY <1>0
    <3>2. A \subseteq first..last
      <4> SUFFICES ASSUME NEW m \in A PROVE m \in first..last
        OBVIOUS
      <4>1. m \in k..n /\ m # k /\ m < k + Window
        BY <1>1 DEF Near, Arrived
      <4> QED BY <1>0, <4>1
    <3> HIDE DEF first, last, A
    <3>3. IsFiniteSet(first..last) /\ size = IF first > last THEN 0 ELSE last - first + 1
      BY <3>1, FS_Interval
    <3>4. here <= size /\ IsFiniteSet(A)
      BY <3>2, <3>3, FS_Subset
    <3>5. s.waiting = here
      BY <1>1 DEF Held, A
    <3>6. here \in Nat
      BY <3>4, FS_CardinalityType
    <3> HIDE DEF here, size
    <3> QED BY <1>0, <3>1, <3>3, <3>4, <3>5, <3>6
  <2>4. s.waiting \in Nat /\ At(s.lo) \in 0..Size - 1
    BY <1>2 DEF Queues
  <2>5. /\ y \in Queues /\ y.lo = At(s.lo) /\ y.waiting = s.waiting /\ y.list = s.list
        /\ y.locked = s.locked /\ y.ran = s.ran
    BY <1>0, <1>2, <1>4, <2>1, <2>2, <2>3, <2>4
  <2> HIDE DEF y, A
  <2>6. At(y.lo) = At(s.lo)
    BY <1>0, <2>4, <2>5 DEF At
  <2>7. Held(y, k, n, t) /\ Told(y, k, n)
    BY <1>1, <2>5, <2>6 DEF Held, Told
  <2> QED BY <1>1, <2>5, <2>7 DEF Looping, y
<1> QED BY <1>3, <1>4

\* The loop runs all that is there.
LEMMA LoopRunsAll ==
  ASSUME Gestures, Narrow, NEW n \in 0..Len(Kinds), NEW k \in 1..n + 1, NEW t \in SUBSET (1..n),
         NEW h \in Seq(Messages),
         NEW s \in Queues, Looping(s, k, n, t, h)
  PROVE  /\ Consume(s) \in Queues
         /\ \E l \in 1..n + 1 : l \notin Arrived(l, n, t) /\ Looping(Consume(s), l, n, t, h)
<1> DEFINE w == s.waiting
<1>1. w \in Nat
  BY DEF Queues
<1>2. PICK f \in [0..w -> Queues] :
        /\ f[0] = s /\ \A i \in 1..w : f[i] = ConsumeOne(f[i - 1])
        /\ Consume(s) = f[w]
  BY ConsumeTurns
<1> DEFINE On(i, l) == /\ l \in 1..n + 1 /\ Looping(f[i], l, n, t, h)
                       /\ l \notin Arrived(l, n, t) \/ f[i].waiting <= w - i
           U == {i \in Nat : i <= w => \E l : On(i, l)}
<1>3. 0 \in U
  <2>1. On(0, k)
    BY <1>1, <1>2
  <2> QED BY <2>1
<1>4. ASSUME NEW i \in Nat, i \in U PROVE i + 1 \in U
  <2> SUFFICES ASSUME i + 1 <= w PROVE \E l : On(i + 1, l)
    OBVIOUS
  <2> DEFINE x == f[i]
             y == f[i + 1]
  <2>0. i <= w /\ i \in 0..w /\ i + 1 \in 1..w /\ (i + 1) - 1 = i /\ i + 1 \in 0..w
    BY <1>1
  <2>1. PICK l : On(i, l)
    BY <1>4, <2>0
  <2>2. x \in Queues /\ y \in Queues /\ y = ConsumeOne(x)
    BY <1>2, <2>0
  <2>3. l \in 1..n + 1 /\ Looping(x, l, n, t, h)
        /\ (l \notin Arrived(l, n, t) \/ x.waiting <= w - i)
    BY <2>1
  <2>9. \E m : /\ m \in 1..n + 1 /\ Looping(y, m, n, t, h)
               /\ m \notin Arrived(m, n, t) \/ y.waiting <= w - (i + 1)
    <3> HIDE DEF x, y, w, U, On
    <3>1. CASE l \notin Arrived(l, n, t)
      BY <2>2, <2>3, <3>1, TurnWaits
    <3>2. CASE l \in Arrived(l, n, t)
      <4>1. LET z == ConsumeOne(x)
            IN  z \in Queues /\ z.waiting = x.waiting - 1 /\ Looping(z, l + 1, n, t, h)
        BY <2>2, <2>3, <3>2, TurnRuns, Zenon
      <4>2. y.waiting = x.waiting - 1 /\ Looping(y, l + 1, n, t, h)
        BY <2>2, <4>1
      <4>3. l + 1 \in 1..n + 1
        BY <4>2 DEF Looping
      <4>4. y.waiting <= w - (i + 1)
        <5>1. x.waiting \in Nat
          BY <2>2 DEF Queues
        <5> QED BY <1>1, <2>3, <3>2, <4>2, <5>1
      <4> QED BY <4>2, <4>3, <4>4
    <3> QED BY <3>1, <3>2
  <2> QED BY <2>9
<1> HIDE DEF U
<1>5. Nat \subseteq U
  BY <1>3, <1>4, NatSetInduction
<1>6. \E l : On(w, l)
  <2>1. w \in U /\ w <= w
    BY <1>1, <1>5
  <2> HIDE DEF On, w
  <2> QED BY <2>1 DEF U
<1>7. PICK l : On(w, l)
  BY <1>6
<1> DEFINE z == f[w]
<1>8. l \in 1..n + 1 /\ Looping(z, l, n, t, h) /\ (l \notin Arrived(l, n, t) \/ z.waiting <= 0)
  BY <1>1, <1>7
<1>9. z \in Queues /\ Consume(s) = z
  BY <1>1, <1>2
<1> HIDE DEF z, w, On
<1>10. l \notin Arrived(l, n, t)
  <2>1. CASE z.waiting <= 0
    <3>1. z.waiting = Cardinality(Arrived(l, n, t))
      BY <1>8 DEF Looping, Held
    <3>2. Arrived(l, n, t) = {}
      BY <1>8, <2>1, <3>1, ArrivedFacts
    <3> QED BY <3>2
  <2> QED BY <1>8, <2>1
<1> QED BY <1>8, <1>9, <1>10

-----------------------------------------------------------------------------
(* The steps of the queue.                                                 *)

QueueTypes ==
  /\ sent \in 0..Len(Kinds) /\ transit \in SUBSET (1..sent) /\ lost \in SUBSET Messages
  /\ q \in Queues /\ q.ran = <<>> /\ ran \in Seq(Messages)

\* The queue waits for k.
Awaits(k) ==
  /\ k \in 1..sent + 1 /\ k \notin Arrived(k, sent, transit)
  /\ Held(q, k, sent, transit) /\ Near(k, sent, transit) /\ Told(q, k, sent)
  /\ Done(ran, k)
QueueInv == lost = {} => \E k \in Nat : Awaits(k)

Begun(m) == [q EXCEPT !.locked = FALSE, !.lo = SeqOf(m) + 1]
Pushed(m) ==
  [q EXCEPT !.list = [q.list EXCEPT ![SeqOf(m)] = HandlerOf(m)], !.waiting = q.waiting + 1]

LEMMA BegunFields ==
  ASSUME q \in Queues, NEW m \in Messages
  PROVE  /\ Begun(m) \in Queues /\ Begun(m).ran = q.ran /\ Begun(m).list = q.list
         /\ Begun(m).waiting = q.waiting /\ Begun(m).locked = FALSE
         /\ Begun(m).lo = SeqOf(m) + 1
<1> DEFINE lo == SeqOf(m) + 1
<1>1. lo \in 0..Size
  <2>1. SeqOf(m) \in 0..Size - 1
    BY MessageFacts, SeqRange
  <2> QED BY <2>1, SeqQueueAssumption
<1>2. Begun(m) = [q EXCEPT !.locked = FALSE, !.lo = lo]
  BY DEF Begun
<1> HIDE DEF lo
<1>3. /\ Begun(m) \in Queues /\ Begun(m).ran = q.ran /\ Begun(m).list = q.list
      /\ Begun(m).waiting = q.waiting /\ Begun(m).locked = FALSE /\ Begun(m).lo = lo
  BY <1>1, <1>2 DEF Queues
<1> QED BY <1>3 DEF lo

LEMMA PushedFields ==
  ASSUME q \in Queues, NEW m \in Messages
  PROVE  /\ Pushed(m) \in Queues /\ Pushed(m).ran = q.ran
         /\ Pushed(m).list \in [0..Size - 1 -> Handlers]
         /\ \A i \in 0..Size - 1 :
              Pushed(m).list[i] = IF i = SeqOf(m) THEN HandlerOf(m) ELSE q.list[i]
         /\ Pushed(m).waiting = q.waiting + 1 /\ Pushed(m).locked = q.locked
         /\ Pushed(m).lo = q.lo
<1> DEFINE list == [q.list EXCEPT ![SeqOf(m)] = HandlerOf(m)]
           waiting == q.waiting + 1
<1>1. q.list \in [0..Size - 1 -> Handlers] /\ waiting \in Nat
  BY DEF Queues
<1>2. /\ list \in [0..Size - 1 -> Handlers]
      /\ \A i \in 0..Size - 1 : list[i] = IF i = SeqOf(m) THEN HandlerOf(m) ELSE q.list[i]
  BY <1>1, HandlerFacts
<1>3. Pushed(m) = [q EXCEPT !.list = list, !.waiting = waiting]
  BY DEF Pushed
<1> HIDE DEF list, waiting
<1>4. /\ Pushed(m) \in Queues /\ Pushed(m).ran = q.ran /\ Pushed(m).list = list
      /\ Pushed(m).waiting = waiting /\ Pushed(m).locked = q.locked /\ Pushed(m).lo = q.lo
  BY <1>1, <1>2, <1>3 DEF Queues
<1> QED BY <1>2, <1>4 DEF waiting

LEMMA QueuedCases ==
  ASSUME q \in Queues, NEW m \in Messages
  PROVE  /\ Kinds[m] = "start" => Queued(m) = Consume(Begun(m))
         /\ Kinds[m] # "start" =>
              Queued(m) = IF q.locked THEN Pushed(m) ELSE Consume(Pushed(m))
<1>1. CASE Kinds[m] = "start"
  <2>1. Queued(m) = MaybeConsume(Begun(m))
    BY <1>1 DEF Queued, StartQueue, Begun
  <2>2. Begun(m).locked = FALSE
    BY BegunFields
  <2> QED BY <1>1, <2>1, <2>2 DEF MaybeConsume
<1>2. CASE Kinds[m] # "start"
  <2>1. SeqOf(m) \in 0..Size - 1
    BY MessageFacts, SeqRange
  <2>2. ~ (SeqOf(m) >= Size)
    BY <2>1, SeqQueueAssumption
  <2>3. [q EXCEPT !.list[SeqOf(m)] = HandlerOf(m), !.waiting = @ + 1] = Pushed(m)
    BY DEF Pushed, Queues
  <2>4. Queued(m) = MaybeConsume(Pushed(m))
    <3>1. Queued(m) = PushHandler(q, SeqOf(m), HandlerOf(m))
      BY <1>2 DEF Queued, HandlerOf
    <3> QED BY <2>2, <2>3, <3>1 DEF PushHandler
  <2>5. Pushed(m).locked = q.locked
    BY PushedFields
  <2> QED BY <1>2, <2>4, <2>5 DEF MaybeConsume
<1> QED BY <1>1, <1>2

LEMMA QueuedType ==
  ASSUME q \in Queues, NEW m \in Messages
  PROVE  Queued(m) \in Queues
<1>1. \A s \in Queues : Consume(s) \in Queues
  <2> SUFFICES ASSUME NEW s \in Queues PROVE Consume(s) \in Queues
    OBVIOUS
  <2>1. PICK f \in [0..s.waiting -> Queues] : Consume(s) = f[s.waiting]
    BY ConsumeTurns
  <2>2. s.waiting \in 0..s.waiting
    BY DEF Queues
  <2> QED BY <2>1, <2>2
<1> QED BY <1>1, QueuedCases, BegunFields, PushedFields

\* One message more has arrived.
LEMMA ArrivedMore ==
  ASSUME QueueTypes, NEW k \in 1..sent + 1, NEW m \in transit, k <= m
  PROVE  /\ Arrived(k, sent, transit \ {m}) = Arrived(k, sent, transit) \cup {m}
         /\ m \notin Arrived(k, sent, transit) /\ m \in Messages /\ m \in 1..sent
         /\ Cardinality(Arrived(k, sent, transit \ {m})) = Cardinality(Arrived(k, sent, transit)) + 1
<1>1. m \in 1..sent /\ sent \in Nat /\ m \in Messages
  BY MessageFacts DEF QueueTypes
<1>2. Arrived(k, sent, transit \ {m}) = Arrived(k, sent, transit) \cup {m}
      /\ m \notin Arrived(k, sent, transit)
  BY <1>1 DEF Arrived
<1>3. IsFiniteSet(Arrived(k, sent, transit)) /\ sent \in 0..Len(Kinds)
  BY ArrivedFacts DEF QueueTypes
<1> QED BY <1>1, <1>2, <1>3, FS_AddElement

\* A message is put in its place.
LEMMA PushedHeld ==
  ASSUME QueueTypes, Narrow, NEW k \in Nat, Awaits(k), NEW m \in transit,
         \A i \in transit : m < i + Window
  PROVE  /\ k <= m
         /\ Near(k, sent, transit \ {m}) /\ Held(Pushed(m), k, sent, transit \ {m})
<1> DEFINE A == Arrived(k, sent, transit)
           B == Arrived(k, sent, transit \ {m})
<1>0. /\ k \in 1..sent + 1 /\ k \notin A
      /\ Held(q, k, sent, transit) /\ Near(k, sent, transit)
      /\ sent \in 0..Len(Kinds) /\ sent \in Nat /\ q \in Queues
  BY MessageFacts DEF Awaits, QueueTypes
<1>1. k <= m
  BY <1>0 DEF Near
<1>2. /\ B = A \cup {m} /\ m \notin A /\ m \in Messages /\ m \in 1..sent
      /\ Cardinality(B) = Cardinality(A) + 1
  BY <1>0, <1>1, ArrivedMore
<1>3. m < k + Window
  <2>1. CASE m = k
    BY <1>0, <2>1, TouchAssumption
  <2>2. CASE m # k
    <3>1. k \in transit
      BY <1>0, <1>1, <1>2, <2>2 DEF Arrived
    <3> QED BY <3>1
  <2> QED BY <2>1, <2>2
<1> HIDE DEF A, B
<1>4. Near(k, sent, transit \ {m})
  <2>1. \A a \in B : a < k + Window
    BY <1>0, <1>2, <1>3 DEF Near, A
  <2> QED BY <1>0, <2>1 DEF Near, B
<1>5. \A a, b \in B : SeqOf(a) = SeqOf(b) => a = b
  BY <1>0, <1>4, ArrivedDistinct DEF B
<1>6. B \subseteq Messages /\ \A a \in B : SeqOf(a) \in 0..Size - 1
  <2>1. B \subseteq Messages
    BY <1>0, ArrivedFacts DEF B
  <2> QED BY <2>1, MessageFacts, SeqRange
<1>7. /\ \A i \in 0..Size - 1 :
           Pushed(m).list[i] = IF i = SeqOf(m) THEN HandlerOf(m) ELSE q.list[i]
      /\ Pushed(m).waiting = q.waiting + 1
  BY <1>0, <1>2, PushedFields
<1>8. Held(Pushed(m), k, sent, transit \ {m})
  <2>1. \A a \in B : Pushed(m).list[SeqOf(a)] = HandlerOf(a)
    <3> TAKE a \in B
    <3>1. CASE a = m
      BY <1>6, <1>7, <3>1
    <3>2. CASE a # m
      <4>1. a \in A /\ m \in B
        BY <1>2, <3>2
      <4>2. SeqOf(a) # SeqOf(m) /\ q.list[SeqOf(a)] = HandlerOf(a)
        BY <1>0, <1>5, <3>2, <4>1 DEF Held, A
      <4> QED BY <1>6, <1>7, <4>2
    <3> QED BY <3>1, <3>2
  <2>2. \A i \in 0..Size - 1 : Pushed(m).list[i] # NoHandler => \E a \in B : SeqOf(a) = i
    <3> SUFFICES ASSUME NEW i \in 0..Size - 1, Pushed(m).list[i] # NoHandler
                 PROVE  \E a \in B : SeqOf(a) = i
      OBVIOUS
    <3>1. CASE i = SeqOf(m)
      BY <1>2, <3>1
    <3>2. CASE i # SeqOf(m)
      <4>1. q.list[i] # NoHandler
        BY <1>7, <3>2
      <4>2. PICK a \in A : SeqOf(a) = i
        BY <1>0, <4>1 DEF Held, A
      <4> QED BY <1>2, <4>2
    <3> QED BY <3>1, <3>2
  <2>3. Pushed(m).waiting = Cardinality(B)
    BY <1>0, <1>2, <1>7 DEF Held, A
  <2> QED BY <2>1, <2>2, <2>3 DEF Held, B
<1> QED BY <1>1, <1>4, <1>8

LEMMA DeliverQueued ==
  ASSUME QueueTypes, Gestures, Narrow, NEW k \in Nat, Awaits(k), NEW m \in transit,
         \A i \in transit : m < i + Window
  PROVE  \E l \in 1..sent + 1 :
           /\ l \notin Arrived(l, sent, transit \ {m})
           /\ Held(Queued(m), l, sent, transit \ {m}) /\ Near(l, sent, transit \ {m})
           /\ Told(Queued(m), l, sent) /\ Done(ran \o Queued(m).ran, l)
<1> DEFINE t == transit \ {m}
<1>0. /\ k \in 1..sent + 1 /\ k \notin Arrived(k, sent, transit)
      /\ Held(q, k, sent, transit) /\ Near(k, sent, transit) /\ Told(q, k, sent) /\ Done(ran, k)
      /\ sent \in 0..Len(Kinds) /\ sent \in Nat /\ q \in Queues /\ q.locked \in BOOLEAN
      /\ q.ran = <<>> /\ ran \in Seq(Messages) /\ t \in SUBSET (1..sent)
      /\ m \in 1..sent /\ m \in Messages /\ m \in Nat \ {0}
  BY MessageFacts DEF Awaits, QueueTypes, Queues
<1>1. k <= m /\ Near(k, sent, t) /\ Held(Pushed(m), k, sent, t)
  BY PushedHeld
<1>2. /\ Arrived(k, sent, t) = Arrived(k, sent, transit) \cup {m}
      /\ m \notin Arrived(k, sent, transit)
  BY <1>0, <1>1, ArrivedMore
<1>3. ran \o <<>> = ran
  BY <1>0
<1> HIDE DEF t
<1>4. /\ Pushed(m) \in Queues /\ Pushed(m).ran = <<>> /\ Pushed(m).locked = q.locked
      /\ Pushed(m).lo = q.lo
  BY <1>0, PushedFields
<1>5. Told(Pushed(m), k, sent) /\ Done(ran \o Pushed(m).ran, k)
  BY <1>0, <1>3, <1>4 DEF Told
<1>6. CASE m # k /\ q.locked
  <2>1. Kinds[m] # "start"
    <3>1. m \in k + 1..sent
      BY <1>0, <1>1, <1>6
    <3> QED BY <1>0, <3>1 DEF Near
  <2>2. Queued(m) = Pushed(m)
    BY <1>0, <1>6, <2>1, QueuedCases
  <2> QED BY <1>0, <1>1, <1>2, <1>5, <1>6, <2>2 DEF t
<1>7. ASSUME NEW s \in Queues, NEW j \in 1..sent + 1, Queued(m) = Consume(s),
             Looping(s, j, sent, t, ran)
      PROVE  \E l \in 1..sent + 1 :
               /\ l \notin Arrived(l, sent, t)
               /\ Held(Queued(m), l, sent, t) /\ Near(l, sent, t)
               /\ Told(Queued(m), l, sent) /\ Done(ran \o Queued(m).ran, l)
  <2>1. PICK l \in 1..sent + 1 : l \notin Arrived(l, sent, t) /\ Looping(Queued(m), l, sent, t, ran)
    BY <1>0, <1>7, LoopRunsAll
  <2> QED BY <2>1 DEF Looping
<1>8. CASE Kinds[m] # "start" /\ ~q.locked
  <2>1. Queued(m) = Consume(Pushed(m))
    BY <1>0, <1>8, QueuedCases
  <2>2. Looping(Pushed(m), k, sent, t, ran)
    BY <1>0, <1>1, <1>4, <1>5, <1>8 DEF Looping
  <2> QED BY <1>0, <1>4, <1>7, <2>1, <2>2 DEF t
<1>9. CASE m = k /\ Kinds[m] = "start"
  <2> DEFINE s == Begun(m)
  <2>1. /\ s \in Queues /\ s.ran = <<>> /\ s.list = q.list /\ s.waiting = q.waiting
        /\ s.locked = FALSE /\ s.lo = SeqOf(m) + 1
    BY <1>0, BegunFields
  <2>2. Queued(m) = Consume(s)
    BY <1>0, <1>9, QueuedCases
  <2> HIDE DEF s
  <2>3. Arrived(k + 1, sent, t) = Arrived(k, sent, transit)
    <3>1. Arrived(k + 1, sent, t) = Arrived(k, sent, t) \ {k}
      BY <1>0, ArrivedFacts
    <3> QED BY <1>2, <1>9, <3>1
  <2>4. Held(s, k + 1, sent, t)
    BY <1>0, <2>1, <2>3 DEF Held
  <2>5. Near(k + 1, sent, t)
    <3>1. \A i \in t : k + 1 <= i
      <4> TAKE i \in t
      <4>1. k <= i /\ i # k /\ i \in Nat
        BY <1>0, <1>1, <1>9 DEF Near, t
      <4> QED BY <4>1
    <3>2. \A i \in Arrived(k + 1, sent, t) : i < k + 1 + Window
      <4> TAKE i \in Arrived(k + 1, sent, t)
      <4>1. i < k + Window /\ i \in Nat
        <5>1. i \in Arrived(k, sent, transit)
          BY <2>3
        <5>2. i \in k..sent
          BY <5>1 DEF Arrived
        <5> QED BY <1>0, <5>1, <5>2 DEF Near
      <4> QED BY <1>0, <4>1, TouchAssumption
    <3>3. \A i \in k + 1 + 1..sent : Kinds[i] # "start"
      <4> TAKE i \in k + 1 + 1..sent
      <4>1. i \in k + 1..sent
        BY <1>0
      <4> QED BY <1>0, <4>1 DEF Near
    <3> QED BY <3>1, <3>2, <3>3 DEF Near
  <2>6. Told(s, k + 1, sent)
    <3>1. At(s.lo) = SeqOf(k + 1)
      BY <1>0, <1>9, <2>1, SeqNext
    <3>2. CASE k + 1 <= sent
      <4>1. k + 1 \in k + 1..sent
        BY <3>2
      <4>2. Kinds[k + 1] # "start"
        BY <1>0, <4>1 DEF Near
      <4> QED BY <2>1, <3>1, <3>2, <4>2 DEF Told
    <3>3. CASE ~ (k + 1 <= sent)
      <4>1. sent = k /\ sent # 0
        BY <1>0, <1>9, <3>3
      <4>2. Kinds[sent] # "stop"
        BY <1>9, <4>1
      <4> QED BY <2>1, <3>1, <3>3, <4>1, <4>2 DEF Told
    <3> QED BY <3>2, <3>3
  <2>7. Done(ran \o s.ran, k + 1)
    BY <1>0, <1>3, <1>9, <2>1, DoneNext
  <2>8. k + 1 \in 1..sent + 1
    BY <1>0, <1>9
  <2>9. Looping(s, k + 1, sent, t, ran)
    BY <2>1, <2>4, <2>5, <2>6, <2>7, <2>8 DEF Looping
  <2> QED BY <1>7, <2>1, <2>2, <2>8, <2>9 DEF t
<1>10. m = k /\ q.locked => Kinds[m] = "start"
  BY <1>0 DEF Told
<1>11. m # k => Kinds[m] # "start"
  <2> SUFFICES ASSUME m # k PROVE Kinds[m] # "start"
    OBVIOUS
  <2>1. m \in k + 1..sent
    BY <1>0, <1>1
  <2> QED BY <1>0, <2>1 DEF Near
<1> QED BY <1>0, <1>6, <1>8, <1>9, <1>10, <1>11

-----------------------------------------------------------------------------
(* The touches the queue hands to the consumer.                            *)

\* Those that are written and those that wait to be.
Line(r) == r.written \o r.writeQueue

\* All but these.
SameState(r, t) ==
  /\ t.running = r.running /\ t.desired = r.desired /\ t.lock = r.lock /\ t.start = r.start
  /\ t.stops = r.stops /\ t.output = r.output /\ t.socket = r.socket
  /\ t.immediates = r.immediates /\ t.dead = r.dead
Tidy(r) == r.running = STARTED => r.writeQueue = <<>>

\* Whatever is in the line is among the first e of g, and in their order.
Upto(r, g, e) ==
  /\ Increasing(Line(r))
  /\ \A j \in DOMAIN Line(r) : \E i \in 1..e : g[i] = Line(r)[j]

TouchOne(r, m) == IF Kinds[m] = "touch" THEN QueueWrite(r, m) ELSE r

LEMMA TouchOneCases ==
  ASSUME NEW r \in Shape, NEW m \in Messages
  PROVE  /\ TouchOne(r, m) \in Shape /\ SameState(r, TouchOne(r, m))
         /\ Tidy(r) => Tidy(TouchOne(r, m))
         /\ Tidy(r) => Line(TouchOne(r, m)) \in {Line(r), Append(Line(r), m)}
<1> DEFINE t == TouchOne(r, m)
           written == Written(r, <<m>>)
           waits == Append(r.writeQueue, m)
<1>0. r.written \in Seq(Messages) /\ r.writeQueue \in Seq(Messages) /\ <<m>> \in Seq(Messages)
  BY DEF Shape
<1>1. written \in {r.written, Append(r.written, m)} /\ written \in Seq(Messages)
  <2>1. r.written \o <<m>> = Append(r.written, m) /\ Append(r.written, m) \in Seq(Messages)
    BY <1>0
  <2> QED BY <1>0, <2>1 DEF Written
<1>2. waits \in Seq(Messages) /\ r.written \o waits = Append(Line(r), m)
  <2> DEFINE a == r.written
             b == r.writeQueue
  <2>1. a \in Seq(Messages) /\ b \in Seq(Messages)
    BY <1>0
  <2>2. waits = Append(b, m) /\ r.written \o waits = a \o Append(b, m) /\ Line(r) = a \o b
    BY DEF Line
  <2> HIDE DEF a, b, waits
  <2>3. Append(b, m) \in Seq(Messages) /\ a \o Append(b, m) = Append(a \o b, m)
    BY <2>1
  <2> QED BY <2>2, <2>3
<1> HIDE DEF written, waits
<1>3. CASE Kinds[m] = "touch" /\ r.running = STARTED
  <2>1. t = [r EXCEPT !.written = written]
    BY <1>3 DEF TouchOne, QueueWrite, written
  <2> HIDE DEF t
  <2>2. /\ t \in Shape /\ SameState(r, t) /\ t.written = written /\ t.writeQueue = r.writeQueue
    BY <1>1, <2>1 DEF Shape, SameState
  <2>3. Tidy(r) => Tidy(t)
    BY <2>2 DEF Tidy, SameState
  <2>4. ASSUME Tidy(r) PROVE Line(t) \in {Line(r), Append(Line(r), m)}
    <3>1. Line(t) = written \o <<>> /\ Line(r) = r.written \o <<>>
      BY <1>3, <2>2, <2>4 DEF Line, Tidy
    <3>2. written \o <<>> = written /\ r.written \o <<>> = r.written
      BY <1>0, <1>1
    <3> QED BY <1>1, <3>1, <3>2
  <2> QED BY <2>2, <2>3, <2>4 DEF t
<1>4. CASE Kinds[m] = "touch" /\ r.running # STARTED
  <2>1. t = [r EXCEPT !.writeQueue = waits]
    BY <1>4 DEF TouchOne, QueueWrite, Shape, waits
  <2> HIDE DEF t
  <2>2. /\ t \in Shape /\ SameState(r, t) /\ t.written = r.written /\ t.writeQueue = waits
    BY <1>2, <2>1 DEF Shape, SameState
  <2> QED BY <1>2, <1>4, <2>2 DEF Tidy, SameState, Line, t
<1>5. CASE Kinds[m] # "touch"
  BY <1>5 DEF TouchOne, SameState
<1> QED BY <1>3, <1>4, <1>5

LEMMA TouchesTurns ==
  ASSUME NEW r \in Shape, NEW ms \in Seq(Messages)
  PROVE  \E f \in [0..Len(ms) -> Shape] :
           /\ f[0] = r /\ \A i \in 1..Len(ms) : f[i] = TouchOne(f[i - 1], ms[i])
           /\ Touches(r, ms) = f[Len(ms)]
<1> DEFINE n == Len(ms)
           Next1(f, i) == IF i = 0 THEN r
                          ELSE IF Kinds[ms[i]] = "touch" THEN QueueWrite(f[i - 1], ms[i])
                          ELSE f[i - 1]
           touched == CHOOSE f : f = [i \in 0..n |-> Next1(f, i)]
           step == [i \in 1..n |-> [x \in Shape |-> TouchOne(x, ms[i])]]
<1>1. n \in Nat /\ \A i \in 1..n : ms[i] \in Messages
  OBVIOUS
<1>2. Touches(r, ms) = touched[n]
  BY DEF Touches
<1> HIDE DEF n
<1>3. \A x \in Shape, i \in 1..n : TouchOne(x, ms[i]) \in Shape
  BY <1>1, TouchOneCases
<1>4. \E f : f = [i \in 0..n |-> Next1(f, i)]
  <2>1. step \in Steps(n, Shape)
    BY <1>3 DEF Steps
  <2>2. \A i \in 1..n, x \in Shape : step[i][x] = TouchOne(x, ms[i])
    OBVIOUS
  <2> HIDE DEF step
  <2>3. PICK f \in [0..n -> Shape] : f[0] = r /\ \A i \in 1..n : f[i] = step[i][f[i - 1]]
    BY <1>1, <2>1, Recursion
  <2>4. ASSUME NEW i \in 0..n PROVE f[i] = Next1(f, i)
    <3>1. CASE i = 0
      BY <2>3, <3>1
    <3>2. CASE i # 0
      <4>1. i \in 1..n /\ i - 1 \in 0..n
        BY <1>1, <3>2
      <4>2. f[i - 1] \in Shape
        BY <4>1
      <4>3. f[i] = TouchOne(f[i - 1], ms[i])
        BY <2>2, <2>3, <4>1, <4>2
      <4> QED BY <3>2, <4>3 DEF TouchOne
    <3> QED BY <3>1, <3>2
  <2>5. f = [i \in 0..n |-> f[i]]
    OBVIOUS
  <2> HIDE DEF Next1
  <2>6. f = [i \in 0..n |-> Next1(f, i)]
    BY <2>4, <2>5
  <2> QED BY <2>6
<1>5. touched = [i \in 0..n |-> Next1(touched, i)]
  <2> HIDE DEF Next1
  <2> QED BY <1>4
<1> HIDE DEF touched, step
<1>6. \A i \in 0..n : touched[i] = Next1(touched, i)
  <2> HIDE DEF Next1
  <2> QED BY <1>5
<1>7. touched[0] = r /\ \A i \in 1..n : touched[i] = TouchOne(touched[i - 1], ms[i])
  <2>1. touched[0] = r
    BY <1>1, <1>6
  <2>2. ASSUME NEW i \in 1..n PROVE touched[i] = TouchOne(touched[i - 1], ms[i])
    <3>1. i \in 0..n /\ i # 0
      BY <1>1
    <3>2. touched[i] = Next1(touched, i)
      BY <1>6, <3>1
    <3> QED BY <3>1, <3>2 DEF TouchOne
  <2> QED BY <2>1, <2>2
<1> DEFINE U == {i \in Nat : i <= n => touched[i] \in Shape}
<1>8. 0 \in U
  BY <1>7
<1>9. ASSUME NEW i \in Nat, i \in U PROVE i + 1 \in U
  <2> SUFFICES ASSUME i + 1 <= n PROVE touched[i + 1] \in Shape
    OBVIOUS
  <2>1. i <= n /\ i + 1 \in 1..n /\ (i + 1) - 1 = i
    BY <1>1
  <2>2. touched[i] \in Shape
    BY <1>9, <2>1
  <2>3. touched[i + 1] = TouchOne(touched[i], ms[i + 1])
    BY <1>7, <2>1
  <2> QED BY <1>3, <2>1, <2>2, <2>3
<1> HIDE DEF U
<1>10. Nat \subseteq U
  BY <1>8, <1>9, NatSetInduction
<1>11. \A i \in 0..n : touched[i] \in Shape
  BY <1>1, <1>10 DEF U
<1>12. touched \in [0..n -> Shape]
  <2>1. touched = [i \in 0..n |-> touched[i]]
    <3> HIDE DEF Next1
    <3> QED BY <1>5
  <2> QED BY <1>11, <2>1
<1> QED BY <1>2, <1>7, <1>12 DEF n

\* A message later than those in the line goes to its end.
LEMMA LineGrows ==
  ASSUME NEW x \in Shape, NEW y \in Shape, NEW g \in Seq(Messages), Increasing(g),
         NEW e \in Nat, e + 1 \in DOMAIN g,
         Upto(x, g, e), Line(y) \in {Line(x), Append(Line(x), g[e + 1])}
  PROVE  Upto(y, g, e + 1)
<1> DEFINE a == Line(x)
           b == Line(y)
           m == g[e + 1]
<1>0. DOMAIN g = 1..Len(g) /\ Len(g) \in Nat /\ m \in Nat /\ \A i \in DOMAIN g : g[i] \in Nat
  BY MessageFacts
<1>1. a \in Seq(Messages) /\ b \in {a, Append(a, m)} /\ m \in Messages
  <2>1. x.written \in Seq(Messages) /\ x.writeQueue \in Seq(Messages)
    BY DEF Shape
  <2>2. a \in Seq(Messages)
    BY <2>1, ConcatProperties DEF Line
  <2>3. m \in Messages
    OBVIOUS
  <2> HIDE DEF a, b, m
  <2> QED BY <2>2, <2>3 DEF a, b, m
<1>2. Increasing(a) /\ \A j \in DOMAIN a : \E i \in 1..e : g[i] = a[j]
  BY DEF Upto
<1> SUFFICES Increasing(b) /\ \A j \in DOMAIN b : \E i \in 1..e + 1 : g[i] = b[j]
  BY DEF Upto
<1> HIDE DEF a, b
<1>3. CASE b = a
  <2>1. \A i \in 1..e : i \in 1..e + 1
    OBVIOUS
  <2> QED BY <1>2, <1>3, <2>1
<1>4. CASE b = Append(a, m)
  <2>1. \A j \in DOMAIN a : a[j] < m
    <3> TAKE j \in DOMAIN a
    <3>1. PICK i \in 1..e : g[i] = a[j]
      BY <1>2
    <3>2. i \in DOMAIN g /\ e + 1 \in DOMAIN g /\ i < e + 1
      BY <1>0
    <3>3. g[i] < g[e + 1]
      BY <3>2 DEF Increasing
    <3> QED BY <3>1, <3>3
  <2> HIDE DEF m
  <2>2. /\ DOMAIN a = 1..Len(a) /\ Len(a) \in Nat
        /\ DOMAIN b = 1..Len(a) + 1 /\ b[Len(a) + 1] = m
        /\ \A j \in 1..Len(a) : b[j] = a[j]
    BY <1>1, <1>4
  <2>3. Increasing(b)
    <3> SUFFICES ASSUME NEW i \in 1..Len(a) + 1, NEW j \in 1..Len(a) + 1, i < j
                 PROVE  b[i] < b[j]
      BY <2>2 DEF Increasing
    <3>1. i \in 1..Len(a)
      BY <2>2
    <3>2. CASE j = Len(a) + 1
      BY <2>1, <2>2, <3>1, <3>2
    <3>3. CASE j # Len(a) + 1
      <4>1. j \in 1..Len(a)
        BY <2>2, <3>3
      <4> QED BY <1>2, <2>2, <3>1, <4>1 DEF Increasing
    <3> QED BY <3>2, <3>3
  <2>4. \A j \in DOMAIN b : \E i \in 1..e + 1 : g[i] = b[j]
    <3> TAKE j \in DOMAIN b
    <3>1. CASE j = Len(a) + 1
      <4>1. e + 1 \in 1..e + 1 /\ g[e + 1] = b[j]
        BY <2>2, <3>1 DEF m
      <4> QED BY <4>1
    <3>2. CASE j # Len(a) + 1
      <4>1. j \in DOMAIN a /\ b[j] = a[j]
        BY <2>2, <3>2
      <4>2. PICK i \in 1..e : g[i] = a[j]
        BY <1>2, <4>1
      <4>3. i \in 1..e + 1
        OBVIOUS
      <4> QED BY <4>1, <4>2, <4>3
    <3> QED BY <3>1, <3>2
  <2> QED BY <2>3, <2>4
<1> QED BY <1>1, <1>3, <1>4

LEMMA TouchesSound ==
  ASSUME NEW r \in Shape, Tidy(r), NEW ms \in Seq(Messages), NEW h \in Seq(Messages)
  PROVE  /\ Touches(r, ms) \in Shape /\ SameState(r, Touches(r, ms)) /\ Tidy(Touches(r, ms))
         /\ Increasing(h \o ms) /\ Upto(r, h, Len(h)) =>
              Upto(Touches(r, ms), h \o ms, Len(h \o ms))
<1> DEFINE n == Len(ms)
           g == h \o ms
           e == Len(h)
<1>0. n \in Nat /\ e \in Nat /\ \A i \in 1..n : ms[i] \in Messages
  OBVIOUS
<1>1. /\ g \in Seq(Messages) /\ Len(g) = e + n /\ DOMAIN g = 1..e + n
      /\ \A i \in 1..e : g[i] = h[i]
      /\ \A i \in 1..n : g[e + i] = ms[i]
  BY ConcatProperties
<1>2. PICK f \in [0..n -> Shape] :
        /\ f[0] = r /\ \A i \in 1..n : f[i] = TouchOne(f[i - 1], ms[i])
        /\ Touches(r, ms) = f[n]
  BY TouchesTurns
<1> HIDE DEF n, g, e
<1> DEFINE On(i) == /\ SameState(r, f[i]) /\ Tidy(f[i])
                    /\ Increasing(g) /\ Upto(r, h, e) => Upto(f[i], g, e + i)
           U == {i \in Nat : i <= n => On(i)}
<1>3. 0 \in U
  <2>1. SameState(r, r)
    BY DEF SameState
  <2>2. Upto(r, h, e) => Upto(r, g, e + 0)
    BY <1>0, <1>1 DEF Upto
  <2> QED BY <1>2, <2>1, <2>2
<1>4. ASSUME NEW i \in Nat, i \in U PROVE i + 1 \in U
  <2> SUFFICES ASSUME i + 1 <= n PROVE On(i + 1)
    OBVIOUS
  <2> DEFINE x == f[i]
             y == f[i + 1]
             m == ms[i + 1]
  <2>1. i <= n /\ i \in 0..n /\ i + 1 \in 1..n /\ (i + 1) - 1 = i /\ i + 1 \in 0..n
        /\ e + (i + 1) \in 1..e + n /\ (e + i) + 1 = e + (i + 1) /\ e + i \in Nat
    BY <1>0
  <2>2. On(i)
    BY <1>4, <2>1
  <2>3. x \in Shape /\ y \in Shape /\ y = TouchOne(x, m) /\ m \in Messages /\ m = g[(e + i) + 1]
    BY <1>0, <1>1, <1>2, <2>1
  <2>4. SameState(r, x) /\ Tidy(x) /\ (Increasing(g) /\ Upto(r, h, e) => Upto(x, g, e + i))
    BY <2>2
  <2> HIDE DEF x, y, m, U, On
  <2>5. SameState(x, y) /\ Tidy(y) /\ Line(y) \in {Line(x), Append(Line(x), m)}
    BY <2>3, <2>4, TouchOneCases
  <2>6. SameState(r, y)
    BY <2>4, <2>5 DEF SameState
  <2>7. ASSUME Increasing(g), Upto(r, h, e) PROVE Upto(y, g, e + (i + 1))
    <3>1. Upto(x, g, e + i) /\ (e + i) + 1 \in DOMAIN g
      BY <1>1, <2>1, <2>4, <2>7
    <3>2. Line(y) \in {Line(x), Append(Line(x), g[(e + i) + 1])}
      BY <2>3, <2>5
    <3>3. Upto(y, g, (e + i) + 1)
      BY <1>1, <2>1, <2>3, <2>7, <3>1, <3>2, LineGrows
    <3> QED BY <2>1, <3>3
  <2> QED BY <2>5, <2>6, <2>7 DEF On, y
<1> HIDE DEF U
<1>5. Nat \subseteq U
  BY <1>3, <1>4, NatSetInduction
<1>6. On(n)
  BY <1>0, <1>5 DEF U
<1>7. n \in 0..n
  BY <1>0
<1> QED BY <1>1, <1>2, <1>6, <1>7 DEF g, e

-----------------------------------------------------------------------------
(* The invariants.                                                         *)

TouchInv == QueueTypes /\ ConsumerInv /\ Tidy(c)
OrderInv == lost = {} => Upto(c, ran, Len(ran))

LEMMA InitTouchInv == Init => TouchInv /\ OrderInv
<1> SUFFICES ASSUME Init PROVE TouchInv /\ OrderInv
  OBVIOUS
<1>1. ConsumerInv
  BY InitConsumerInv DEF Init
<1>2. c.written = <<>> /\ c.writeQueue = <<>>
  BY DEF Init, InitConsumer
<1>3. QueueTypes
  <2> DEFINE list == [i \in 0..Size - 1 |-> NoHandler]
  <2>1. list \in [0..Size - 1 -> Handlers] /\ 0 \in 0..Size /\ 0 \in Nat /\ <<>> \in Seq(Messages)
    BY HandlerFacts, SeqQueueAssumption
  <2>2. q = [lo |-> 0, waiting |-> 0, list |-> list, locked |-> TRUE, ran |-> <<>>]
    BY DEF Init, EmptyQueue
  <2> HIDE DEF list
  <2>3. q \in Queues /\ q.ran = <<>>
    BY <2>1, <2>2 DEF Queues
  <2> QED BY <2>1, <2>3, MessageFacts DEF Init, QueueTypes
<1>4. Upto(c, ran, Len(ran))
  <2>1. <<>> \o <<>> = <<>> /\ DOMAIN <<>> = {}
    OBVIOUS
  <2>2. Line(c) = <<>>
    BY <1>2, <2>1 DEF Line
  <2> QED BY <2>1, <2>2 DEF Upto, Increasing
<1> QED BY <1>1, <1>2, <1>3, <1>4 DEF TouchInv, OrderInv, Tidy

LEMMA InitQueueInv == Init => QueueInv
<1> SUFFICES ASSUME Init PROVE Awaits(1)
  BY DEF QueueInv
<1>1. sent = 0 /\ transit = {} /\ q = EmptyQueue /\ ran = <<>> /\ 1..0 = {}
  BY DEF Init
<1>2. /\ q.waiting = 0 /\ q.lo = 0 /\ q.locked = TRUE
      /\ \A i \in 0..Size - 1 : q.list[i] = NoHandler
  BY <1>1 DEF EmptyQueue
<1>3. Arrived(1, 0, {}) = {}
  BY DEF Arrived
<1>4. Held(q, 1, 0, {})
  BY <1>2, <1>3, FS_EmptySet DEF Held
<1>5. Near(1, 0, {})
  <2>1. 1 + 1..0 = {}
    OBVIOUS
  <2> QED BY <1>3, <2>1 DEF Near
<1>6. Told(q, 1, 0)
  BY <1>2 DEF Told
<1>7. Done(ran, 1)
  <2>1. <<>> \in Seq(Messages) /\ DOMAIN <<>> = {}
    OBVIOUS
  <2>2. \A m \in Messages : ~ (m < 1)
    BY MessageFacts
  <2> QED BY <1>1, <2>1, <2>2 DEF Done, Increasing
<1> QED BY <1>1, <1>3, <1>4, <1>5, <1>6, <1>7 DEF Awaits

\* What the touches do not disturb.
LEMMA SameStateInv ==
  ASSUME ConsumerInv, Alive, c' \in Shape, SameState(c, c'), faults' = faults
  PROVE  ConsumerInv'
<1>1. Sane(c)
  BY DEF ConsumerInv
<1>2. Busy(c') = Busy(c) /\ (Restarting(c') <=> Restarting(c))
  BY DEF SameState, Busy, Restarting
<1>3. Sane(c')
  BY <1>1, <1>2 DEF SameState, Sane, Coherent, Aimed, Streaming, Prompted
<1> QED BY <1>2, <1>3 DEF ConsumerInv

\* The writes of a step of the consumer.
LEMMA ConsumerWrites ==
  ASSUME TouchInv, ConsumerInv', SameWrites(c, c') \/ Flushed(c, c'),
         NEW h \in Seq(Messages), NEW e \in Nat
  PROVE  Tidy(c') /\ (Upto(c, h, e) => Upto(c', h, e))
<1> DEFINE a == c.written
           b == c.writeQueue
<1>0. a \in Seq(Messages) /\ b \in Seq(Messages) /\ Line(c) = a \o b
  BY DEF TouchInv, ConsumerInv, Shape, Line
<1>1. CASE SameWrites(c, c')
  <2>1. Line(c') = Line(c)
    BY <1>1 DEF SameWrites, Line
  <2>2. Tidy(c')
    BY <1>1 DEF TouchInv, SameWrites, Tidy
  <2> QED BY <2>1, <2>2 DEF Upto
<1>2. CASE Flushed(c, c')
  <2>1. Tidy(c')
    BY <1>2 DEF Flushed, Tidy
  <2>2. c'.writeQueue = <<>> /\ c'.written \in {a, a \o b}
    BY <1>2 DEF Flushed, Written
  <2> HIDE DEF a, b
  <2>3. Line(c') \in {a, a \o b}
    <3>1. a \o <<>> = a /\ (a \o b) \o <<>> = a \o b
      BY <1>0
    <3> QED BY <2>2, <3>1 DEF Line
  <2>4. ASSUME Upto(c, h, e), Line(c') = a PROVE Upto(c', h, e)
    <3>1. /\ DOMAIN a = 1..Len(a) /\ DOMAIN (a \o b) = 1..Len(a) + Len(b)
          /\ Len(a) \in Nat /\ Len(b) \in Nat
          /\ \A i \in 1..Len(a) : (a \o b)[i] = a[i]
      BY <1>0
    <3>2. \A i \in DOMAIN a : i \in DOMAIN (a \o b) /\ (a \o b)[i] = a[i]
      BY <3>1
    <3> QED BY <1>0, <2>4, <3>2 DEF Upto, Increasing
  <2>5. ASSUME Upto(c, h, e), Line(c') = a \o b PROVE Upto(c', h, e)
    BY <1>0, <2>5 DEF Upto
  <2> QED BY <2>1, <2>3, <2>4, <2>5
<1> QED BY <1>1, <1>2

\* What a delivery leaves in the queue.
LEMMA DeliverFields ==
  ASSUME TouchInv, NEW m \in Messages, Deliver(m)
  PROVE  /\ m \in transit /\ Queued(m) \in Queues /\ Queued(m).ran \in Seq(Messages)
         /\ q' \in Queues /\ q'.ran = <<>> /\ q'.list = Queued(m).list /\ q'.lo = Queued(m).lo
         /\ q'.waiting = Queued(m).waiting /\ q'.locked = Queued(m).locked
<1> DEFINE s == Queued(m)
<1>1. s \in Queues
  BY QueuedType DEF TouchInv, QueueTypes
<1>2. q' = [s EXCEPT !.ran = <<>>] /\ m \in transit
  BY DEF Deliver
<1>3. <<>> \in Seq(Messages)
  OBVIOUS
<1> HIDE DEF s
<1>4. /\ q' \in Queues /\ q'.ran = <<>> /\ q'.list = s.list /\ q'.lo = s.lo
      /\ q'.waiting = s.waiting /\ q'.locked = s.locked /\ s.ran \in Seq(Messages)
  BY <1>1, <1>2, <1>3 DEF Queues
<1> QED BY <1>1, <1>2, <1>4 DEF s

LEMMA NextTouchInv ==
  ASSUME TouchInv, [Next]_vars
  PROVE  TouchInv'
<1>0. ConsumerInv /\ Tidy(c) /\ c \in Shape /\ sent \in Nat /\ sent \in 0..Len(Kinds)
  BY MessageFacts DEF TouchInv, ConsumerInv, QueueTypes
<1>1. ASSUME c' = c, faults' = faults PROVE ConsumerInv' /\ Tidy(c')
  <2>1. Busy(c') = Busy(c) /\ (Sane(c') <=> Sane(c)) /\ (Alive' <=> Alive)
    BY <1>1 DEF Alive
  <2> QED BY <1>0, <1>1, <2>1 DEF ConsumerInv
<1>2. CASE Send
  <2>1. c' = c /\ faults' = faults
    BY <1>2 DEF Send
  <2>2. QueueTypes'
    <3>1. /\ sent < Len(Kinds) /\ sent' = sent + 1 /\ transit' = transit \cup {sent + 1}
          /\ lost' = lost /\ q' = q /\ ran' = ran
      BY <1>2 DEF Send
    <3>2. sent' \in 0..Len(Kinds) /\ transit' \in SUBSET (1..sent')
      BY <1>0, <3>1, MessageFacts DEF TouchInv, QueueTypes
    <3> QED BY <3>1, <3>2 DEF TouchInv, QueueTypes
  <2> QED BY <1>1, <2>1, <2>2 DEF TouchInv
<1>3. ASSUME NEW m \in Messages, Lose(m) PROVE TouchInv'
  <2>1. c' = c /\ faults' = faults
    BY <1>3 DEF Lose
  <2>2. QueueTypes'
    BY <1>3 DEF Lose, TouchInv, QueueTypes
  <2> QED BY <1>1, <2>1, <2>2 DEF TouchInv
<1>4. ASSUME NEW m \in Messages, Deliver(m) PROVE TouchInv'
  <2>1. /\ Queued(m).ran \in Seq(Messages) /\ q' \in Queues /\ q'.ran = <<>>
    BY <1>4, DeliverFields
  <2>2. QueueTypes'
    <3>1. sent' = sent /\ lost' = lost /\ transit' = transit \ {m} /\ ran' = ran \o Queued(m).ran
      BY <1>4 DEF Deliver
    <3>2. ran' \in Seq(Messages)
      <4>1. ran \in Seq(Messages)
        BY DEF TouchInv, QueueTypes
      <4> QED BY <2>1, <3>1, <4>1, ConcatProperties
    <3> QED BY <2>1, <3>1, <3>2 DEF TouchInv, QueueTypes
  <2>3. c' = Touches(c, Queued(m).ran) /\ Alive /\ faults' = faults
    BY <1>4 DEF Deliver
  <2>4. c' \in Shape /\ SameState(c, c') /\ Tidy(c')
    <3>1. ran \in Seq(Messages)
      BY DEF TouchInv, QueueTypes
    <3> QED BY <1>0, <2>1, <2>3, <3>1, TouchesSound
  <2>5. ConsumerInv'
    BY <1>0, <2>3, <2>4, SameStateInv
  <2> QED BY <2>2, <2>4, <2>5 DEF TouchInv
<1>5. CASE ConsumerNext /\ NoMessage
  <2>1. ConsumerInv' /\ (SameWrites(c, c') \/ Flushed(c, c'))
    BY <1>0, <1>5, ConsumerNextInv
  <2>2. Tidy(c')
    <3>1. ran \in Seq(Messages) /\ 0 \in Nat
      BY DEF TouchInv, QueueTypes
    <3> QED BY <2>1, <3>1, ConsumerWrites
  <2>3. QueueTypes'
    BY <1>5 DEF NoMessage, TouchInv, QueueTypes
  <2> QED BY <2>1, <2>2, <2>3 DEF TouchInv
<1>6. CASE UNCHANGED vars
  <2>1. c' = c /\ faults' = faults
    BY <1>6 DEF vars
  <2>2. QueueTypes'
    BY <1>6 DEF vars, TouchInv, QueueTypes
  <2> QED BY <1>1, <2>1, <2>2 DEF TouchInv
<1> QED BY <1>2, <1>3, <1>4, <1>5, <1>6 DEF Next

LEMMA NextQueueInv ==
  ASSUME Gestures, Narrow, TouchInv, QueueInv, [Next]_vars
  PROVE  QueueInv'
<1> SUFFICES ASSUME lost' = {} PROVE \E k \in Nat : Awaits(k)'
  BY DEF QueueInv
<1>0. QueueTypes /\ sent \in Nat /\ sent \in 0..Len(Kinds)
  BY MessageFacts DEF TouchInv, QueueTypes
<1>1. CASE UNCHANGED <<sent, transit, lost, q, ran>>
  <2>1. PICK k \in Nat : Awaits(k)
    BY <1>1 DEF QueueInv
  <2>2. Awaits(k)'
    <3>1. sent' = sent /\ transit' = transit /\ q' = q /\ ran' = ran
      BY <1>1
    <3> QED BY <2>1, <3>1 DEF Awaits
  <2> QED BY <2>2
<1>2. CASE Send
  <2>0. /\ sent < Len(Kinds) /\ (Kinds[sent + 1] = "start" => transit = {})
        /\ sent' = sent + 1 /\ transit' = transit \cup {sent + 1}
        /\ lost' = lost /\ q' = q /\ ran' = ran
    BY <1>2 DEF Send
  <2>1. PICK k \in Nat : Awaits(k)
    BY <2>0 DEF QueueInv
  <2>2. /\ k \in 1..sent + 1 /\ k \notin Arrived(k, sent, transit)
        /\ Held(q, k, sent, transit) /\ Near(k, sent, transit) /\ Told(q, k, sent)
        /\ Done(ran, k)
    BY <2>1 DEF Awaits
  <2>3. Arrived(k, sent', transit') = Arrived(k, sent, transit)
    BY <1>0, <2>0, <2>2 DEF Arrived, QueueTypes
  <2>4. Held(q, k, sent', transit')
    BY <2>2, <2>3 DEF Held
  <2>5. k = sent + 1 \/ k \in transit
    BY <1>0, <2>2 DEF Arrived
  <2>6. Near(k, sent', transit')
    <3>1. \A i \in transit' : k <= i
      BY <2>0, <2>2 DEF Near
    <3>2. \A i \in k + 1..sent' : Kinds[i] # "start"
      <4> SUFFICES ASSUME NEW i \in k + 1..sent + 1 PROVE Kinds[i] # "start"
        BY <2>0
      <4>1. CASE i = sent + 1
        <5>1. k # sent + 1
          BY <1>0, <4>1
        <5> QED BY <2>0, <2>5, <4>1, <5>1
      <4>2. CASE i # sent + 1
        <5>1. i \in k + 1..sent
          BY <1>0, <4>2
        <5> QED BY <2>2, <5>1 DEF Near
      <4> QED BY <4>1, <4>2
    <3> QED BY <2>2, <2>3, <3>1, <3>2 DEF Near
  <2>7. Told(q, k, sent')
    <3>1. CASE k = sent + 1
      <4>1. ~ (k <= sent) /\ k <= sent' /\ k \in Messages
        BY <1>0, <2>0, <3>1, MessageFacts
      <4>2. q.locked <=> sent = 0 \/ Kinds[sent] = "stop"
        BY <2>2, <4>1 DEF Told
      <4>3. Kinds[k] = "start" <=> sent = 0 \/ Kinds[sent] = "stop"
        <5>1. k - 1 = sent /\ (k = 1 <=> sent = 0) /\ (k > 1 <=> sent # 0)
          BY <1>0, <3>1
        <5> QED BY <4>1, <5>1 DEF Gestures
      <4> QED BY <2>2, <4>1, <4>2, <4>3 DEF Told
    <3>2. CASE k # sent + 1
      <4>1. k <= sent /\ k <= sent'
        BY <1>0, <2>0, <2>2, <3>2
      <4> QED BY <2>2, <4>1 DEF Told
    <3> QED BY <3>1, <3>2
  <2>8. Awaits(k)'
    <3>1. k \in 1..sent' + 1
      BY <1>0, <2>0, <2>2
    <3> QED BY <2>0, <2>2, <2>3, <2>4, <2>6, <2>7, <3>1 DEF Awaits
  <2> QED BY <2>8
<1>3. ASSUME NEW m \in Messages, Lose(m) PROVE FALSE
  BY <1>3 DEF Lose
<1>4. ASSUME NEW m \in Messages, Deliver(m) PROVE \E k \in Nat : Awaits(k)'
  <2>0. /\ m \in transit /\ \A i \in transit : m < i + Window
        /\ sent' = sent /\ lost' = lost /\ transit' = transit \ {m}
        /\ ran' = ran \o Queued(m).ran
    BY <1>4 DEF Deliver
  <2>1. PICK k \in Nat : Awaits(k)
    BY <2>0 DEF QueueInv
  <2>2. PICK l \in 1..sent + 1 :
           /\ l \notin Arrived(l, sent, transit \ {m})
           /\ Held(Queued(m), l, sent, transit \ {m}) /\ Near(l, sent, transit \ {m})
           /\ Told(Queued(m), l, sent) /\ Done(ran \o Queued(m).ran, l)
    BY <1>0, <2>0, <2>1, DeliverQueued
  <2>3. /\ q'.list = Queued(m).list /\ q'.lo = Queued(m).lo
        /\ q'.waiting = Queued(m).waiting /\ q'.locked = Queued(m).locked
    BY <1>4, DeliverFields
  <2>4. Held(q', l, sent', transit') /\ Told(q', l, sent')
    BY <2>0, <2>2, <2>3 DEF Held, Told
  <2>5. Awaits(l)' /\ l \in Nat
    BY <1>0, <2>0, <2>2, <2>4 DEF Awaits
  <2> QED BY <2>5
<1>5. CASE ConsumerNext /\ NoMessage
  BY <1>1, <1>5 DEF NoMessage
<1>6. CASE UNCHANGED vars
  BY <1>1, <1>6 DEF vars
<1> QED BY <1>2, <1>3, <1>4, <1>5, <1>6 DEF Next

LEMMA NextOrderInv ==
  ASSUME TouchInv, QueueInv', OrderInv, [Next]_vars, TouchInv'
  PROVE  OrderInv'
<1> SUFFICES ASSUME lost' = {} PROVE Upto(c', ran', Len(ran'))
  BY DEF OrderInv
<1>0. c \in Shape /\ Tidy(c) /\ ran \in Seq(Messages) /\ Len(ran) \in Nat
  BY DEF TouchInv, ConsumerInv, QueueTypes
<1>1. CASE c' = c /\ ran' = ran /\ (lost' = {} => lost = {})
  BY <1>1 DEF OrderInv
<1>2. CASE Send
  BY <1>1, <1>2 DEF Send
<1>3. ASSUME NEW m \in Messages, Lose(m) PROVE FALSE
  BY <1>3 DEF Lose
<1>4. ASSUME NEW m \in Messages, Deliver(m) PROVE Upto(c', ran', Len(ran'))
  <2>1. /\ c' = Touches(c, Queued(m).ran) /\ ran' = ran \o Queued(m).ran /\ lost = {}
        /\ Queued(m).ran \in Seq(Messages)
    BY <1>4, DeliverFields DEF Deliver
  <2>2. Increasing(ran')
    BY DEF QueueInv, Awaits, Done
  <2>3. Upto(c, ran, Len(ran))
    BY <2>1 DEF OrderInv
  <2> QED BY <1>0, <2>1, <2>2, <2>3, TouchesSound
<1>5. CASE ConsumerNext /\ NoMessage
  <2>1. ran' = ran /\ lost = {}
    BY <1>5 DEF NoMessage
  <2>2. ConsumerInv' /\ (SameWrites(c, c') \/ Flushed(c, c'))
    BY <1>5, ConsumerNextInv DEF TouchInv
  <2>3. Upto(c, ran, Len(ran)) => Upto(c', ran, Len(ran))
    BY <1>0, <2>2, ConsumerWrites
  <2> QED BY <2>1, <2>3 DEF OrderInv
<1>6. CASE UNCHANGED vars
  BY <1>1, <1>6 DEF vars
<1> QED BY <1>2, <1>3, <1>4, <1>5, <1>6 DEF Next

\* At rest the consumer has nothing left to do.
LEMMA InvRests == ConsumerInv => RestsStarted
<1> SUFFICES ASSUME ConsumerInv, Alive, ConsumerRests
             PROVE  /\ c.running = STARTED /\ c.desired = <<>> /\ ~c.lock
                    /\ c.output = "open" /\ c.socket = "open"
  BY DEF RestsStarted
<1>1. /\ c \in Shape /\ Coherent(c) /\ Aimed(c) /\ Streaming(c) /\ Prompted(c)
      /\ c.start = "none" /\ c.immediates = 0 /\ \A w \in Stoppers : c.stops[w] = NoStop
  BY DEF ConsumerInv, Sane, ConsumerRests
<1>2. c.stops[StopState] = NoStop /\ ~Restarting(c)
  BY <1>1, StopperNames DEF Restarting
<1>3. ~c.lock
  BY <1>1, <1>2 DEF Coherent
<1>4. c.desired = <<>>
  BY <1>1, <1>3 DEF Prompted
<1>5. c.running = STARTED
  <2>1. c.running \in Running
    BY <1>1 DEF Shape
  <2>2. c.running # STARTING /\ c.running # STOPPING
    BY <1>1, <1>2 DEF Coherent
  <2>3. c.running # STOPPED
    BY <1>1, <1>3, <1>4 DEF Aimed
  <2> QED BY <2>1, <2>2, <2>3 DEF Running
<1> QED BY <1>1, <1>2, <1>3, <1>4, <1>5 DEF Streaming

\* The messages before the one the queue waits for have run, each once.
LEMMA InvInOrder ==
  ASSUME TouchInv, QueueInv
  PROVE  RunInOrder
<1> SUFFICES ASSUME lost = {}
             PROVE  /\ Increasing(ran)
                    /\ \A i \in DOMAIN ran : \A m \in Handled :
                         m < ran[i] => \E j \in 1..i : ran[j] = m
  BY DEF RunInOrder
<1>1. PICK k \in Nat : Awaits(k)
  BY DEF QueueInv
<1>2. Done(ran, k) /\ ran \in Seq(Messages) /\ DOMAIN ran = 1..Len(ran) /\ Len(ran) \in Nat
  BY <1>1 DEF Awaits, Done
<1>3. ASSUME NEW i \in DOMAIN ran, NEW m \in Handled, m < ran[i]
      PROVE  \E j \in 1..i : ran[j] = m
  <2>1. ran[i] \in Messages /\ m \in Messages /\ ran[i] \in Nat /\ m \in Nat /\ i \in Nat
    BY <1>2, MessageFacts DEF Handled
  <2>2. ran[i] < k
    BY <1>2, <2>1 DEF Done
  <2>3. m < k
    BY <1>3, <2>1, <2>2
  <2>4. PICK j \in DOMAIN ran : ran[j] = m
    BY <1>2, <2>1, <2>3 DEF Done
  <2>5. ~ (i < j)
    BY <1>2, <1>3, <2>1, <2>4 DEF Done, Increasing
  <2>6. j \in 1..i
    BY <1>2, <2>1, <2>5
  <2> QED BY <2>4, <2>6
<1> QED BY <1>2, <1>3 DEF Done

\* When everything has arrived the queue waits for what is not yet sent.
LEMMA InvLeavesNothing ==
  ASSUME TouchInv, QueueInv
  PROVE  GestureLeavesNothing
<1> SUFFICES ASSUME lost = {}, transit = {}, sent = 0 \/ Kinds[sent] = "stop"
             PROVE  /\ \A m \in Handled : m <= sent => \E i \in DOMAIN ran : ran[i] = m
                    /\ q.locked /\ q.waiting = 0
  BY DEF GestureLeavesNothing
<1>1. PICK k \in Nat : Awaits(k)
  BY DEF QueueInv
<1>2. /\ k \in 1..sent + 1 /\ k \notin Arrived(k, sent, {}) /\ Held(q, k, sent, {})
      /\ Told(q, k, sent) /\ Done(ran, k) /\ sent \in Nat
  BY <1>1, MessageFacts DEF Awaits, TouchInv, QueueTypes
<1>3. k = sent + 1 /\ ~ (k <= sent)
  BY <1>2 DEF Arrived
<1>4. Arrived(k, sent, {}) = {}
  BY <1>2, <1>3 DEF Arrived
<1>5. q.waiting = 0
  BY <1>2, <1>4, FS_EmptySet DEF Held
<1>6. q.locked
  BY <1>2, <1>3 DEF Told
<1>7. ASSUME NEW m \in Handled, m <= sent PROVE \E i \in DOMAIN ran : ran[i] = m
  <2>1. m \in Messages /\ m < k
    BY <1>2, <1>3, <1>7, MessageFacts DEF Handled
  <2> QED BY <1>2, <2>1 DEF Done
<1> QED BY <1>5, <1>6, <1>7

LEMMA InvDevice ==
  ASSUME TouchInv, OrderInv
  PROVE  DeviceInOrder
<1> SUFFICES ASSUME lost = {} PROVE Increasing(c.written)
  BY DEF DeviceInOrder
<1> DEFINE a == c.written
           b == c.writeQueue
<1>1. a \in Seq(Messages) /\ b \in Seq(Messages)
  BY DEF TouchInv, ConsumerInv, Shape
<1>2. Increasing(a \o b)
  BY DEF OrderInv, Upto, Line
<1> HIDE DEF a, b
<1>3. \A i \in DOMAIN a : i \in DOMAIN (a \o b) /\ (a \o b)[i] = a[i]
  BY <1>1
<1>4. Increasing(a)
  BY <1>2, <1>3 DEF Increasing
<1> QED BY <1>4 DEF a

-----------------------------------------------------------------------------
(* The theorems.                                                           *)

\* A consumer at rest runs, with both its streams and no wish left: whatever has ended or
\* failed during a start, a stop or a restart, what is under way of them puts it right
\* (TouchConsumer: _ensureState, restart, _stop).
THEOREM TouchRestsStarted == Spec => []RestsStarted
<1>1. Init => TouchInv
  BY InitTouchInv
<1>2. TouchInv /\ [Next]_vars => TouchInv'
  BY NextTouchInv
<1>3. TouchInv => RestsStarted
  BY InvRests DEF TouchInv
<1> QED BY <1>1, <1>2, <1>3, PTL DEF Spec

\* The handlers run in the order the page sent the messages, each once and without a gap,
\* however the network reorders them within the window (SeqQueue).
THEOREM TouchRunsInOrder == ASSUME Gestures, Narrow PROVE Spec => []RunInOrder
<1>1. Init => TouchInv /\ QueueInv
  BY InitTouchInv, InitQueueInv
<1>2. TouchInv /\ QueueInv /\ [Next]_vars => (TouchInv /\ QueueInv)'
  BY NextTouchInv, NextQueueInv
<1>3. TouchInv /\ QueueInv => RunInOrder
  BY InvInOrder
<1> QED BY <1>1, <1>2, <1>3, PTL DEF Spec

\* When all of a gesture has arrived all its handlers have run, and the queue is empty and
\* locked for the next (SeqQueue: stop, waiting).
THEOREM TouchLeavesNothing == ASSUME Gestures, Narrow PROVE Spec => []GestureLeavesNothing
<1>1. Init => TouchInv /\ QueueInv
  BY InitTouchInv, InitQueueInv
<1>2. TouchInv /\ QueueInv /\ [Next]_vars => (TouchInv /\ QueueInv)'
  BY NextTouchInv, NextQueueInv
<1>3. TouchInv /\ QueueInv => GestureLeavesNothing
  BY InvLeavesNothing
<1> QED BY <1>1, <1>2, <1>3, PTL DEF Spec

\* Touches reach minitouch in the order they were made, across its restarts (_queueWrite,
\* _processWriteQueue).
THEOREM TouchDeviceInOrder == ASSUME Gestures, Narrow PROVE Spec => []DeviceInOrder
<1>1. Init => TouchInv /\ QueueInv /\ OrderInv
  BY InitTouchInv, InitQueueInv
<1>2. TouchInv /\ QueueInv /\ OrderInv /\ [Next]_vars => (TouchInv /\ QueueInv /\ OrderInv)'
  BY NextTouchInv, NextQueueInv, NextOrderInv
<1>3. TouchInv /\ OrderInv => DeviceInOrder
  BY InvDevice
<1> QED BY <1>1, <1>2, <1>3, PTL DEF Spec
=============================================================================
