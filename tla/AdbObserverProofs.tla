------------------------- MODULE AdbObserverProofs -------------------------
(***************************************************************************)
(* Proofs about AdbObserver: a caller that waits for an answer has one     *)
(* request in the queue.                                                   *)
(***************************************************************************)
EXTENDS AdbObserver, Integers, SequenceTheorems, FiniteSetTheorems, WellFoundedInduction, TLAPS

-----------------------------------------------------------------------------
(* Numbers and sequences.                                                  *)

\* Induction, stated with a set: a set that has 0 and with each number the next one has
\* every natural number.
LEMMA NatSetInduction ==
  ASSUME NEW T, 0 \in T, \A n \in Nat : n \in T => n + 1 \in T
  PROVE  Nat \subseteq T
<1> SUFFICES ASSUME Nat \ T # {} PROVE FALSE
  OBVIOUS
<1>1. PICK x \in Nat \ T : \A y \in Nat \ T : ~ (<<y, x>> \in OpToRel(<, Nat))
  BY NatLessThanWellFounded, WFMin
<1>2. x # 0 /\ x - 1 \in Nat
  OBVIOUS
<1>3. <<x - 1, x>> \in OpToRel(<, Nat)
  BY <1>2 DEF OpToRel
<1>4. x - 1 \in T
  BY <1>1, <1>2, <1>3
<1>5. (x - 1) + 1 \in T
  BY <1>2, <1>4
<1>6. (x - 1) + 1 = x
  OBVIOUS
<1> QED BY <1>5, <1>6

-----------------------------------------------------------------------------
(* The invariant.                                                          *)

\* The requests of a queue are those of the callers in C, one of each.
Queued(w, C) ==
  /\ \E S : w \in Seq(S)
  /\ \A i \in 1..Len(w) : "who" \in DOMAIN w[i] /\ w[i].who \in C
  /\ \A i, j \in 1..Len(w) : w[i].who = w[j].who => i = j
  /\ \A c \in C : \E i \in 1..Len(w) : w[i].who = c

\* The fields that the argument is about are there.
Shaped(q) ==
  /\ {"queue", "callers", "sockets"} \subseteq DOMAIN q
  /\ DOMAIN q.callers = Callers
  /\ \A c \in Callers : {"state", "command"} \subseteq DOMAIN q.callers[c]
  /\ DOMAIN q.sockets = Sockets
  /\ \A s \in Sockets : {"state", "waiter"} \subseteq DOMAIN q.sockets[s]

\* The callers who are in a state, those in X aside.
In(q, state, X) == {c \in Callers \ X : q.callers[c].state = state}

\* A socket that opens does so for the loop, or for a caller that waits for it and for
\* no other socket.
OpensFor(q, X) ==
  /\ \A s \in Sockets : q.sockets[s].state = "opening" =>
       q.sockets[s].waiter \in {ReconnectLoop} \cup In(q, "opening", X)
  /\ \A s, t \in Sockets :
       /\ q.sockets[s].state = "opening" /\ q.sockets[t].state = "opening"
       /\ q.sockets[s].waiter = q.sockets[t].waiter /\ q.sockets[s].waiter \in Callers
       => s = t

\* In the middle of a handler: the callers in W are still to be told that their request,
\* which has left the queue, was rejected, and those in U are being told.
Kept(q, W, U) ==
  /\ W \subseteq Callers /\ U \subseteq Callers /\ W \cap U = {}
  /\ Shaped(q) /\ Queued(q.queue, In(q, "queued", W \cup U)) /\ OpensFor(q, W \cup U)
  /\ \A c \in W : q.callers[c].state = "queued"

IInv == Kept(o, {}, {})

-----------------------------------------------------------------------------
(* Queues.                                                                 *)

LEMMA QueuedNone == Queued(<<>>, {})
<1>1. <<>> \in Seq({}) /\ Len(<<>>) = 0
  OBVIOUS
<1> QED BY <1>1 DEF Queued

LEMMA QueuedAppend ==
  ASSUME NEW C, NEW w, Queued(w, C), NEW c, c \notin C, NEW command
  PROVE  Queued(Append(w, Request(c, command)), C \cup {c})
<1> DEFINE r == Request(c, command)
           v == Append(w, r)
<1>1. "who" \in DOMAIN r /\ r.who = c
  BY DEF Request
<1> HIDE DEF r
<1>2. PICK S : w \in Seq(S)
  BY DEF Queued
<1>3. /\ v \in Seq(S \cup {r}) /\ Len(v) = Len(w) + 1 /\ Len(w) \in Nat
      /\ \A i \in 1..Len(w) : v[i] = w[i]
      /\ v[Len(w) + 1] = r
  <2>1. w \in Seq(S \cup {r}) /\ r \in S \cup {r}
    BY <1>2
  <2> QED BY <2>1
<1> HIDE DEF v
<1>4. \A i \in 1..Len(v) : i \in 1..Len(w) \/ i = Len(w) + 1
  BY <1>3
<1>5. \A i \in 1..Len(v) : "who" \in DOMAIN v[i] /\ v[i].who \in C \cup {c}
  BY <1>1, <1>3, <1>4 DEF Queued
<1>6. \A i, j \in 1..Len(v) : v[i].who = v[j].who => i = j
  BY <1>1, <1>3, <1>4 DEF Queued
<1>7. ASSUME NEW e \in C \cup {c} PROVE \E i \in 1..Len(v) : v[i].who = e
  <2>1. CASE e = c
    <3>1. Len(w) + 1 \in 1..Len(v)
      BY <1>3
    <3> QED BY <2>1, <3>1, <1>1, <1>3
  <2>2. CASE e \in C
    <3>1. PICK i \in 1..Len(w) : w[i].who = e
      BY <2>2 DEF Queued
    <3>2. i \in 1..Len(v) /\ v[i] = w[i]
      BY <1>3
    <3> QED BY <3>1, <3>2
  <2> QED BY <2>1, <2>2
<1>8. Queued(v, C \cup {c})
  BY <1>3, <1>5, <1>6, <1>7 DEF Queued
<1> QED BY <1>8 DEF v, r

LEMMA QueuedTail ==
  ASSUME NEW C, NEW w, Queued(w, C), w # <<>>
  PROVE  Head(w).who \in C /\ Queued(Tail(w), C \ {Head(w).who})
<1> DEFINE h == Head(w)
           v == Tail(w)
<1>1. PICK S : w \in Seq(S)
  BY DEF Queued
<1>2. /\ v \in Seq(S) /\ Len(w) \in Nat \ {0} /\ Len(v) = Len(w) - 1 /\ h = w[1]
      /\ \A i \in 1..Len(v) : v[i] = w[i + 1]
  <2>1. Len(w) \in Nat /\ Len(w) # 0
    BY <1>1
  <2>2. v \in Seq(S) /\ Len(v) = Len(w) - 1 /\ h = w[1] /\ \A i \in 1..Len(v) : v[i] = w[i + 1]
    BY <1>1, <2>1
  <2> QED BY <2>1, <2>2
<1> HIDE DEF h, v
<1>3. 1 \in 1..Len(w) /\ \A i \in 1..Len(v) : i + 1 \in 1..Len(w) /\ i + 1 # 1
  BY <1>2
<1>4. h.who \in C
  BY <1>2, <1>3 DEF Queued
<1>5. \A i \in 1..Len(v) : "who" \in DOMAIN v[i] /\ v[i].who \in C \ {h.who}
  BY <1>2, <1>3 DEF Queued
<1>6. \A i, j \in 1..Len(v) : v[i].who = v[j].who => i = j
  <2> SUFFICES ASSUME NEW i \in 1..Len(v), NEW j \in 1..Len(v), v[i].who = v[j].who
               PROVE  i = j
    OBVIOUS
  <2>1. i + 1 = j + 1
    BY <1>2, <1>3 DEF Queued
  <2> QED BY <2>1
<1>7. ASSUME NEW e \in C \ {h.who} PROVE \E i \in 1..Len(v) : v[i].who = e
  <2>1. PICK i \in 1..Len(w) : w[i].who = e
    BY DEF Queued
  <2>2. i # 1
    BY <2>1, <1>2
  <2>3. i - 1 \in 1..Len(v) /\ (i - 1) + 1 = i
    BY <2>2, <1>2
  <2>4. v[i - 1] = w[i]
    BY <2>3, <1>2
  <2> QED BY <2>1, <2>3, <2>4
<1>8. Queued(v, C \ {h.who})
  BY <1>2, <1>5, <1>6, <1>7 DEF Queued
<1> QED BY <1>4, <1>8 DEF v, h

\* A change of the first request leaves it with its caller.
LEMMA QueuedSame ==
  ASSUME NEW C, NEW w, Queued(w, C), NEW v, DOMAIN v = DOMAIN w, \E S : v \in Seq(S),
         \A i \in 1..Len(w) : "who" \in DOMAIN v[i] /\ v[i].who = w[i].who
  PROVE  Queued(v, C)
<1>1. PICK S : w \in Seq(S)
  BY DEF Queued
<1>2. PICK S2 : v \in Seq(S2)
  OBVIOUS
<1>3. Len(v) = Len(w) /\ Len(v) \in Nat
  <2>1. Len(w) \in Nat /\ Len(v) \in Nat /\ DOMAIN w = 1..Len(w) /\ DOMAIN v = 1..Len(v)
    BY <1>1, <1>2
  <2> QED BY <2>1
<1> QED BY <1>2, <1>3 DEF Queued

LEMMA QueuedTimer ==
  ASSUME NEW C, NEW w, Queued(w, C), w # <<>>, NEW b
  PROVE  Queued([w EXCEPT ![1].timer = b], C) /\ Queued([w EXCEPT ![1].started = b], C)
<1>1. PICK S : w \in Seq(S)
  BY DEF Queued
<1>2. Len(w) \in Nat \ {0} /\ DOMAIN w = 1..Len(w) /\ \A i \in 1..Len(w) : w[i] \in S
  <2>1. Len(w) \in Nat /\ Len(w) # 0 /\ DOMAIN w = 1..Len(w)
    BY <1>1
  <2> QED BY <1>1, <2>1
<1>3. ASSUME NEW r, "who" \in DOMAIN r, r.who = w[1].who
      PROVE  Queued([w EXCEPT ![1] = r], C)
  <2> DEFINE v == [w EXCEPT ![1] = r]
  <2>1. v \in Seq(S \cup {r})
    <3>1. v \in [1..Len(w) -> S \cup {r}]
      BY <1>2
    <3> HIDE DEF v
    <3> QED BY <3>1, <1>2
  <2>2. DOMAIN v = DOMAIN w
    OBVIOUS
  <2>3. \A i \in 1..Len(w) : v[i] = IF i = 1 THEN r ELSE w[i]
    BY <1>2
  <2>4. \A i \in 1..Len(w) : "who" \in DOMAIN v[i] /\ v[i].who = w[i].who
    <3> HIDE DEF v
    <3> QED BY <1>3, <2>3 DEF Queued
  <2> HIDE DEF v
  <2>5. Queued(v, C)
    BY <2>1, <2>2, <2>4, QueuedSame
  <2> QED BY <2>5 DEF v
<1>4. "who" \in DOMAIN w[1]
  BY <1>2 DEF Queued
<1>5. Queued([w EXCEPT ![1] = [w[1] EXCEPT !.timer = b]], C)
  <2> DEFINE r == [w[1] EXCEPT !.timer = b]
  <2>1. "who" \in DOMAIN r /\ r.who = w[1].who
    BY <1>4
  <2> HIDE DEF r
  <2>2. Queued([w EXCEPT ![1] = r], C)
    BY <1>3, <2>1
  <2> QED BY <2>2 DEF r
<1>6. Queued([w EXCEPT ![1] = [w[1] EXCEPT !.started = b]], C)
  <2> DEFINE r == [w[1] EXCEPT !.started = b]
  <2>1. "who" \in DOMAIN r /\ r.who = w[1].who
    BY <1>4
  <2> HIDE DEF r
  <2>2. Queued([w EXCEPT ![1] = r], C)
    BY <1>3, <2>1
  <2> QED BY <2>2 DEF r
<1>7. 1 \in DOMAIN w
  BY <1>2
<1>8. /\ [w EXCEPT ![1].timer = b] = [w EXCEPT ![1] = [w[1] EXCEPT !.timer = b]]
      /\ [w EXCEPT ![1].started = b] = [w EXCEPT ![1] = [w[1] EXCEPT !.started = b]]
  BY <1>7, Zenon
<1> QED BY <1>5, <1>6, <1>8

\* The number of requests of a caller.
LEMMA QueuedCount ==
  ASSUME NEW C, NEW w, Queued(w, C), NEW c
  PROVE  Cardinality({i \in 1..Len(w) : w[i].who = c}) = IF c \in C THEN 1 ELSE 0
<1> DEFINE I == {i \in 1..Len(w) : w[i].who = c}
<1>1. CASE c \in C
  <2>1. PICK i \in 1..Len(w) : w[i].who = c
    BY <1>1 DEF Queued
  <2>2. I = {i}
    BY <2>1 DEF Queued
  <2> QED BY <1>1, <2>2, FS_Singleton
<1>2. CASE c \notin C
  <2>1. I = {}
    BY <1>2 DEF Queued
  <2> QED BY <1>2, <2>1, FS_EmptySet
<1> QED BY <1>1, <1>2
-----------------------------------------------------------------------------
(* What the fields of the observer have to do with it.                     *)

\* Sockets that open as they did, for callers who still wait.
LEMMA OpensForSame ==
  ASSUME NEW q, NEW X, OpensFor(q, X), NEW p, NEW Y,
         In(q, "opening", X) \subseteq In(p, "opening", Y),
         \A s \in Sockets : p.sockets[s].state = "opening" =>
           q.sockets[s].state = "opening" /\ p.sockets[s].waiter = q.sockets[s].waiter
  PROVE  OpensFor(p, Y)
<1> DEFINE I == In(q, "opening", X)
           J == In(p, "opening", Y)
<1>1. \A s \in Sockets : q.sockets[s].state = "opening" =>
        q.sockets[s].waiter \in {ReconnectLoop} \cup I
  BY DEF OpensFor
<1>2. \A s, t \in Sockets :
        /\ q.sockets[s].state = "opening" /\ q.sockets[t].state = "opening"
        /\ q.sockets[s].waiter = q.sockets[t].waiter /\ q.sockets[s].waiter \in Callers
        => s = t
  BY DEF OpensFor
<1>3. I \subseteq J
  OBVIOUS
<1> HIDE DEF I
<1>4. \A s \in Sockets : p.sockets[s].state = "opening" =>
        p.sockets[s].waiter \in {ReconnectLoop} \cup J
  <2> HIDE DEF J
  <2> QED BY <1>1, <1>3
<1>5. \A s, t \in Sockets :
        /\ p.sockets[s].state = "opening" /\ p.sockets[t].state = "opening"
        /\ p.sockets[s].waiter = p.sockets[t].waiter /\ p.sockets[s].waiter \in Callers
        => s = t
  BY <1>2
<1> QED BY <1>4, <1>5 DEF OpensFor

\* Kept is about three fields, and about sockets only as far as they open.
LEMMA KeptFrame ==
  ASSUME NEW q, NEW W, NEW U, Kept(q, W, U), NEW p, Shaped(p),
         p.queue = q.queue, p.callers = q.callers,
         \A s \in Sockets : p.sockets[s].state = "opening" =>
           q.sockets[s].state = "opening" /\ p.sockets[s].waiter = q.sockets[s].waiter
  PROVE  Kept(p, W, U)
<1>1. \A state, X : In(p, state, X) = In(q, state, X)
  BY DEF In
<1>2. OpensFor(p, W \cup U)
  <2>1. OpensFor(q, W \cup U)
    BY DEF Kept
  <2> QED BY <1>1, <2>1, OpensForSame
<1> QED BY <1>1, <1>2 DEF Kept

\* The other fields do not matter.
LEMMA KeptFields ==
  ASSUME NEW q, NEW W, NEW U, Kept(q, W, U), NEW p,
         {"queue", "callers", "sockets"} \subseteq DOMAIN p,
         p.queue = q.queue, p.callers = q.callers, p.sockets = q.sockets
  PROVE  Kept(p, W, U)
<1>1. Shaped(p)
  BY DEF Shaped, Kept
<1> QED BY <1>1, KeptFrame

\* A change of the first request that leaves it with its caller.
LEMMA KeptFirst ==
  ASSUME NEW q, NEW W, NEW U, Kept(q, W, U), q.queue # <<>>, NEW p,
         {"queue", "callers", "sockets"} \subseteq DOMAIN p, NEW b,
         \/ p.queue = [q.queue EXCEPT ![1].timer = b]
         \/ p.queue = [q.queue EXCEPT ![1].started = b],
         p.callers = q.callers, p.sockets = q.sockets
  PROVE  Kept(p, W, U)
<1>1. Shaped(p)
  BY DEF Shaped, Kept
<1>2. \A state, X : In(p, state, X) = In(q, state, X)
  BY DEF In
<1>3. Queued(p.queue, In(q, "queued", W \cup U))
  <2> DEFINE C == In(q, "queued", W \cup U)
  <2>1. Queued(q.queue, C)
    BY DEF Kept
  <2> HIDE DEF C
  <2>2. /\ Queued([q.queue EXCEPT ![1].timer = b], C)
        /\ Queued([q.queue EXCEPT ![1].started = b], C)
    BY <2>1, QueuedTimer
  <2>3. Queued(p.queue, C)
    BY <2>2
  <2> QED BY <2>3 DEF C
<1>4. OpensFor(p, W \cup U)
  <2>1. OpensFor(q, W \cup U)
    BY DEF Kept
  <2> QED BY <1>2, <2>1, OpensForSame
<1> QED BY <1>1, <1>2, <1>3, <1>4 DEF Kept

\* A caller that has no request and waits for no socket is free to go on.
LEMMA KeptTakes ==
  ASSUME NEW q, NEW W, NEW U, Kept(q, W, U), NEW c \in Callers \ (W \cup U),
         q.callers[c].state \notin {"queued", "opening"}
  PROVE  Kept(q, W, U \cup {c})
<1>1. \A state \in {"queued", "opening"} :
        In(q, state, W \cup (U \cup {c})) = In(q, state, W \cup U)
  BY DEF In
<1>2. OpensFor(q, W \cup (U \cup {c}))
  <2>1. OpensFor(q, W \cup U)
    BY DEF Kept
  <2> QED BY <1>1, <2>1, OpensForSame
<1>3. Queued(q.queue, In(q, "queued", W \cup (U \cup {c})))
  BY <1>1 DEF Kept
<1> QED BY <1>2, <1>3 DEF Kept

\* A caller whose request was rejected is told of it.
LEMMA KeptTells ==
  ASSUME NEW q, NEW W, NEW U, Kept(q, W, U), NEW c \in W
  PROVE  Kept(q, W \ {c}, U \cup {c})
<1>1. (W \ {c}) \cup (U \cup {c}) = W \cup U
  OBVIOUS
<1> QED BY <1>1 DEF Kept

\* A caller that goes on without a request.
LEMMA KeptSets ==
  ASSUME NEW q, NEW W, NEW U, Kept(q, W, U), NEW c \in U, NEW r,
         {"state", "command"} \subseteq DOMAIN r, r.state # "queued",
         NEW p, {"queue", "callers", "sockets"} \subseteq DOMAIN p,
         p.queue = q.queue, p.sockets = q.sockets, p.callers = [q.callers EXCEPT ![c] = r]
  PROVE  Kept(p, W, U \ {c})
<1>1. c \in Callers /\ c \notin W /\ W \cup (U \ {c}) = (W \cup U) \ {c} /\ c \in DOMAIN q.callers
  BY DEF Kept, Shaped
<1>2. \A e \in Callers : p.callers[e] = IF e = c THEN r ELSE q.callers[e]
  BY <1>1 DEF Kept, Shaped
<1>3. Shaped(p)
  BY <1>1, <1>2 DEF Kept, Shaped
<1>4. In(p, "queued", W \cup (U \ {c})) = In(q, "queued", W \cup U)
  BY <1>1, <1>2 DEF In
<1>5. In(q, "opening", W \cup U) \subseteq In(p, "opening", W \cup (U \ {c}))
  BY <1>1, <1>2 DEF In
<1>6. OpensFor(p, W \cup (U \ {c}))
  <2>1. OpensFor(q, W \cup U)
    BY DEF Kept
  <2> QED BY <1>5, <2>1, OpensForSame
<1>7. \A e \in W : p.callers[e].state = "queued"
  BY <1>1, <1>2 DEF Kept
<1>8. Queued(p.queue, In(p, "queued", W \cup (U \ {c})))
  BY <1>4 DEF Kept
<1>9. W \subseteq Callers /\ U \ {c} \subseteq Callers /\ W \cap (U \ {c}) = {}
  BY DEF Kept
<1> QED BY <1>3, <1>6, <1>7, <1>8, <1>9 DEF Kept

-----------------------------------------------------------------------------
(* The connection and the queue.                                           *)

LEMMA ProcessKept ==
  ASSUME NEW q, NEW W, NEW U, Kept(q, W, U)
  PROVE  /\ Kept(ProcessNextRequest(q), W, U)
         /\ ProcessNextRequest(q).callers = q.callers
<1> DEFINE p == [q EXCEPT !.queue[1].timer = TRUE,
                   !.sockets[q.connection].commands = Append(@, q.queue[1].command)]
<1>1. ASSUME q.queue # <<>>
      PROVE  Kept(p, W, U) /\ p.callers = q.callers
  <2> DEFINE v == [q EXCEPT !.queue[1].timer = TRUE]
  <2>1. {"queue", "callers", "sockets"} \subseteq DOMAIN q
    BY DEF Kept, Shaped
  <2>2. /\ {"queue", "callers", "sockets"} \subseteq DOMAIN v
        /\ v.queue = [q.queue EXCEPT ![1].timer = TRUE]
        /\ v.callers = q.callers /\ v.sockets = q.sockets
    BY <2>1
  <2>3. /\ {"queue", "callers", "sockets"} \subseteq DOMAIN p
        /\ p.queue = v.queue /\ p.callers = v.callers
        /\ p.sockets = [q.sockets EXCEPT ![q.connection].commands = Append(@, q.queue[1].command)]
    BY <2>1
  <2> HIDE DEF v, p
  <2>4. Kept(v, W, U)
    BY <1>1, <2>2, KeptFirst
  <2>5. \A s \in Sockets : /\ {"state", "waiter"} \subseteq DOMAIN p.sockets[s]
                           /\ p.sockets[s].state = q.sockets[s].state
                           /\ p.sockets[s].waiter = q.sockets[s].waiter
    <3> SUFFICES ASSUME NEW s \in Sockets
                 PROVE  /\ {"state", "waiter"} \subseteq DOMAIN p.sockets[s]
                        /\ p.sockets[s].state = q.sockets[s].state
                        /\ p.sockets[s].waiter = q.sockets[s].waiter
      OBVIOUS
    <3>1. s \in DOMAIN q.sockets /\ {"state", "waiter"} \subseteq DOMAIN q.sockets[s]
      BY DEF Kept, Shaped
    <3>2. CASE s = q.connection
      BY <2>3, <3>1, <3>2
    <3>3. CASE s # q.connection
      <4>1. p.sockets[s] = q.sockets[s]
        BY <2>3, <3>1, <3>3
      <4> QED BY <3>1, <4>1
    <3> QED BY <3>2, <3>3
  <2>6. Shaped(p)
    <3>1. DOMAIN p.sockets = Sockets
      BY <2>3 DEF Kept, Shaped
    <3> QED BY <2>2, <2>3, <2>5, <3>1 DEF Kept, Shaped
  <2>7. Kept(p, W, U)
    <3>1. \A s \in Sockets : p.sockets[s].state = "opening" =>
            v.sockets[s].state = "opening" /\ p.sockets[s].waiter = v.sockets[s].waiter
      BY <2>2, <2>5
    <3>2. p.queue = v.queue /\ p.callers = v.callers
      BY <2>3
    <3> QED BY <2>4, <2>6, <3>1, <3>2, KeptFrame
  <2> QED BY <2>2, <2>3, <2>7
<1> HIDE DEF p
<1>2. ProcessNextRequest(q) = q \/ (q.queue # <<>> /\ ProcessNextRequest(q) = p)
  BY DEF ProcessNextRequest, p
<1> QED BY <1>1, <1>2

LEMMA EnqueueKept ==
  ASSUME NEW q, NEW W, NEW U, Kept(q, W, U), NEW c \in U
  PROVE  Kept(Enqueue(q, c), W, U \ {c})
<1> DEFINE r == Request(c, q.callers[c].command)
           p == [q EXCEPT !.queue = Append(@, r), !.callers[c].state = "queued"]
           C == In(q, "queued", W \cup U)
<1>1. {"queue", "callers", "sockets"} \subseteq DOMAIN q
  BY DEF Kept, Shaped
<1>2. /\ {"queue", "callers", "sockets"} \subseteq DOMAIN p
      /\ p.queue = Append(q.queue, r) /\ p.sockets = q.sockets
      /\ p.callers = [q.callers EXCEPT ![c].state = "queued"]
  BY <1>1
<1>3. Enqueue(q, c) = ProcessNextRequest(p)
  BY DEF Enqueue
<1> HIDE DEF p
<1>4. c \in Callers /\ c \notin W /\ W \cup (U \ {c}) = (W \cup U) \ {c} /\ c \in DOMAIN q.callers
  BY DEF Kept, Shaped
<1>5. \A e \in Callers : /\ {"state", "command"} \subseteq DOMAIN p.callers[e]
                         /\ p.callers[e].state = IF e = c THEN "queued" ELSE q.callers[e].state
  <2> SUFFICES ASSUME NEW e \in Callers
               PROVE  /\ {"state", "command"} \subseteq DOMAIN p.callers[e]
                      /\ p.callers[e].state = IF e = c THEN "queued" ELSE q.callers[e].state
    OBVIOUS
  <2>1. e \in DOMAIN q.callers /\ {"state", "command"} \subseteq DOMAIN q.callers[e]
    BY DEF Kept, Shaped
  <2>2. CASE e = c
    BY <1>2, <2>1, <2>2
  <2>3. CASE e # c
    <3>1. p.callers[e] = q.callers[e]
      BY <1>2, <2>1, <2>3
    <3> QED BY <2>1, <2>3, <3>1
  <2> QED BY <2>2, <2>3
<1>6. Shaped(p)
  <2>1. DOMAIN p.callers = Callers
    BY <1>2 DEF Kept, Shaped
  <2> QED BY <1>2, <1>5, <2>1 DEF Kept, Shaped
<1>7. In(p, "queued", W \cup (U \ {c})) = C \cup {c}
  BY <1>4, <1>5 DEF In
<1>8. Queued(p.queue, C \cup {c})
  <2>1. c \notin C /\ Queued(q.queue, C)
    BY DEF In, Kept
  <2> HIDE DEF C
  <2> QED BY <1>2, <2>1, QueuedAppend
<1>9. In(q, "opening", W \cup U) \subseteq In(p, "opening", W \cup (U \ {c}))
  BY <1>4, <1>5 DEF In
<1>10. OpensFor(p, W \cup (U \ {c}))
  <2>1. OpensFor(q, W \cup U)
    BY DEF Kept
  <2> QED BY <1>2, <1>9, <2>1, OpensForSame
<1>11. \A e \in W : p.callers[e].state = "queued"
  BY <1>5 DEF Kept
<1>12. W \subseteq Callers /\ U \ {c} \subseteq Callers /\ W \cap (U \ {c}) = {}
  BY DEF Kept
<1>13. Kept(p, W, U \ {c})
  BY <1>6, <1>7, <1>8, <1>10, <1>11, <1>12 DEF Kept
<1> QED BY <1>3, <1>13, ProcessKept

\* A caller opens a socket, or the loop does.
LEMMA CreateKept ==
  ASSUME NEW q, NEW W, NEW U, Kept(q, W, U), Room(q), NEW c,
         c = ReconnectLoop \/ (c \in Callers \ (W \cup U) /\ q.callers[c].state = "opening"
            /\ \A s \in Sockets : q.sockets[s].state = "opening" => q.sockets[s].waiter # c)
  PROVE  Kept(CreateConnection(q, c), W, U)
<1> DEFINE f == FreeSocket(q)
           p == CreateConnection(q, c)
<1>1. f \in Sockets
  BY DEF Room, FreeSocket
<1>2. {"queue", "callers", "sockets"} \subseteq DOMAIN q
  BY DEF Kept, Shaped
<1>3. /\ {"queue", "callers", "sockets"} \subseteq DOMAIN p
      /\ p.queue = q.queue /\ p.callers = q.callers
      /\ p.sockets = [q.sockets EXCEPT ![f] = Opening(c)]
  BY <1>2 DEF CreateConnection
<1>4. {"state", "waiter"} \subseteq DOMAIN Opening(c) /\ Opening(c).waiter = c
  BY DEF Opening, NoSocket
<1> HIDE DEF f, p
<1>5. \A s \in Sockets : p.sockets[s] = IF s = f THEN Opening(c) ELSE q.sockets[s]
  BY <1>1, <1>3 DEF Kept, Shaped
<1>6. Shaped(p)
  BY <1>1, <1>3, <1>4, <1>5 DEF Kept, Shaped
<1>7. \A state, X : In(p, state, X) = In(q, state, X)
  BY <1>3 DEF In
<1>8. ReconnectLoop \notin Callers
  BY DEF ReconnectLoop, Callers, Poll, Health, Recovery
<1>9. OpensFor(p, W \cup U)
  <2>1. c \in {ReconnectLoop} \cup In(q, "opening", W \cup U)
    BY DEF In
  <2>2. ASSUME NEW s \in Sockets, p.sockets[s].state = "opening"
        PROVE  p.sockets[s].waiter \in {ReconnectLoop} \cup In(p, "opening", W \cup U)
    <3>1. OpensFor(q, W \cup U)
      BY DEF Kept
    <3>2. q.sockets[s].state = "opening" =>
            q.sockets[s].waiter \in {ReconnectLoop} \cup In(q, "opening", W \cup U)
      BY <3>1 DEF OpensFor
    <3> QED BY <2>1, <2>2, <3>2, <1>4, <1>5, <1>7
  <2>3. ASSUME NEW s \in Sockets, NEW t \in Sockets,
               p.sockets[s].state = "opening", p.sockets[t].state = "opening",
               p.sockets[s].waiter = p.sockets[t].waiter, p.sockets[s].waiter \in Callers
        PROVE  s = t
    <3>1. CASE s # f /\ t # f
      <4>1. OpensFor(q, W \cup U)
        BY DEF Kept
      <4> QED BY <2>3, <3>1, <4>1, <1>5 DEF OpensFor
    <3>2. CASE s = f /\ t # f
      BY <2>3, <3>2, <1>4, <1>5, <1>8
    <3>3. CASE s # f /\ t = f
      BY <2>3, <3>3, <1>4, <1>5, <1>8
    <3> QED BY <3>1, <3>2, <3>3
  <2> QED BY <2>2, <2>3 DEF OpensFor
<1>10. Kept(p, W, U)
  BY <1>3, <1>6, <1>7, <1>9 DEF Kept
<1> QED BY <1>10 DEF p

\* A caller that is free to go on sends a command.
LEMMA SendKept ==
  ASSUME NEW q, NEW W, NEW U, Kept(q, W, U), NEW c \in U, NEW command
  PROVE  Kept(Send(q, c, command), W, U \ {c})
<1> DEFINE r == [state |-> "waiting", command |-> command]
           asking == [q EXCEPT !.callers[c] = r]
           opening == [asking EXCEPT !.callers[c].state = "opening"]
<1>1. {"queue", "callers", "sockets"} \subseteq DOMAIN q /\ c \in DOMAIN q.callers
  BY DEF Kept, Shaped
<1>2. /\ {"queue", "callers", "sockets"} \subseteq DOMAIN asking
      /\ asking.queue = q.queue /\ asking.sockets = q.sockets
      /\ asking.callers = [q.callers EXCEPT ![c] = r]
  BY <1>1
<1>3. {"state", "command"} \subseteq DOMAIN r /\ r.state = "waiting"
  OBVIOUS
<1>4. Kept(asking, W, U \ {c})
  <2> HIDE DEF asking, r
  <2> QED BY <1>2, <1>3, KeptSets
<1>5. Kept(Enqueue(asking, c), W, U \ {c})
  <2> HIDE DEF asking
  <2>1. c \in Callers \ (W \cup (U \ {c}))
    BY DEF Kept
  <2>2. asking.callers[c].state \notin {"queued", "opening"}
    BY <1>1, <1>2, <1>3
  <2>3. Kept(asking, W, (U \ {c}) \cup {c})
    BY <1>4, <2>1, <2>2, KeptTakes
  <2>4. c \in (U \ {c}) \cup {c} /\ ((U \ {c}) \cup {c}) \ {c} = U \ {c}
    OBVIOUS
  <2>5. Kept(Enqueue(asking, c), W, ((U \ {c}) \cup {c}) \ {c})
    BY <2>3, <2>4, EnqueueKept
  <2> QED BY <2>4, <2>5
<1>6. ASSUME Room(q) PROVE Kept(CreateConnection(opening, c), W, U \ {c})
  <2> DEFINE r2 == [r EXCEPT !.state = "opening"]
  <2>1. /\ {"queue", "callers", "sockets"} \subseteq DOMAIN opening
        /\ opening.queue = q.queue /\ opening.sockets = q.sockets
        /\ opening.callers = [q.callers EXCEPT ![c] = r2]
    <3>1. /\ {"queue", "callers", "sockets"} \subseteq DOMAIN opening
          /\ opening.queue = asking.queue /\ opening.sockets = asking.sockets
          /\ opening.callers = [asking.callers EXCEPT ![c].state = "opening"]
      <4> HIDE DEF asking
      <4> QED BY <1>2
    <3>2. [[q.callers EXCEPT ![c] = r] EXCEPT ![c].state = "opening"]
            = [q.callers EXCEPT ![c] = r2]
      <4> DEFINE k == q.callers
      <4>1. c \in DOMAIN k
        BY <1>1
      <4> HIDE DEF k, r
      <4>2. [[k EXCEPT ![c] = r] EXCEPT ![c].state = "opening"] = [k EXCEPT ![c] = r2]
        BY <4>1
      <4> QED BY <4>2 DEF k
    <3> HIDE DEF opening, asking, r
    <3> QED BY <3>1, <3>2, <1>2
  <2>2. {"state", "command"} \subseteq DOMAIN r2 /\ r2.state = "opening"
    OBVIOUS
  <2> HIDE DEF opening, asking, r, r2
  <2>3. Kept(opening, W, U \ {c})
    BY <2>1, <2>2, KeptSets
  <2>4. c \in Callers \ (W \cup (U \ {c})) /\ opening.callers[c].state = "opening"
    BY <1>1, <2>1, <2>2 DEF Kept
  <2>5. \A s \in Sockets : opening.sockets[s].state = "opening" => opening.sockets[s].waiter # c
    <3>1. ReconnectLoop \notin Callers /\ c \in Callers
      BY <2>4 DEF ReconnectLoop, Callers, Poll, Health, Recovery
    <3>2. c \notin In(q, "opening", W \cup U)
      BY DEF In
    <3>3. \A s \in Sockets : q.sockets[s].state = "opening" =>
            q.sockets[s].waiter \in {ReconnectLoop} \cup In(q, "opening", W \cup U)
      <4>1. OpensFor(q, W \cup U)
        BY DEF Kept
      <4> QED BY <4>1 DEF OpensFor
    <3> QED BY <2>1, <3>1, <3>2, <3>3
  <2>6. Room(opening)
    BY <1>6, <2>1 DEF Room
  <2> QED BY <2>3, <2>4, <2>5, <2>6, CreateKept
<1>7. Room(asking) = Room(q)
  <2> HIDE DEF asking
  <2> QED BY <1>2 DEF Room
<1>8. \/ Send(q, c, command) = Enqueue(asking, c)
      \/ Send(q, c, command) = asking
      \/ Room(asking) /\ Send(q, c, command) = CreateConnection(opening, c)
  <2>1. Room(q) = Room(asking)
    BY <1>7
  <2> HIDE DEF asking
  <2> QED BY <2>1 DEF Send, asking
<1> HIDE DEF opening, asking, r
<1> QED BY <1>4, <1>5, <1>6, <1>7, <1>8
-----------------------------------------------------------------------------
(* What the callers do.                                                    *)

LEMMA CallersDiffer ==
  /\ Poll \in Callers /\ Health \in Callers /\ Poll # Health
  /\ \A d \in Network : /\ Recovery(d) \in Callers /\ Recovery(d)[2] = d
                        /\ Recovery(d) # Poll /\ Recovery(d) # Health
  /\ \A c \in Callers \ {Poll, Health} : \E d \in Network : c = Recovery(d)
BY DEF Callers, Poll, Health, Recovery

LEMMA IdleState ==
  {"state", "command"} \subseteq DOMAIN Idle /\ Idle.state = "idle"
BY DEF Idle

LEMMA NextHealthCheckKept ==
  ASSUME NEW q, NEW W, NEW U, Kept(q, W, U), Health \in U
  PROVE  Kept(NextHealthCheck(q), W, U \ {Health})
<1> DEFINE idle == [q EXCEPT !.callers[Health] = Idle, !.checked = {}]
<1>1. {"queue", "callers", "sockets"} \subseteq DOMAIN q
  BY DEF Kept, Shaped
<1>2. Kept(idle, W, U \ {Health})
  <2>1. /\ {"queue", "callers", "sockets"} \subseteq DOMAIN idle
        /\ idle.queue = q.queue /\ idle.sockets = q.sockets
        /\ idle.callers = [q.callers EXCEPT ![Health] = Idle]
    BY <1>1
  <2> HIDE DEF idle
  <2> QED BY <2>1, IdleState, KeptSets
<1>3. ASSUME NEW checked, NEW command
      PROVE  Kept(Send([q EXCEPT !.checked = checked], Health, command), W, U \ {Health})
  <2> DEFINE p == [q EXCEPT !.checked = checked]
  <2>1. /\ {"queue", "callers", "sockets"} \subseteq DOMAIN p
        /\ p.queue = q.queue /\ p.callers = q.callers /\ p.sockets = q.sockets
    BY <1>1
  <2> HIDE DEF p
  <2>2. Kept(p, W, U)
    BY <2>1, KeptFields
  <2>3. Kept(Send(p, Health, command), W, U \ {Health})
    BY <2>2, SendKept
  <2> QED BY <2>3 DEF p
<1>4. \/ NextHealthCheck(q) = idle
      \/ \E checked, command :
           NextHealthCheck(q) = Send([q EXCEPT !.checked = checked], Health, command)
  BY Zenon DEF NextHealthCheck
<1> HIDE DEF idle
<1> QED BY <1>2, <1>3, <1>4

LEMMA ReconnectKept ==
  ASSUME NEW q, NEW W, NEW U, Kept(q, W, U), U \subseteq {Poll, Health}, NEW d
  PROVE  Kept(Reconnect(q, d), W, U)
<1>1. CASE d \in Network /\ q.callers[Recovery(d)] = Idle
  <2> DEFINE c == Recovery(d)
  <2>1. c \in Callers /\ c \notin U /\ q.callers[c].state = "idle"
    BY <1>1, CallersDiffer, IdleState
  <2>2. c \notin W
    BY <2>1 DEF Kept
  <2>3. Kept(q, W, U \cup {c})
    <3> HIDE DEF c
    <3> QED BY <2>1, <2>2, KeptTakes
  <2>4. (U \cup {c}) \ {c} = U
    BY <2>1
  <2>5. Kept(Send(q, c, Disconnect(d)), W, (U \cup {c}) \ {c})
    <3> HIDE DEF c
    <3> QED BY <2>3, SendKept
  <2>6. Reconnect(q, d) = Send(q, c, Disconnect(d))
    BY <1>1 DEF Reconnect
  <2> QED BY <2>4, <2>5, <2>6
<1>2. CASE ~(d \in Network /\ q.callers[Recovery(d)] = Idle)
  BY <1>2 DEF Reconnect
<1> QED BY <1>1, <1>2

LEMMA HealthCheckFailureKept ==
  ASSUME NEW q, NEW W, Kept(q, W, {Health}), NEW d
  PROVE  Kept(HealthCheckFailure(q, d), W, {Health})
<1>1. {"queue", "callers", "sockets"} \subseteq DOMAIN q
  BY DEF Kept, Shaped
<1> DEFINE more == [q EXCEPT !.attempts[d] = @ + 1]
           stuck == [q EXCEPT !.attempts[d] = 0, !.stuck = @ \cup {d},
                              !.order = IF d \in ToSet(@) THEN @ ELSE Append(@, d)]
<1>2. /\ {"queue", "callers", "sockets"} \subseteq DOMAIN more
      /\ more.queue = q.queue /\ more.callers = q.callers /\ more.sockets = q.sockets
  BY <1>1
<1>3. /\ {"queue", "callers", "sockets"} \subseteq DOMAIN stuck
      /\ stuck.queue = q.queue /\ stuck.callers = q.callers /\ stuck.sockets = q.sockets
  BY <1>1
<1>4. HealthCheckFailure(q, d) = more \/ HealthCheckFailure(q, d) = Reconnect(stuck, d)
  BY Zenon DEF HealthCheckFailure
<1> HIDE DEF more, stuck
<1>5. Kept(more, W, {Health})
  BY <1>2, KeptFields
<1>6. Kept(stuck, W, {Health})
  BY <1>3, KeptFields
<1>7. Kept(Reconnect(stuck, d), W, {Health})
  BY <1>6, ReconnectKept
<1> QED BY <1>4, <1>5, <1>7

LEMMA PolledKept ==
  ASSUME NEW q, NEW W, NEW U, Kept(q, W, U), NEW list
  PROVE  Kept(Polled(q, list), W, U)
<1>1. {"queue", "callers", "sockets"} \subseteq DOMAIN q
  BY DEF Kept, Shaped
<1>2. /\ {"queue", "callers", "sockets"} \subseteq DOMAIN Polled(q, list)
      /\ Polled(q, list).queue = q.queue /\ Polled(q, list).callers = q.callers
      /\ Polled(q, list).sockets = q.sockets
  <2> DEFINE New(a, b, c, e, f) == [q EXCEPT !.order = a, !.type = b, !.stuck = c,
                                             !.attempts = e, !.checked = f]
  <2>1. ASSUME NEW a, NEW b, NEW c, NEW e, NEW f
        PROVE  /\ {"queue", "callers", "sockets"} \subseteq DOMAIN New(a, b, c, e, f)
               /\ New(a, b, c, e, f).queue = q.queue
               /\ New(a, b, c, e, f).callers = q.callers
               /\ New(a, b, c, e, f).sockets = q.sockets
    BY <1>1
  <2>2. \E a, b, c, e, f : Polled(q, list) = New(a, b, c, e, f)
    BY Zenon DEF Polled
  <2> HIDE DEF New
  <2> QED BY <2>1, <2>2
<1> QED BY <1>2, KeptFields

LEMMA ReconnectingKept ==
  ASSUME NEW q, NEW W, NEW d \in Network, Kept(q, W, {Recovery(d)}), NEW command, NEW answer
  PROVE  Kept(Reconnecting(q, d, command, answer), W, {})
<1> DEFINE c == Recovery(d)
<1>1. {"queue", "callers", "sockets"} \subseteq DOMAIN q
  BY DEF Kept, Shaped
<1>2. c \in {c} /\ {c} \ {c} = {}
  OBVIOUS
<1>3. Kept(Send(q, c, Connect(d)), W, {})
  <2>1. Kept(Send(q, c, Connect(d)), W, {c} \ {c})
    <3> HIDE DEF c
    <3> QED BY <1>2, SendKept DEF c
  <2> QED BY <1>2, <2>1
<1>4. ASSUME NEW r, {"state", "command"} \subseteq DOMAIN r, r.state # "queued",
             NEW p, {"queue", "callers", "sockets"} \subseteq DOMAIN p,
             p.queue = q.queue, p.sockets = q.sockets, p.callers = [q.callers EXCEPT ![c] = r]
      PROVE  Kept(p, W, {})
  <2>1. Kept(p, W, {c} \ {c})
    <3>1. Kept(q, W, {c}) /\ c \in {c}
      OBVIOUS
    <3> HIDE DEF c
    <3> QED BY <1>4, <3>1, KeptSets
  <2> QED BY <1>2, <2>1
<1> DEFINE pausing == [state |-> "pausing", command |-> ListDevices]
           pause == [q EXCEPT !.callers[c] = pausing]
           idle == [q EXCEPT !.callers[c] = Idle]
<1>5. Kept(pause, W, {})
  <2>1. {"state", "command"} \subseteq DOMAIN pausing /\ pausing.state # "queued"
    OBVIOUS
  <2>2. /\ {"queue", "callers", "sockets"} \subseteq DOMAIN pause
        /\ pause.queue = q.queue /\ pause.sockets = q.sockets
        /\ pause.callers = [q.callers EXCEPT ![c] = pausing]
    BY <1>1
  <2> HIDE DEF pause, pausing, c
  <2> QED BY <1>4, <2>1, <2>2
<1>6. Kept(idle, W, {})
  <2>1. /\ {"queue", "callers", "sockets"} \subseteq DOMAIN idle
        /\ idle.queue = q.queue /\ idle.sockets = q.sockets
        /\ idle.callers = [q.callers EXCEPT ![c] = Idle]
    BY <1>1
  <2>2. {"state", "command"} \subseteq DOMAIN Idle /\ Idle.state # "queued"
    BY IdleState
  <2> HIDE DEF idle, c
  <2> QED BY <1>4, <2>1, <2>2
<1> DEFINE Found(stuck, type) ==
             [q EXCEPT !.callers[c] = Idle, !.stuck = stuck, !.type[d] = type]
<1>7. ASSUME NEW stuck, NEW type PROVE Kept(Found(stuck, type), W, {})
  <2> DEFINE p == Found(stuck, type)
  <2>1. /\ {"queue", "callers", "sockets"} \subseteq DOMAIN p
        /\ p.queue = q.queue /\ p.sockets = q.sockets
        /\ p.callers = [q.callers EXCEPT ![c] = Idle]
    BY <1>1
  <2>2. {"state", "command"} \subseteq DOMAIN Idle /\ Idle.state # "queued"
    BY IdleState
  <2> HIDE DEF p, c, Found
  <2>3. Kept(p, W, {})
    BY <1>4, <2>1, <2>2
  <2> QED BY <2>3 DEF p
<1>8. \/ Reconnecting(q, d, command, answer) = Send(q, c, Connect(d))
      \/ Reconnecting(q, d, command, answer) = pause
      \/ Reconnecting(q, d, command, answer) = idle
      \/ \E stuck, type : Reconnecting(q, d, command, answer) = Found(stuck, type)
  <2> DEFINE first == command = Disconnect(d)
             second == command = Connect(d) /\ answer # Failed
             third == command = ListDevices /\ answer # Failed /\ Listed(answer)[d] = "device"
             listed == [q EXCEPT !.callers[c] = Idle, !.stuck = @ \ {d},
                          !.type[d] = IF d \in ToSet(q.order) THEN "device" ELSE @]
  <2>1. Reconnecting(q, d, command, answer)
          = CASE first -> Send(q, c, Connect(d)) [] second -> pause [] third -> listed
              [] OTHER -> idle
    BY DEF Reconnecting
  <2>2. listed = [q EXCEPT !.callers[c] = Idle, !.stuck = q.stuck \ {d},
                    !.type[d] = IF d \in ToSet(q.order) THEN "device" ELSE q.type[d]]
    OBVIOUS
  <2>3. Reconnecting(q, d, command, answer) \in {Send(q, c, Connect(d)), pause, listed, idle}
    <3> HIDE DEF first, second, third, listed, pause, idle, c
    <3> QED BY <2>1
  <2> QED BY <2>2, <2>3, Zenon
<1> HIDE DEF pause, idle, c, Found
<1> QED BY <1>3, <1>5, <1>6, <1>7, <1>8

\* The caller that is told, and nobody else, has its request settled.
LEMMA ResumeKept ==
  ASSUME NEW q, NEW W, NEW who \in Callers, Kept(q, W, {who}), NEW command, NEW answer
  PROVE  Kept(Resume(q, who, command, answer), W, {})
<1>1. {"queue", "callers", "sockets"} \subseteq DOMAIN q
  BY DEF Kept, Shaped
<1>2. CASE who = Poll
  <2> DEFINE done == [q EXCEPT !.callers[Poll] = Idle]
  <2>1. /\ {"queue", "callers", "sockets"} \subseteq DOMAIN done
        /\ done.queue = q.queue /\ done.sockets = q.sockets
        /\ done.callers = [q.callers EXCEPT ![Poll] = Idle]
    BY <1>1
  <2>2. Resume(q, who, command, answer) = done
          \/ Resume(q, who, command, answer) = Polled(done, Listed(answer))
    <3>1. who # Health
      BY <1>2, CallersDiffer
    <3> QED BY <1>2, <3>1, Zenon DEF Resume
  <2> HIDE DEF done
  <2>3. Poll \in {who} /\ {who} \ {Poll} = {}
    BY <1>2
  <2>4. Kept(done, W, {who} \ {Poll})
    BY <2>1, <2>3, IdleState, KeptSets
  <2>5. Kept(done, W, {})
    BY <2>3, <2>4
  <2> QED BY <2>2, <2>5, PolledKept
<1>3. CASE who = Health
  <2> DEFINE d == command.device
             well == [q EXCEPT !.attempts[d] = 0]
  <2>1. /\ {"queue", "callers", "sockets"} \subseteq DOMAIN well
        /\ well.queue = q.queue /\ well.callers = q.callers /\ well.sockets = q.sockets
    BY <1>1
  <2>2. \/ Resume(q, who, command, answer) = NextHealthCheck(HealthCheckFailure(q, d))
        \/ Resume(q, who, command, answer) = NextHealthCheck(well)
    <3>1. who # Poll
      BY <1>3, CallersDiffer
    <3> QED BY <3>1, <1>3, Zenon DEF Resume
  <2> HIDE DEF well, d
  <2>3. Kept(well, W, {Health})
    BY <1>3, <2>1, KeptFields
  <2>4. Kept(HealthCheckFailure(q, d), W, {Health})
    BY <1>3, HealthCheckFailureKept
  <2>5. Health \in {Health} /\ {Health} \ {Health} = {}
    OBVIOUS
  <2>6. Kept(NextHealthCheck(HealthCheckFailure(q, d)), W, {Health} \ {Health})
    BY <2>4, <2>5, NextHealthCheckKept
  <2>7. Kept(NextHealthCheck(well), W, {Health} \ {Health})
    BY <2>3, <2>5, NextHealthCheckKept
  <2> QED BY <2>2, <2>5, <2>6, <2>7
<1>4. CASE who \notin {Poll, Health}
  <2>1. PICK d \in Network : who = Recovery(d)
    BY <1>4, CallersDiffer
  <2>2. who[2] = d
    BY <2>1, CallersDiffer
  <2>3. Resume(q, who, command, answer) = Reconnecting(q, who[2], command, answer)
    BY <1>4 DEF Resume
  <2>4. Kept(q, W, {Recovery(d)})
    BY <2>1
  <2>5. Kept(Reconnecting(q, d, command, answer), W, {})
    BY <2>4, ReconnectingKept
  <2> QED BY <2>2, <2>3, <2>5
<1> QED BY <1>2, <1>3, <1>4
-----------------------------------------------------------------------------
(* Many are told at once.                                                  *)

\* RejectEach goes through the queue from its first request to its last.
LEMMA RejectEachSteps ==
  ASSUME NEW q, NEW S, NEW queue \in Seq(S)
  PROVE  \E f : /\ f[0] = q
                /\ \A i \in 1..Len(queue) :
                     f[i] = Resume(f[i - 1], queue[i].who, queue[i].command, Failed)
                /\ RejectEach(q, queue) = f[Len(queue)]
<1> DEFINE n == Len(queue)
           Told(p, i) == Resume(p, queue[i].who, queue[i].command, Failed)
           Fits(m, f) == /\ f = [k \in 0..m |-> f[k]] /\ f[0] = q
                         /\ \A k \in 1..m : f[k] = Told(f[k - 1], k)
           T == {m \in Nat : \E f : Fits(m, f)}
           Body(f) == [i \in 0..n |-> IF i = 0 THEN q ELSE Told(f[i - 1], i)]
<1>1. n \in Nat
  OBVIOUS
<1>2. RejectEach(q, queue) = (CHOOSE f : f = Body(f))[n]
  BY DEF RejectEach
<1> HIDE DEF n
<1>3. 0 \in T
  <2> DEFINE f == [k \in 0..0 |-> q]
  <2>1. f = [k \in 0..0 |-> f[k]] /\ f[0] = q /\ 1..0 = {}
    OBVIOUS
  <2> HIDE DEF f, Told
  <2>2. Fits(0, f)
    BY <2>1
  <2> QED BY <2>2
<1>4. ASSUME NEW m \in Nat, m \in T PROVE m + 1 \in T
  <2>1. PICK f : Fits(m, f)
    BY <1>4
  <2> DEFINE g == [k \in 0..m + 1 |-> IF k <= m THEN f[k] ELSE Told(f[m], m + 1)]
  <2> HIDE DEF Told
  <2>2. g = [k \in 0..m + 1 |-> g[k]] /\ g[0] = q
    BY <2>1
  <2>3. ASSUME NEW k \in 1..m + 1 PROVE g[k] = Told(g[k - 1], k)
    <3>1. CASE k <= m
      <4>1. k \in 1..m /\ g[k] = f[k] /\ g[k - 1] = f[k - 1]
        BY <3>1
      <4> QED BY <2>1, <4>1
    <3>2. CASE ~(k <= m)
      <4>1. k = m + 1 /\ g[k] = Told(f[m], m + 1) /\ g[k - 1] = f[m]
        BY <3>2
      <4> QED BY <4>1
    <3> QED BY <3>1, <3>2
  <2> HIDE DEF g
  <2>4. Fits(m + 1, g)
    BY <2>2, <2>3
  <2> HIDE DEF Fits
  <2>5. m + 1 \in Nat /\ \E e : Fits(m + 1, e)
    BY <2>4
  <2> QED BY <2>5
<1> HIDE DEF T
<1>5. Nat \subseteq T
  BY <1>3, <1>4, NatSetInduction
<1>6. PICK f : Fits(n, f)
  <2> HIDE DEF Fits
  <2> QED BY <1>1, <1>5 DEF T
<1> HIDE DEF Told
<1>7. f = Body(f)
  <2>1. \A i \in 0..n : f[i] = IF i = 0 THEN q ELSE Told(f[i - 1], i)
    BY <1>1, <1>6
  <2>2. f = [k \in 0..n |-> f[k]]
    BY <1>6
  <2>3. [k \in 0..n |-> f[k]] = Body(f)
    BY <2>1, Zenon
  <2> QED BY <2>2, <2>3
<1> DEFINE r == CHOOSE e : e = Body(e)
<1>8. r = Body(r)
  <2> HIDE DEF Body
  <2> QED BY <1>7
<1>9. RejectEach(q, queue) = r[n]
  BY <1>2
<1> HIDE DEF r
<1>10. r[0] = q /\ \A i \in 1..n : r[i] = Told(r[i - 1], i)
  <2>1. \A i \in 0..n : r[i] = IF i = 0 THEN q ELSE Told(r[i - 1], i)
    BY <1>8
  <2> QED BY <2>1, <1>1
<1> QED BY <1>9, <1>10 DEF n, Told

\* When all requests are rejected, each of their callers goes on once.
LEMMA RejectAllKeeps ==
  ASSUME NEW q, Kept(q, {}, {})
  PROVE  Kept(RejectAll(q), {}, {})
<1> DEFINE w == q.queue
           n == Len(w)
           start == [q EXCEPT !.queue = <<>>]
           Left(i) == {w[j].who : j \in i + 1..n}
<1>1. PICK S : w \in Seq(S)
  BY DEF Kept, Queued
<1>2. n \in Nat
  BY <1>1
<1>3. {"queue", "callers", "sockets"} \subseteq DOMAIN q
  BY DEF Kept, Shaped
<1>4. /\ {"queue", "callers", "sockets"} \subseteq DOMAIN start
      /\ start.queue = <<>> /\ start.callers = q.callers /\ start.sockets = q.sockets
  BY <1>3
<1>5. /\ \A i \in 1..n : w[i].who \in In(q, "queued", {})
      /\ \A i, j \in 1..n : w[i].who = w[j].who => i = j
      /\ \A c \in In(q, "queued", {}) : \E i \in 1..n : w[i].who = c
  BY DEF Kept, Queued
<1>6. RejectAll(q) = RejectEach(start, w)
  BY DEF RejectAll
<1> HIDE DEF start, w, n
<1>7. Kept(start, Left(0), {})
  <2>1. Left(0) = In(q, "queued", {})
    BY <1>2, <1>5
  <2> HIDE DEF Left
  <2>2. In(start, "queued", Left(0) \cup {}) = {}
    BY <2>1, <1>4 DEF In
  <2>3. In(start, "opening", Left(0) \cup {}) = In(q, "opening", {})
    BY <2>1, <1>4 DEF In
  <2>4. Shaped(start)
    BY <1>4 DEF Shaped, Kept
  <2>5. OpensFor(start, Left(0) \cup {})
    <3>1. OpensFor(q, {} \cup {}) /\ {} \cup {} = {}
      BY <1>4 DEF Kept
    <3>2. start.sockets = q.sockets
      BY <1>4
    <3> QED BY <2>3, <3>1, <3>2, OpensForSame
  <2>6. Queued(start.queue, In(start, "queued", Left(0) \cup {}))
    BY <2>2, <1>4, QueuedNone
  <2>7. Left(0) \subseteq Callers /\ \A c \in Left(0) : start.callers[c].state = "queued"
    BY <2>1, <1>4 DEF In
  <2> QED BY <2>4, <2>5, <2>6, <2>7 DEF Kept
<1>8. PICK f : /\ f[0] = start
               /\ \A i \in 1..n : f[i] = Resume(f[i - 1], w[i].who, w[i].command, Failed)
               /\ RejectEach(start, w) = f[n]
  BY <1>1, RejectEachSteps DEF n
<1> DEFINE T == {i \in Nat : i <= n => Kept(f[i], Left(i), {})}
<1>9. 0 \in T
  BY <1>7, <1>8
<1>10. ASSUME NEW i \in Nat, i \in T PROVE i + 1 \in T
  <2> SUFFICES ASSUME i + 1 <= n PROVE Kept(f[i + 1], Left(i + 1), {})
    OBVIOUS
  <2> DEFINE k == i + 1
             c == w[k].who
  <2>1. k \in 1..n /\ k - 1 = i /\ Kept(f[i], Left(i), {})
    BY <1>2, <1>10
  <2>2. c \in Left(i) /\ Left(i) \ {c} = Left(k)
    <3>1. \A j \in i + 1..n : j \in 1..n /\ (j = k \/ j \in k + 1..n)
      BY <1>2, <2>1
    <3>2. \A j \in k + 1..n : j \in i + 1..n /\ j \in 1..n /\ j # k
      BY <1>2, <2>1
    <3>3. k \in i + 1..n
      BY <1>2, <2>1
    <3> HIDE DEF k
    <3>4. c \in Left(i)
      BY <3>3
    <3>5. \A j \in k + 1..n : w[j].who # c
      BY <3>2, <1>5, <2>1
    <3>6. Left(i) \ {c} \subseteq Left(k)
      BY <3>1
    <3>7. Left(k) \subseteq Left(i) \ {c}
      BY <3>2, <3>5
    <3> QED BY <3>4, <3>6, <3>7
  <2>3. f[k] = Resume(f[i], c, w[k].command, Failed)
    BY <1>8, <2>1
  <2> HIDE DEF k, c, Left
  <2>4. Kept(f[i], Left(k), {c})
    <3>1. Kept(f[i], Left(i) \ {c}, {} \cup {c})
      BY <2>1, <2>2, KeptTells
    <3> QED BY <2>2, <3>1
  <2>5. c \in Callers
    BY <2>4 DEF Kept
  <2>6. Kept(f[k], Left(k), {})
    BY <2>3, <2>4, <2>5, ResumeKept
  <2> QED BY <2>6 DEF k
<1> HIDE DEF T
<1>11. Nat \subseteq T
  BY <1>9, <1>10, NatSetInduction
<1>12. Kept(f[n], Left(n), {})
  <2> HIDE DEF Left
  <2>1. n \in T /\ n <= n
    BY <1>2, <1>11
  <2> QED BY <2>1 DEF T
<1>13. Left(n) = {}
  BY <1>2
<1> QED BY <1>6, <1>8, <1>12, <1>13

\* The first request leaves the queue, and its caller is free to go on.
LEMMA KeptHead ==
  ASSUME NEW q, Kept(q, {}, {}), q.queue # <<>>, NEW p,
         {"queue", "callers", "sockets"} \subseteq DOMAIN p,
         p.queue = Tail(q.queue), p.callers = q.callers, p.sockets = q.sockets
  PROVE  Head(q.queue).who \in Callers /\ Kept(p, {}, {Head(q.queue).who})
<1> DEFINE c == Head(q.queue).who
           C == In(q, "queued", {})
<1>1. Queued(q.queue, C)
  BY DEF Kept
<1>2. c \in C /\ Queued(Tail(q.queue), C \ {c})
  <2> HIDE DEF C
  <2> QED BY <1>1, QueuedTail
<1> HIDE DEF c
<1>3. c \in Callers /\ q.callers[c].state = "queued"
  BY <1>2 DEF In
<1>4. In(p, "queued", {} \cup {c}) = C \ {c}
  BY DEF In
<1>5. In(p, "opening", {} \cup {c}) = In(q, "opening", {})
  BY <1>3 DEF In
<1>6. Shaped(p)
  BY DEF Shaped, Kept
<1>7. OpensFor(p, {} \cup {c})
  <2>1. OpensFor(q, {} \cup {}) /\ {} \cup {} = {}
    BY DEF Kept
  <2> QED BY <1>5, <2>1, OpensForSame
<1>8. Queued(p.queue, In(p, "queued", {} \cup {c}))
  BY <1>2, <1>4
<1>9. Kept(p, {}, {c})
  BY <1>3, <1>6, <1>7, <1>8 DEF Kept
<1> QED BY <1>3, <1>9 DEF c
\* A socket changes, and does not begin to open.
LEMMA KeptSocket ==
  ASSUME NEW q, NEW W, NEW U, Kept(q, W, U), NEW s \in Sockets, NEW x,
         {"state", "waiter"} \subseteq DOMAIN x,
         \/ x.state # "opening"
         \/ x.state = q.sockets[s].state /\ x.waiter = q.sockets[s].waiter,
         NEW p, {"queue", "callers", "sockets"} \subseteq DOMAIN p,
         p.queue = q.queue, p.callers = q.callers, p.sockets = [q.sockets EXCEPT ![s] = x]
  PROVE  Kept(p, W, U)
<1>1. \A t \in Sockets : p.sockets[t] = IF t = s THEN x ELSE q.sockets[t]
  BY DEF Kept, Shaped
<1>2. Shaped(p)
  BY <1>1 DEF Kept, Shaped
<1>3. \A t \in Sockets : p.sockets[t].state = "opening" =>
        q.sockets[t].state = "opening" /\ p.sockets[t].waiter = q.sockets[t].waiter
  BY <1>1
<1> QED BY <1>2, <1>3, KeptFrame

\* A socket that opened or failed to lets its caller go on.
LEMMA KeptReleases ==
  ASSUME NEW q, Kept(q, {}, {}), NEW s \in Sockets, q.sockets[s].state = "opening",
         q.sockets[s].waiter # ReconnectLoop,
         NEW x, {"state", "waiter"} \subseteq DOMAIN x, x.state # "opening",
         NEW p, {"queue", "callers", "sockets"} \subseteq DOMAIN p,
         p.queue = q.queue, p.callers = q.callers, p.sockets = [q.sockets EXCEPT ![s] = x]
  PROVE  q.sockets[s].waiter \in Callers /\ Kept(p, {}, {q.sockets[s].waiter})
<1> DEFINE c == q.sockets[s].waiter
<1>0. OpensFor(q, {})
  <2>1. OpensFor(q, {} \cup {}) /\ {} \cup {} = {}
    BY DEF Kept
  <2> QED BY <2>1
<1>1. c \in In(q, "opening", {})
  BY <1>0 DEF OpensFor
<1>2. c \in Callers /\ q.callers[c].state = "opening"
  BY <1>1 DEF In
<1>3. \A t \in Sockets \ {s} : q.sockets[t].state = "opening" => q.sockets[t].waiter # c
  BY <1>0, <1>2 DEF OpensFor
<1>4. \A t \in Sockets : p.sockets[t] = IF t = s THEN x ELSE q.sockets[t]
  BY DEF Kept, Shaped
<1> HIDE DEF c
<1>5. Shaped(p)
  BY <1>4 DEF Kept, Shaped
<1>6. In(p, "queued", {} \cup {c}) = In(q, "queued", {})
  BY <1>2 DEF In
<1>7. In(p, "opening", {} \cup {c}) = In(q, "opening", {}) \ {c}
  BY DEF In
<1>8. OpensFor(p, {} \cup {c})
  <2>1. ReconnectLoop # c
    BY DEF c
  <2>2. ASSUME NEW t \in Sockets, p.sockets[t].state = "opening"
        PROVE  t # s /\ p.sockets[t] = q.sockets[t]
    BY <2>2, <1>4
  <2>3. \A t \in Sockets : p.sockets[t].state = "opening" =>
          p.sockets[t].waiter \in {ReconnectLoop} \cup In(p, "opening", {} \cup {c})
    <3>1. \A t \in Sockets : q.sockets[t].state = "opening" =>
            q.sockets[t].waiter \in {ReconnectLoop} \cup In(q, "opening", {})
      BY <1>0 DEF OpensFor
    <3> QED BY <2>1, <2>2, <3>1, <1>3, <1>7
  <2>4. \A t, u \in Sockets :
          /\ p.sockets[t].state = "opening" /\ p.sockets[u].state = "opening"
          /\ p.sockets[t].waiter = p.sockets[u].waiter /\ p.sockets[t].waiter \in Callers
          => t = u
    BY <2>2, <1>0 DEF OpensFor
  <2> QED BY <2>3, <2>4 DEF OpensFor
<1>9. Kept(p, {}, {c})
  BY <1>2, <1>5, <1>6, <1>8 DEF Kept
<1> QED BY <1>2, <1>9 DEF c

\* After a transport the caller has another request queued.
LEMMA KeptAppend ==
  ASSUME NEW q, NEW W, NEW U, Kept(q, W, U), NEW c \in U, q.callers[c].state = "queued",
         NEW command, NEW p, {"queue", "callers", "sockets"} \subseteq DOMAIN p,
         p.queue = Append(q.queue, Request(c, command)),
         p.callers = q.callers, p.sockets = q.sockets
  PROVE  Kept(p, W, U \ {c})
<1> DEFINE C == In(q, "queued", W \cup U)
<1>1. c \in Callers /\ c \notin W /\ W \cup (U \ {c}) = (W \cup U) \ {c}
  BY DEF Kept
<1>2. Queued(p.queue, C \cup {c})
  <2>1. c \notin C /\ Queued(q.queue, C)
    BY DEF In, Kept
  <2> HIDE DEF C
  <2> QED BY <2>1, QueuedAppend
<1>3. In(p, "queued", W \cup (U \ {c})) = C \cup {c}
  BY <1>1 DEF In
<1>4. In(p, "opening", W \cup (U \ {c})) = In(q, "opening", W \cup U)
  BY <1>1 DEF In
<1>5. Shaped(p) /\ OpensFor(p, W \cup (U \ {c}))
  <2>1. Shaped(q) /\ OpensFor(q, W \cup U)
    BY DEF Kept
  <2>2. Shaped(p)
    BY <2>1 DEF Shaped
  <2>3. OpensFor(p, W \cup (U \ {c}))
    BY <1>4, <2>1, OpensForSame
  <2> QED BY <2>2, <2>3
<1>6. W \subseteq Callers /\ U \ {c} \subseteq Callers /\ W \cap (U \ {c}) = {}
  BY DEF Kept
<1>7. \A e \in W : p.callers[e].state = "queued"
  BY DEF Kept
<1> QED BY <1>2, <1>3, <1>5, <1>6, <1>7 DEF Kept

-----------------------------------------------------------------------------
(* Answers.                                                                *)

LEMMA ResolveKept ==
  ASSUME NEW q, Kept(q, {}, {}), q.queue # <<>>, NEW answer
  PROVE  Kept(Resolve(q, answer), {}, {})
<1> DEFINE h == Head(q.queue)
           c == h.who
           rest == [q EXCEPT !.queue = Tail(@)]
           more == [rest EXCEPT !.queue = Append(@, Request(c, GetProp(h.command.device)))]
<1>1. {"queue", "callers", "sockets"} \subseteq DOMAIN q
  BY DEF Kept, Shaped
<1>2. /\ {"queue", "callers", "sockets"} \subseteq DOMAIN rest
      /\ rest.queue = Tail(q.queue) /\ rest.callers = q.callers /\ rest.sockets = q.sockets
  BY <1>1
<1>3. c \in Callers /\ Kept(rest, {}, {c})
  <2> HIDE DEF rest
  <2> QED BY <1>2, KeptHead
<1>4. q.callers[c].state = "queued"
  <2> DEFINE C == In(q, "queued", {})
  <2>1. Queued(q.queue, C)
    BY DEF Kept
  <2>2. c \in C
    <3> HIDE DEF C
    <3> QED BY <2>1, QueuedTail
  <2> QED BY <2>2 DEF In
<1>5. /\ {"queue", "callers", "sockets"} \subseteq DOMAIN more
      /\ more.queue = Append(rest.queue, Request(c, GetProp(h.command.device)))
      /\ more.callers = rest.callers /\ more.sockets = rest.sockets
  <2> HIDE DEF rest, h
  <2> QED BY <1>2
<1>6. \/ Resolve(q, answer) = ProcessNextRequest(more)
      \/ Resolve(q, answer) = Resume(ProcessNextRequest(rest), c, h.command, answer)
  BY Zenon DEF Resolve
<1>7. Kept(ProcessNextRequest(more), {}, {})
  <2>1. c \in {c} /\ {c} \ {c} = {}
    OBVIOUS
  <2>2. rest.callers[c].state = "queued"
    BY <1>2, <1>4
  <2> HIDE DEF more, rest, h
  <2>3. Kept(more, {}, {c} \ {c})
    BY <1>3, <1>5, <2>1, <2>2, KeptAppend
  <2> QED BY <2>1, <2>3, ProcessKept
<1>8. Kept(Resume(ProcessNextRequest(rest), c, h.command, answer), {}, {})
  <2> HIDE DEF rest, h
  <2>1. Kept(ProcessNextRequest(rest), {}, {c})
    BY <1>3, ProcessKept
  <2> QED BY <1>3, <2>1, ResumeKept
<1> HIDE DEF rest, more, h
<1> QED BY <1>6, <1>7, <1>8

LEMMA RejectKept ==
  ASSUME NEW q, Kept(q, {}, {}), q.queue # <<>>
  PROVE  Kept(Reject(q), {}, {})
<1> DEFINE h == Head(q.queue)
           rest == [q EXCEPT !.queue = Tail(@)]
<1>1. {"queue", "callers", "sockets"} \subseteq DOMAIN q
  BY DEF Kept, Shaped
<1>2. /\ {"queue", "callers", "sockets"} \subseteq DOMAIN rest
      /\ rest.queue = Tail(q.queue) /\ rest.callers = q.callers /\ rest.sockets = q.sockets
  BY <1>1
<1>3. Reject(q) = Resume(ProcessNextRequest(rest), h.who, h.command, Failed)
  BY Zenon DEF Reject
<1> HIDE DEF rest
<1>4. h.who \in Callers /\ Kept(rest, {}, {h.who})
  BY <1>2, KeptHead
<1>5. Kept(ProcessNextRequest(rest), {}, {h.who})
  BY <1>4, ProcessKept
<1> HIDE DEF h
<1> QED BY <1>3, <1>4, <1>5, ResumeKept

LEMMA CloseAfterKept ==
  ASSUME NEW q, NEW W, NEW U, Kept(q, W, U)
  PROVE  Kept(CloseConnectionAfterTransport(q), W, U)
<1> DEFINE p == [q EXCEPT !.sockets[q.connection].state = "destroyed", !.connection = 0]
<1>1. {"queue", "callers", "sockets"} \subseteq DOMAIN q
  BY DEF Kept, Shaped
<1>2. /\ {"queue", "callers", "sockets"} \subseteq DOMAIN p
      /\ p.queue = q.queue /\ p.callers = q.callers
      /\ p.sockets = [q.sockets EXCEPT ![q.connection].state = "destroyed"]
  BY <1>1
<1>3. CloseConnectionAfterTransport(q) = q \/ CloseConnectionAfterTransport(q) = p
  BY DEF CloseConnectionAfterTransport
<1> HIDE DEF p
<1>4. ASSUME NEW s \in Sockets
      PROVE  /\ {"state", "waiter"} \subseteq DOMAIN p.sockets[s]
             /\ p.sockets[s].state = "opening" =>
                  q.sockets[s].state = "opening" /\ p.sockets[s].waiter = q.sockets[s].waiter
  <2>1. s \in DOMAIN q.sockets /\ {"state", "waiter"} \subseteq DOMAIN q.sockets[s]
    BY DEF Kept, Shaped
  <2>2. CASE s = q.connection
    BY <1>2, <2>1, <2>2
  <2>3. CASE s # q.connection
    <3>1. p.sockets[s] = q.sockets[s]
      BY <1>2, <2>1, <2>3
    <3> QED BY <2>1, <3>1
  <2> QED BY <2>2, <2>3
<1>5. DOMAIN p.sockets = Sockets
  BY <1>2 DEF Kept, Shaped
<1>6. Shaped(p)
  BY <1>2, <1>4, <1>5 DEF Kept, Shaped
<1>7. Kept(p, W, U)
  BY <1>2, <1>4, <1>6, KeptFrame
<1> QED BY <1>3, <1>7

LEMMA UnderstoodKept ==
  ASSUME NEW q, Kept(q, {}, {}), NEW s \in Sockets
  PROVE  Kept(Understood(q, s), {}, {})
<1> DEFINE buffer == q.sockets[s].buffer
           request == Head(q.queue)
           Left(n) == [q EXCEPT !.sockets[s].buffer = SubSeq(@, n + 1, Len(@))]
           lines == {i \in 1..Len(buffer) : buffer[i].token \in {"line", "list"}}
           started == [Left(Len(buffer)) EXCEPT !.queue[1].started = TRUE]
           rest == [Left(Len(buffer)) EXCEPT !.queue = Tail(@)]
           told == Resume(ProcessNextRequest(CloseConnectionAfterTransport(rest)),
                          request.who, request.command, Line)
           decided == CASE buffer[2].token \in {"list", "text"} -> Resolve(Left(2), buffer[2])
                        [] buffer[2] = Okay -> Resolve(q, Text)
                        [] OTHER -> q
           answered == CASE buffer[1] = Failed -> Reject(Left(1))
                         [] buffer[1] = Okay /\ ~NeedsData(request) -> Resolve(Left(1), Okay)
                         [] buffer[1] = Okay /\ NeedsData(request) /\ Len(buffer) > 1 -> decided
                         [] OTHER -> q
<1>1. Understood(q, s) =
        IF q.queue = <<>> \/ buffer = <<>> THEN q
        ELSE IF request.started \/ (buffer[1] = Okay /\ IsRawStream(request))
        THEN IF lines = {} THEN started ELSE told
        ELSE answered
  BY DEF Understood
<1>2. {"queue", "callers", "sockets"} \subseteq DOMAIN q
  BY DEF Kept, Shaped
<1>3. ASSUME NEW n
      PROVE  /\ Kept(Left(n), {}, {})
             /\ {"queue", "callers", "sockets"} \subseteq DOMAIN Left(n)
             /\ Left(n).queue = q.queue
  <2> DEFINE x == [q.sockets[s] EXCEPT !.buffer = SubSeq(@, n + 1, Len(@))]
             p == Left(n)
  <2>1. s \in DOMAIN q.sockets /\ {"state", "waiter"} \subseteq DOMAIN q.sockets[s]
    BY DEF Kept, Shaped
  <2>2. /\ {"queue", "callers", "sockets"} \subseteq DOMAIN p
        /\ p.queue = q.queue /\ p.callers = q.callers
        /\ p.sockets = [q.sockets EXCEPT ![s] = x]
    BY <1>2, <2>1
  <2>3. /\ {"state", "waiter"} \subseteq DOMAIN x
        /\ x.state = q.sockets[s].state /\ x.waiter = q.sockets[s].waiter
    BY <2>1
  <2> HIDE DEF x, p
  <2>4. Kept(p, {}, {})
    BY <2>2, <2>3, KeptSocket
  <2> QED BY <2>2, <2>4 DEF p
<1> HIDE DEF Left
<1>4. ASSUME q.queue # <<>> PROVE Kept(started, {}, {})
  <2> DEFINE p == Left(Len(buffer))
  <2>1. Kept(p, {}, {}) /\ {"queue", "callers", "sockets"} \subseteq DOMAIN p /\ p.queue # <<>>
    BY <1>3, <1>4
  <2> HIDE DEF p
  <2>2. LET v == [p EXCEPT !.queue[1].started = TRUE]
        IN  /\ {"queue", "callers", "sockets"} \subseteq DOMAIN v
            /\ v.queue = [p.queue EXCEPT ![1].started = TRUE]
            /\ v.callers = p.callers /\ v.sockets = p.sockets
    BY <2>1
  <2>3. Kept([p EXCEPT !.queue[1].started = TRUE], {}, {})
    BY <2>1, <2>2, KeptFirst
  <2> QED BY <2>3 DEF p
<1>5. ASSUME q.queue # <<>> PROVE Kept(told, {}, {})
  <2> DEFINE p == Left(Len(buffer))
  <2>1. /\ Kept(p, {}, {}) /\ {"queue", "callers", "sockets"} \subseteq DOMAIN p
        /\ p.queue = q.queue
    BY <1>3
  <2>2. rest = [p EXCEPT !.queue = Tail(@)]
    OBVIOUS
  <2> HIDE DEF p, rest
  <2>3. /\ {"queue", "callers", "sockets"} \subseteq DOMAIN rest
        /\ rest.queue = Tail(p.queue) /\ rest.callers = p.callers /\ rest.sockets = p.sockets
    BY <2>1, <2>2
  <2>4. Head(p.queue).who \in Callers /\ Kept(rest, {}, {Head(p.queue).who})
    BY <1>5, <2>1, <2>3, KeptHead
  <2>5. request.who \in Callers /\ Kept(rest, {}, {request.who})
    BY <2>1, <2>4
  <2> HIDE DEF request
  <2>6. Kept(ProcessNextRequest(CloseConnectionAfterTransport(rest)), {}, {request.who})
    BY <2>5, CloseAfterKept, ProcessKept
  <2> QED BY <2>5, <2>6, ResumeKept
<1>6. ASSUME q.queue # <<>> PROVE Kept(answered, {}, {})
  <2>1. Kept(Reject(Left(1)), {}, {})
    BY <1>3, <1>6, RejectKept
  <2>2. Kept(Resolve(Left(1), Okay), {}, {})
    BY <1>3, <1>6, ResolveKept
  <2>3. Kept(Resolve(Left(2), buffer[2]), {}, {})
    <3> HIDE DEF buffer
    <3> QED BY <1>3, <1>6, ResolveKept
  <2>4. Kept(Resolve(q, Text), {}, {})
    BY <1>6, ResolveKept
  <2> HIDE DEF buffer, request
  <2>5. Kept(decided, {}, {})
    BY <2>3, <2>4
  <2> HIDE DEF decided
  <2> QED BY <2>1, <2>2, <2>5
<1> HIDE DEF started, told, answered, lines
<1> QED BY <1>1, <1>4, <1>5, <1>6
-----------------------------------------------------------------------------
(* The steps.                                                              *)

LEMMA InitIInv == Init => IInv
<1> SUFFICES ASSUME Init PROVE IInv
  OBVIOUS
<1>1. Shaped(o)
  BY DEF Init, Shaped, Idle, NoSocket
<1>2. o.queue = <<>> /\ (\A c \in Callers : o.callers[c].state = "idle")
        /\ \A s \in Sockets : o.sockets[s].state = "none"
  BY DEF Init, Idle, NoSocket
<1>3. In(o, "queued", {} \cup {}) = {}
  BY <1>2 DEF In
<1>4. OpensFor(o, {} \cup {})
  BY <1>2 DEF OpensFor
<1> QED BY <1>1, <1>2, <1>3, <1>4, QueuedNone DEF IInv, Kept

LEMMA StartPollKeeps == IInv /\ StartPoll => IInv'
<1> SUFFICES ASSUME IInv, StartPoll PROVE IInv'
  OBVIOUS
<1>1. Poll \in Callers \ ({} \cup {}) /\ o.callers[Poll].state \notin {"queued", "opening"}
  BY CallersDiffer, IdleState DEF StartPoll
<1>2. Kept(o, {}, {Poll})
  <2>1. Kept(o, {}, {} \cup {Poll})
    BY <1>1, KeptTakes DEF IInv
  <2> QED BY <2>1
<1>3. Kept(Send(o, Poll, ListDevices), {}, {Poll} \ {Poll})
  BY <1>2, SendKept
<1> QED BY <1>3 DEF StartPoll, IInv

LEMMA StartHealthChecksKeeps == IInv /\ StartHealthChecks => IInv'
<1> SUFFICES ASSUME IInv, StartHealthChecks PROVE IInv'
  OBVIOUS
<1>1. Health \in Callers \ ({} \cup {}) /\ o.callers[Health].state \notin {"queued", "opening"}
  BY CallersDiffer, IdleState DEF StartHealthChecks
<1>2. Kept(o, {}, {Health})
  <2>1. Kept(o, {}, {} \cup {Health})
    BY <1>1, KeptTakes DEF IInv
  <2> QED BY <2>1
<1>3. Kept(NextHealthCheck(o), {}, {Health} \ {Health})
  BY <1>2, NextHealthCheckKept
<1> QED BY <1>3 DEF StartHealthChecks, IInv

\* A caller that waits or pauses has no request.
LEMMA FreeTakes ==
  ASSUME IInv, NEW c \in Callers, o.callers[c].state \in {"waiting", "pausing"}
  PROVE  Kept(o, {}, {c})
<1>1. Kept(o, {}, {} \cup {c})
  BY KeptTakes DEF IInv
<1> QED BY <1>1

LEMMA CheckConnectionKeeps ==
  ASSUME IInv, NEW c \in Callers, CheckConnection(c) PROVE IInv'
<1>1. Kept(o, {}, {c})
  BY FreeTakes DEF CheckConnection
<1>2. Kept(Enqueue(o, c), {}, {c} \ {c})
  BY <1>1, EnqueueKept
<1>3. Kept(Resume(o, c, o.callers[c].command, Failed), {}, {})
  BY <1>1, ResumeKept
<1>4. {c} \ {c} = {}
  OBVIOUS
<1> QED BY <1>2, <1>3, <1>4 DEF CheckConnection, IInv

LEMMA PauseKeeps ==
  ASSUME IInv, NEW c \in Callers, Pause(c) PROVE IInv'
<1>1. Kept(o, {}, {c})
  BY FreeTakes DEF Pause
<1>2. Kept(Send(o, c, o.callers[c].command), {}, {c} \ {c})
  BY <1>1, SendKept
<1>3. {c} \ {c} = {}
  OBVIOUS
<1> QED BY <1>2, <1>3 DEF Pause, IInv

LEMMA ObserverShape ==
  ASSUME IInv
  PROVE  /\ {"queue", "callers", "sockets"} \subseteq DOMAIN o /\ DOMAIN o.sockets = Sockets
         /\ \A s \in Sockets : {"state", "waiter"} \subseteq DOMAIN o.sockets[s]
BY DEF IInv, Kept, Shaped

LEMMA OpenedKeeps ==
  ASSUME IInv, NEW s \in Sockets, Opened(s) PROVE IInv'
<1> DEFINE x == [o.sockets[s] EXCEPT !.state = "open", !.waiter = None]
           open == [o EXCEPT !.connecting = FALSE, !.connection = s,
                             !.sockets[s].state = "open", !.sockets[s].waiter = None]
           next == [open EXCEPT !.attempt = 0]
           waiter == o.sockets[s].waiter
<1>1. /\ {"queue", "callers", "sockets"} \subseteq DOMAIN open
      /\ open.queue = o.queue /\ open.callers = o.callers
      /\ open.sockets = [o.sockets EXCEPT ![s] = x]
  <2>1. [[o.sockets EXCEPT ![s].state = "open"] EXCEPT ![s].waiter = None]
          = [o.sockets EXCEPT ![s] = x]
    BY ObserverShape
  <2> HIDE DEF x
  <2> QED BY <2>1, ObserverShape
<1>2. {"state", "waiter"} \subseteq DOMAIN x /\ x.state = "open"
  BY ObserverShape
<1>3. /\ {"queue", "callers", "sockets"} \subseteq DOMAIN next
      /\ next.queue = open.queue /\ next.callers = open.callers /\ next.sockets = open.sockets
  <2> HIDE DEF open
  <2> QED BY <1>1
<1>4. /\ o.sockets[s].state = "opening"
      /\ o' = IF waiter = ReconnectLoop THEN ProcessNextRequest(next) ELSE Enqueue(open, waiter)
  BY DEF Opened
<1> HIDE DEF open, next, x
<1>5. CASE waiter = ReconnectLoop
  <2>1. Kept(open, {}, {})
    BY <1>1, <1>2, KeptSocket DEF IInv
  <2>2. Kept(next, {}, {})
    BY <1>3, <2>1, KeptFields
  <2> QED BY <1>4, <1>5, <2>2, ProcessKept DEF IInv
<1>6. CASE waiter # ReconnectLoop
  <2>1. waiter \in Callers /\ Kept(open, {}, {waiter})
    BY <1>1, <1>2, <1>4, <1>6, KeptReleases DEF IInv
  <2> HIDE DEF waiter
  <2>2. Kept(Enqueue(open, waiter), {}, {waiter} \ {waiter})
    BY <2>1, EnqueueKept
  <2>3. {waiter} \ {waiter} = {}
    OBVIOUS
  <2> QED BY <1>4, <1>6, <2>2, <2>3 DEF IInv
<1> QED BY <1>5, <1>6

LEMMA RefusedKeeps ==
  ASSUME IInv, NEW s \in Sockets, Refused(s) PROVE IInv'
<1> DEFINE closed == [o EXCEPT !.connecting = FALSE, !.connection = 0, !.sockets[s] = NoSocket]
           waiter == o.sockets[s].waiter
           again == [closed EXCEPT !.attempt = @ + 1]
           over == [closed EXCEPT !.attempt = 0]
           told == Resume(closed, waiter, o.callers[waiter].command, Failed)
<1>1. /\ {"queue", "callers", "sockets"} \subseteq DOMAIN closed
      /\ closed.queue = o.queue /\ closed.callers = o.callers
      /\ closed.sockets = [o.sockets EXCEPT ![s] = NoSocket]
  BY ObserverShape
<1>2. {"state", "waiter"} \subseteq DOMAIN NoSocket /\ NoSocket.state = "none"
  BY DEF NoSocket
<1>3. /\ {"queue", "callers", "sockets"} \subseteq DOMAIN again
      /\ again.queue = closed.queue /\ again.callers = closed.callers
      /\ again.sockets = closed.sockets
      /\ {"queue", "callers", "sockets"} \subseteq DOMAIN over
      /\ over.queue = closed.queue /\ over.callers = closed.callers
      /\ over.sockets = closed.sockets
  <2> HIDE DEF closed
  <2> QED BY <1>1
<1>4. o.sockets[s].state = "opening"
  BY DEF Refused
<1>5. \/ waiter # ReconnectLoop /\ o' = told
      \/ o' = closed
      \/ o' = again
      \/ o' = RejectAll(over)
  <2> DEFINE none == waiter = ReconnectLoop /\ o.attempt = 0
             some == waiter = ReconnectLoop /\ o.attempt \in 1..(MaxReconnects - 1)
             asked == waiter # ReconnectLoop
             last == RejectAll(over)
  <2>1. o' = CASE asked -> told [] none -> closed [] some -> again [] OTHER -> last
    BY DEF Refused
  <2>2. \/ asked /\ o' = told
        \/ o' = closed
        \/ o' = again
        \/ o' = last
    <3> HIDE DEF asked, none, some, last, told, closed, again, over
    <3> QED BY <2>1
  <2> QED BY <2>2
<1> HIDE DEF closed, again, over
<1>6. Kept(closed, {}, {})
  <2> HIDE DEF told
  <2> QED BY <1>1, <1>2, KeptSocket DEF IInv
<1>7. Kept(again, {}, {}) /\ Kept(over, {}, {})
  <2> HIDE DEF told
  <2> QED BY <1>3, <1>6, KeptFields
<1>8. ASSUME waiter # ReconnectLoop PROVE Kept(told, {}, {})
  <2>1. waiter \in Callers /\ Kept(closed, {}, {waiter})
    BY <1>1, <1>2, <1>4, <1>8, KeptReleases DEF IInv
  <2> HIDE DEF waiter
  <2> QED BY <2>1, ResumeKept
<1>9. Kept(RejectAll(over), {}, {})
  BY <1>7, RejectAllKeeps
<1> HIDE DEF told, waiter
<1> QED BY <1>5, <1>6, <1>7, <1>8, <1>9 DEF IInv

LEMMA AttemptReconnectKeeps == IInv /\ AttemptReconnect => IInv'
<1> SUFFICES ASSUME IInv, AttemptReconnect PROVE IInv'
  OBVIOUS
<1>1. Kept(CreateConnection(o, ReconnectLoop), {}, {})
  BY CreateKept DEF AttemptReconnect, IInv
<1> QED BY <1>1 DEF AttemptReconnect, IInv

\* The server reads from sockets that are open, and ends some.
LEMMA ServedState ==
  ASSUME NEW socket, {"state", "waiter"} \subseteq DOMAIN socket, socket.state = "open",
         NEW k, NEW h, NEW x \in Served(socket, k, h)
  PROVE  {"state", "waiter"} \subseteq DOMAIN x /\ x.state # "opening"
<1>1. ASSUME NEW tokens, NEW ended \in BOOLEAN
      PROVE  /\ {"state", "waiter"} \subseteq DOMAIN Answer(socket, tokens, ended)
             /\ Answer(socket, tokens, ended).state # "opening"
  BY DEF Answer
<1>2. ASSUME NEW tokens, NEW d
      PROVE  LET y == [Answer(socket, tokens, FALSE) EXCEPT !.to = d]
             IN  {"state", "waiter"} \subseteq DOMAIN y /\ y.state # "opening"
  <2> DEFINE z == Answer(socket, tokens, FALSE)
  <2>1. {"state", "waiter"} \subseteq DOMAIN z /\ z.state # "opening"
    BY <1>1
  <2> HIDE DEF z
  <2>2. LET y == [z EXCEPT !.to = d]
        IN  {"state", "waiter"} \subseteq DOMAIN y /\ y.state # "opening"
    BY <2>1
  <2> QED BY <2>2 DEF z
<1>3. LET y == [socket EXCEPT !.commands = Tail(@)]
      IN  {"state", "waiter"} \subseteq DOMAIN y /\ y.state # "opening"
  OBVIOUS
<1> DEFINE command == Head(socket.commands)
           d == command.device
           a1 == Answer(socket, <<Okay, List(k)>>, FALSE)
           a2 == Answer(socket, <<Okay, Text>>, FALSE)
           a3 == [Answer(socket, <<Okay>>, FALSE) EXCEPT !.to = d]
           a4 == Answer(socket, <<Failed>>, TRUE)
           a5 == [socket EXCEPT !.commands = Tail(@)]
           a6 == Answer(socket, <<Okay, Line>>, TRUE)
           a7 == Answer(socket, <<Okay, List(k)>>, TRUE)
           c1 == command = ListDevices
           c2 == command.name \in {"host:disconnect", "host:connect"}
           c3 == command = Transport(d) /\ k[d] = "device"
           c4 == socket.to \in h
           c5 == socket.to \notin h /\ command.name = "shell:getprop"
           c6 == socket.to \notin h /\ command = ListDevices
<1>4. Served(socket, k, h) =
        IF socket.to = 0
        THEN CASE c1 -> {a1} [] c2 -> {a2} [] c3 -> {a3} [] OTHER -> {a4}
        ELSE CASE c4 -> {a5} [] c5 -> {a6} [] c6 -> {a4, a7} [] OTHER -> {a4}
  BY DEF Served
<1>5. x \in {a1, a2, a3, a4, a5, a6, a7}
  <2> HIDE DEF a1, a2, a3, a4, a5, a6, a7, c1, c2, c3, c4, c5, c6
  <2> DEFINE line == CASE c1 -> {a1} [] c2 -> {a2} [] c3 -> {a3} [] OTHER -> {a4}
             tunnel == CASE c4 -> {a5} [] c5 -> {a6} [] c6 -> {a4, a7} [] OTHER -> {a4}
             all == {a1, a2, a3, a4, a5, a6, a7}
  <2>1. line \subseteq all
    OBVIOUS
  <2>2. tunnel \subseteq all
    OBVIOUS
  <2>3. x \in line \/ x \in tunnel
    <3> HIDE DEF line, tunnel
    <3> QED BY <1>4 DEF line, tunnel
  <2> HIDE DEF line, tunnel, all
  <2>4. x \in all
    BY <2>1, <2>2, <2>3
  <2> QED BY <2>4 DEF all
<1>6. /\ {"state", "waiter"} \subseteq DOMAIN a1 /\ a1.state # "opening"
      /\ {"state", "waiter"} \subseteq DOMAIN a2 /\ a2.state # "opening"
      /\ {"state", "waiter"} \subseteq DOMAIN a4 /\ a4.state # "opening"
      /\ {"state", "waiter"} \subseteq DOMAIN a6 /\ a6.state # "opening"
      /\ {"state", "waiter"} \subseteq DOMAIN a7 /\ a7.state # "opening"
  BY <1>1
<1>7. {"state", "waiter"} \subseteq DOMAIN a3 /\ a3.state # "opening"
  BY <1>2
<1>8. {"state", "waiter"} \subseteq DOMAIN a5 /\ a5.state # "opening"
  BY <1>3
<1> HIDE DEF a1, a2, a3, a4, a5, a6, a7
<1> QED BY <1>5, <1>6, <1>7, <1>8
LEMMA ServeKeeps ==
  ASSUME IInv, NEW s \in Sockets, Serve(s) PROVE IInv'
<1>1. PICK x \in Served(o.sockets[s], known, hung) : o' = [o EXCEPT !.sockets[s] = x]
  BY DEF Serve
<1>2. {"state", "waiter"} \subseteq DOMAIN x /\ x.state # "opening"
  BY ObserverShape, ServedState DEF Serve
<1>3. /\ {"queue", "callers", "sockets"} \subseteq DOMAIN o'
      /\ (o').queue = o.queue /\ (o').callers = o.callers
      /\ (o').sockets = [o.sockets EXCEPT ![s] = x]
  BY <1>1, ObserverShape
<1>4. Kept(o', {}, {})
  BY <1>2, <1>3, KeptSocket DEF IInv
<1> QED BY <1>4 DEF IInv

LEMMA DataKeeps ==
  ASSUME IInv, NEW s \in Sockets, Data(s) PROVE IInv'
<1> DEFINE p(n) == [o EXCEPT !.sockets[s].sent = SubSeq(@, n + 1, Len(@)),
                             !.sockets[s].buffer = @ \o SubSeq(o.sockets[s].sent, 1, n)]
<1>1. PICK n \in 1..Len(o.sockets[s].sent) : o' = Understood(p(n), s)
  BY DEF Data
<1> DEFINE left == SubSeq(o.sockets[s].sent, n + 1, Len(o.sockets[s].sent))
           read == o.sockets[s].buffer \o SubSeq(o.sockets[s].sent, 1, n)
           x == [o.sockets[s] EXCEPT !.sent = left, !.buffer = read]
           r == [o EXCEPT !.sockets[s].sent = left, !.sockets[s].buffer = read]
<1>2. p(n) = r
  <2> DEFINE k == [o.sockets EXCEPT ![s].sent = left]
             v == [o EXCEPT !.sockets = k]
  <2>1. p(n) = [v EXCEPT !.sockets[s].buffer = @ \o SubSeq(o.sockets[s].sent, 1, n)]
    OBVIOUS
  <2>2. r = [v EXCEPT !.sockets[s].buffer = read]
    <3> HIDE DEF read
    <3> QED OBVIOUS
  <2>3. v.sockets = k
    <3> HIDE DEF k
    <3> QED BY ObserverShape
  <2>4. k[s].buffer = o.sockets[s].buffer
    <3> HIDE DEF left
    <3> QED BY ObserverShape
  <2> HIDE DEF v, k, p, r
  <2>5. [v EXCEPT !.sockets[s].buffer = @ \o SubSeq(o.sockets[s].sent, 1, n)]
          = [v EXCEPT !.sockets[s].buffer = v.sockets[s].buffer \o SubSeq(o.sockets[s].sent, 1, n)]
    OBVIOUS
  <2> QED BY <2>1, <2>2, <2>3, <2>4, <2>5
<1> HIDE DEF p, left, read
<1>3. {"state", "waiter"} \subseteq DOMAIN x /\ x.state = o.sockets[s].state
        /\ x.waiter = o.sockets[s].waiter
  BY ObserverShape
<1>4. /\ {"queue", "callers", "sockets"} \subseteq DOMAIN r
      /\ r.queue = o.queue /\ r.callers = o.callers
      /\ r.sockets = [o.sockets EXCEPT ![s] = x]
  <2>1. [[o.sockets EXCEPT ![s].sent = left] EXCEPT ![s].buffer = read]
          = [o.sockets EXCEPT ![s] = x]
    BY ObserverShape
  <2> HIDE DEF x
  <2> QED BY <2>1, ObserverShape
<1> HIDE DEF r, x
<1>5. Kept(r, {}, {})
  BY <1>3, <1>4, KeptSocket DEF IInv
<1> QED BY <1>1, <1>2, <1>5, UnderstoodKept DEF IInv

LEMMA RequestTimeoutKeeps == IInv /\ RequestTimeout => IInv'
BY RejectKept DEF RequestTimeout, IInv

LEMMA NotInFlightKept ==
  ASSUME NEW q, Kept(q, {}, {})
  PROVE  Kept(NotInFlight(q), {}, {})
<1> DEFINE p == [q EXCEPT !.queue[1].timer = FALSE]
<1>1. /\ {"queue", "callers", "sockets"} \subseteq DOMAIN p
      /\ p.queue = [q.queue EXCEPT ![1].timer = FALSE]
      /\ p.callers = q.callers /\ p.sockets = q.sockets
  BY DEF Kept, Shaped
<1>2. NotInFlight(q) = q \/ (q.queue # <<>> /\ NotInFlight(q) = p)
  BY DEF NotInFlight
<1> HIDE DEF p
<1> QED BY <1>1, <1>2, KeptFirst

LEMMA StartReconnectingKept ==
  ASSUME NEW q, Kept(q, {}, {})
  PROVE  Kept(StartReconnecting(q), {}, {})
<1> DEFINE p == [q EXCEPT !.attempt = 1]
<1>1. /\ {"queue", "callers", "sockets"} \subseteq DOMAIN p
      /\ p.queue = q.queue /\ p.callers = q.callers /\ p.sockets = q.sockets
  BY DEF Kept, Shaped
<1>2. StartReconnecting(q) = q \/ StartReconnecting(q) = p
  BY DEF StartReconnecting
<1> HIDE DEF p
<1> QED BY <1>1, <1>2, KeptFields

LEMMA CloseKeeps ==
  ASSUME IInv, NEW s \in Sockets, Close(s) PROVE IInv'
<1> DEFINE request == Head(o.queue)
           closing(e) == [o EXCEPT !.connection = 0, !.sockets[s] = NoSocket,
                                   !.connecting = @ /\ ~e]
<1>1. PICK e \in {FALSE, o.sockets[s].commands # <<>>} :
        \/ /\ RawStreamStarted
           /\ o' = Resume([closing(e) EXCEPT !.queue = Tail(@)],
                          request.who, request.command, Line)
        \/ o' = StartReconnecting(NotInFlight(closing(e)))
        \/ o' = RejectAll(closing(e))
  BY DEF Close
<1> DEFINE closed == closing(e)
           rest == [closed EXCEPT !.queue = Tail(@)]
<1>2. /\ {"queue", "callers", "sockets"} \subseteq DOMAIN closed
      /\ closed.queue = o.queue /\ closed.callers = o.callers
      /\ closed.sockets = [o.sockets EXCEPT ![s] = NoSocket]
  BY ObserverShape
<1> HIDE DEF closing
<1>3. Kept(closed, {}, {})
  <2>1. {"state", "waiter"} \subseteq DOMAIN NoSocket /\ NoSocket.state = "none"
    BY DEF NoSocket
  <2> HIDE DEF closed
  <2> QED BY <1>2, <2>1, KeptSocket DEF IInv
<1>4. ASSUME RawStreamStarted
      PROVE  Kept(Resume(rest, request.who, request.command, Line), {}, {})
  <2>1. o.queue # <<>>
    BY <1>4 DEF RawStreamStarted
  <2> HIDE DEF closed
  <2>2. /\ {"queue", "callers", "sockets"} \subseteq DOMAIN rest
        /\ rest.queue = Tail(closed.queue) /\ rest.callers = closed.callers
        /\ rest.sockets = closed.sockets
    BY <1>2
  <2> HIDE DEF rest
  <2>3. closed.queue # <<>> /\ Head(closed.queue) = request
    BY <1>2, <2>1
  <2> HIDE DEF request
  <2>4. request.who \in Callers /\ Kept(rest, {}, {request.who})
    BY <1>3, <2>2, <2>3, KeptHead
  <2> QED BY <2>4, ResumeKept
<1>5. Kept(StartReconnecting(NotInFlight(closed)), {}, {})
  BY <1>3, NotInFlightKept, StartReconnectingKept
<1>6. Kept(RejectAll(closed), {}, {})
  BY <1>3, RejectAllKeeps
<1> QED BY <1>1, <1>4, <1>5, <1>6 DEF IInv

LEMMA StopKeeps == IInv /\ Stop => IInv'
<1> SUFFICES ASSUME IInv, Stop PROVE IInv'
  OBVIOUS
<1> DEFINE q == CloseConnectionAfterTransport(o)
           p == [q EXCEPT !.running = FALSE, !.attempt = 0]
<1>1. Kept(q, {}, {})
  BY CloseAfterKept DEF IInv
<1>2. o' = RejectAll(p)
  BY DEF Stop
<1> HIDE DEF q
<1>3. /\ {"queue", "callers", "sockets"} \subseteq DOMAIN p
      /\ p.queue = q.queue /\ p.callers = q.callers /\ p.sockets = q.sockets
  BY <1>1 DEF Kept, Shaped
<1> HIDE DEF p
<1>4. Kept(p, {}, {})
  BY <1>1, <1>3, KeptFields
<1> QED BY <1>2, <1>4, RejectAllKeeps DEF IInv

LEMMA PlugOrUnplugKeeps ==
  ASSUME IInv, NEW d \in Devices, NEW state \in States, PlugOrUnplug(d, state) PROVE IInv'
<1> DEFINE k == [s \in Sockets |->
             IF s \in TunnelsTo(d) THEN [o.sockets[s] EXCEPT !.state = "ended"] ELSE o.sockets[s]]
           p == [o EXCEPT !.sockets = k]
<1>1. o' = p
  BY DEF PlugOrUnplug
<1>2. /\ {"queue", "callers", "sockets"} \subseteq DOMAIN p
      /\ p.queue = o.queue /\ p.callers = o.callers /\ p.sockets = k
  <2> HIDE DEF k
  <2> QED BY ObserverShape
<1> HIDE DEF p
<1>3. ASSUME NEW s \in Sockets
      PROVE  /\ {"state", "waiter"} \subseteq DOMAIN k[s]
             /\ k[s].state = "opening" =>
                  o.sockets[s].state = "opening" /\ k[s].waiter = o.sockets[s].waiter
  <2>1. {"state", "waiter"} \subseteq DOMAIN o.sockets[s]
    BY ObserverShape
  <2>2. CASE s \in TunnelsTo(d)
    <3>1. k[s] = [o.sockets[s] EXCEPT !.state = "ended"]
      BY <2>2
    <3> QED BY <2>1, <3>1
  <2>3. CASE s \notin TunnelsTo(d)
    <3>1. k[s] = o.sockets[s]
      BY <2>3
    <3> QED BY <2>1, <3>1
  <2> QED BY <2>2, <2>3
<1>4. DOMAIN k = Sockets
  OBVIOUS
<1> HIDE DEF k
<1>5. Shaped(p)
  BY <1>2, <1>3, <1>4 DEF IInv, Kept, Shaped
<1>6. Kept(p, {}, {})
  BY <1>2, <1>3, <1>5, KeptFrame DEF IInv
<1> QED BY <1>1, <1>6 DEF IInv

LEMMA LoseKeeps ==
  ASSUME IInv, NEW s \in Sockets, Lose(s) PROVE IInv'
<1> DEFINE x == [o.sockets[s] EXCEPT !.state = "ended"]
<1>1. {"state", "waiter"} \subseteq DOMAIN x /\ x.state = "ended"
  BY ObserverShape
<1>2. /\ {"queue", "callers", "sockets"} \subseteq DOMAIN o'
      /\ (o').queue = o.queue /\ (o').callers = o.callers
      /\ (o').sockets = [o.sockets EXCEPT ![s] = x]
  BY ObserverShape DEF Lose
<1> HIDE DEF x
<1>3. Kept(o', {}, {})
  BY <1>1, <1>2, KeptSocket DEF IInv
<1> QED BY <1>3 DEF IInv

LEMMA NextKeeps == IInv /\ [Next]_vars => IInv'
<1> SUFFICES ASSUME IInv, [Next]_vars PROVE IInv'
  OBVIOUS
<1>1. CASE StartPoll
  BY <1>1, StartPollKeeps
<1>2. CASE StartHealthChecks
  BY <1>2, StartHealthChecksKeeps
<1>3. CASE AttemptReconnect
  BY <1>3, AttemptReconnectKeeps
<1>4. CASE RequestTimeout
  BY <1>4, RequestTimeoutKeeps
<1>5. CASE Stop
  BY <1>5, StopKeeps
<1>6. CASE Rest(Poll) \/ Rest(Health)
  BY <1>6 DEF Rest, IInv
<1>7. ASSUME NEW c \in Callers, CheckConnection(c) \/ Pause(c) PROVE IInv'
  BY <1>7, CheckConnectionKeeps, PauseKeeps
<1>8. ASSUME NEW s \in Sockets,
             Opened(s) \/ Refused(s) \/ Serve(s) \/ Data(s) \/ Close(s) \/ Lose(s)
      PROVE  IInv'
  BY <1>8, OpenedKeeps, RefusedKeeps, ServeKeeps, DataKeeps, CloseKeeps, LoseKeeps
<1>9. ASSUME NEW d \in Devices, Hang(d) PROVE IInv'
  BY <1>9 DEF Hang, IInv
<1>10. ASSUME NEW d \in Devices, NEW state \in States, PlugOrUnplug(d, state) PROVE IInv'
  BY <1>10, PlugOrUnplugKeeps
<1>11. CASE UNCHANGED vars
  BY <1>11 DEF vars, IInv
<1> QED BY <1>1, <1>2, <1>3, <1>4, <1>5, <1>6, <1>7, <1>8, <1>9, <1>10, <1>11 DEF Next

LEMMA IInvOneRequestEach == IInv => OneRequestEach
<1> SUFFICES ASSUME IInv, NEW c \in Callers
             PROVE  Cardinality({i \in 1..Len(o.queue) : o.queue[i].who = c})
                      = IF o.callers[c].state = "queued" THEN 1 ELSE 0
  BY DEF OneRequestEach
<1> DEFINE C == In(o, "queued", {} \cup {})
<1>1. Queued(o.queue, C)
  BY DEF IInv, Kept
<1>2. c \in C <=> o.callers[c].state = "queued"
  BY DEF In
<1> HIDE DEF C
<1>3. Cardinality({i \in 1..Len(o.queue) : o.queue[i].who = c}) = IF c \in C THEN 1 ELSE 0
  BY <1>1, QueuedCount
<1> QED BY <1>2, <1>3

\* A caller of the ADB observer that waits for an answer has exactly one request in the
\* queue, and one that does not has none: through timeouts, answers read by the wrong
\* request, connections that close with requests in flight, reconnections that fail and a
\* stop, each promise of sendADBCommand() is settled once and none is left behind.
THEOREM ObserverOneRequestEach == Spec => []OneRequestEach
<1>1. IInv => OneRequestEach
  BY IInvOneRequestEach
<1>2. Init => IInv
  BY InitIInv
<1> QED BY <1>1, <1>2, NextKeeps, PTL DEF Spec
=============================================================================
