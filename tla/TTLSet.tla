------------------------------- MODULE TTLSet -------------------------------
(***************************************************************************)
(* The TTLSet of lib/util/ttlset.ts: a doubly linked list of items, oldest *)
(* at the head, a mapping from serials to items and one timer that fires   *)
(* when the head may have outlived the time to live.                       *)
(*                                                                         *)
(* A set is one record, so that a unit that owns a set (the reaper) keeps  *)
(* it in one variable and every method is an operator from sets to sets.   *)
(* At most one item per serial is in the mapping, and remove() clears the  *)
(* links that reach an item before it is forgotten, so an item is named by *)
(* its serial; a link to a forgotten item would break LinksConsistent.     *)
(* Instants are kept as ages (now - time), which is all the code computes  *)
(* with, and an age beyond TTL + 1 is not told apart from TTL + 1.         *)
(***************************************************************************)
EXTENDS Integers, Sequences, FiniteSets

CONSTANTS
  Serials,  \* the values a set may hold: serials of devices
  TTL,      \* the time to live, in ticks
  Nil       \* the null of the links

ASSUME TTLSetAssumption == TTL \in Nat \ {0} /\ Nil \notin Serials /\ IsFiniteSet(Serials)

Off == TTL + 1                  \* no timer is armed
Oldest == TTL + 1               \* the age of everything older than TTL

\* "insert" and "drop" events the last method emitted, in order.
Event == [type : {"insert", "drop"}, serial : Serials]

TTLSets ==
  [head : Serials \cup {Nil}, tail : Serials \cup {Nil},
   mapping : SUBSET Serials,
   prev : [Serials -> Serials \cup {Nil}],
   next : [Serials -> Serials \cup {Nil}],
   age : [Serials -> 0..Oldest],
   timer : 0..Off,
   emits : Seq(Event)]

EmptyTTLSet ==
  [head |-> Nil, tail |-> Nil, mapping |-> {},
   prev |-> [v \in Serials |-> Nil], next |-> [v \in Serials |-> Nil],
   age |-> [v \in Serials |-> 0], timer |-> Off, emits |-> <<>>]

-----------------------------------------------------------------------------
(* The methods. *)

Emit(s, type, v) ==
  [s EXCEPT !.emits = Append(@, [type |-> type, serial |-> v])]

\* Mutant: no timer for a head that is too old already.
ScheduleCheckOfYoung(s) ==
  [s EXCEPT !.timer =
     IF s.head = Nil \/ s.age[s.head] >= TTL THEN Off ELSE TTL - s.age[s.head]]

\* clearTimeout, then a new timer only if there is a head.
ScheduleCheck(s) ==
  [s EXCEPT !.timer =
     IF s.head = Nil THEN Off
     ELSE IF s.age[s.head] > TTL THEN 0 ELSE TTL - s.age[s.head]]

\* Unlinks the item of v; the item itself ends with both links null.
Unlink(s, v) ==
  LET p == s.prev[v]
      n == s.next[v]
  IN [s EXCEPT
        !.next = [i \in Serials |-> IF i = v THEN Nil ELSE IF i = p THEN n ELSE @[i]],
        !.prev = [i \in Serials |-> IF i = v THEN Nil ELSE IF i = n THEN p ELSE @[i]],
        !.head = IF @ = v THEN n ELSE @,
        !.tail = IF @ = v THEN p ELSE @]

\* A new item behind the tail; only bump() links the old tail to it.
Create(s, v, silent) ==
  LET t == [s EXCEPT !.mapping = @ \cup {v},
                     !.prev = [@ EXCEPT ![v] = s.tail],
                     !.next = [@ EXCEPT ![v] = Nil]]
  IN IF silent THEN t ELSE Emit(t, "insert", v)

\* Mutant: the time of a known item is not renewed.
BumpKeepsAge(s, v, silent) ==
  LET t == IF v \in s.mapping THEN Unlink(s, v) ELSE Create(s, v, silent)
      p == t.prev[v]
      u == [t EXCEPT !.tail = v]
  IN ScheduleCheck(IF p # Nil THEN [u EXCEPT !.next = [@ EXCEPT ![p] = v]]
                              ELSE [u EXCEPT !.head = v])

\* Mutant: a known item is not unlinked first.
BumpInPlace(s, v, silent) ==
  LET t == IF v \in s.mapping THEN s ELSE Create(s, v, silent)
      p == t.prev[v]
      u == [t EXCEPT !.age = [@ EXCEPT ![v] = 0], !.tail = v]
  IN ScheduleCheck(IF p # Nil THEN [u EXCEPT !.next = [@ EXCEPT ![p] = v]]
                              ELSE [u EXCEPT !.head = v])

\* An item already known is unlinked and comes back without a predecessor,
\* so it becomes the head as well as the tail.
Bump(s, v, silent) ==
  LET t == IF v \in s.mapping THEN Unlink(s, v) ELSE Create(s, v, silent)
      p == t.prev[v]
      u == [t EXCEPT !.age = [@ EXCEPT ![v] = 0], !.tail = v]
  IN ScheduleCheck(IF p # Nil THEN [u EXCEPT !.next = [@ EXCEPT ![p] = v]]
                              ELSE [u EXCEPT !.head = v])

Drop(s, v, silent) ==
  IF v \notin s.mapping THEN s
  ELSE LET t == [Unlink(s, v) EXCEPT !.mapping = @ \ {v}, !.age = [@ EXCEPT ![v] = 0]]
       IN IF silent THEN t ELSE Emit(t, "drop", v)

HeadExpired(s) == s.head # Nil /\ s.age[s.head] > TTL

\* Mutant: check() drops without emitting.
DropExpiredSilent(s) == IF HeadExpired(s) THEN Drop(s, s.head, TRUE) ELSE s

\* check() drops heads while they are too old, which is at most one per item.
DropExpired(s) == IF HeadExpired(s) THEN Drop(s, s.head, FALSE) ELSE s

Check(s) ==
  LET dropped[n \in 0..Cardinality(s.mapping)] ==
        IF n = 0 THEN s ELSE DropExpired(dropped[n - 1])
  IN ScheduleCheck(dropped[Cardinality(s.mapping)])

\* Not a method: one tick of the clock the set reads.
Elapse(s) ==
  [s EXCEPT !.age = [v \in Serials |-> IF v \in s.mapping /\ @[v] < Oldest
                                        THEN @[v] + 1 ELSE @[v]],
            !.timer = IF @ \in {0, Off} THEN @ ELSE @ - 1]

-----------------------------------------------------------------------------
(* What holds of every set the methods build. *)

\* The serials met from the head along next.
Further(s, w) ==
  LET v == IF w = <<>> THEN s.head ELSE s.next[w[Len(w)]]
  IN IF v = Nil THEN w ELSE Append(w, v)
FromHead(s) ==
  LET walk[n \in 0..Cardinality(s.mapping) + 1] ==
        IF n = 0 THEN <<>> ELSE Further(s, walk[n - 1])
  IN walk[Cardinality(s.mapping) + 1]

\* prev and next are inverse to each other, and lead only to known items.
LinksConsistent(s) ==
  /\ \A v \in s.mapping :
       /\ s.next[v] # Nil => s.next[v] \in s.mapping /\ s.prev[s.next[v]] = v
       /\ s.prev[v] # Nil => s.prev[v] \in s.mapping /\ s.next[s.prev[v]] = v
  /\ \A v \in Serials \ s.mapping : s.next[v] = Nil /\ s.prev[v] = Nil
  /\ s.head # Nil => s.head \in s.mapping /\ s.prev[s.head] = Nil
  /\ s.tail # Nil => s.tail \in s.mapping /\ s.next[s.tail] = Nil
  /\ s.head = Nil <=> s.tail = Nil

\* The list from the head ends at the tail and gets younger on the way.
OldestFirst(s) ==
  LET w == FromHead(s)
  IN /\ Len(w) <= Cardinality(s.mapping)
     /\ s.head # Nil => w[Len(w)] = s.tail
     /\ \A i \in 1..(Len(w) - 1) : s.age[w[i]] >= s.age[w[i + 1]]

\* The timer fires no later than the moment the head is TTL old.
TimerCoversHead(s) ==
  s.head # Nil =>
    /\ s.timer # Off
    /\ s.timer <= IF s.age[s.head] > TTL THEN 0 ELSE TTL - s.age[s.head]
=============================================================================
