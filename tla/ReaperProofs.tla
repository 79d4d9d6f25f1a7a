---------------------------- MODULE ReaperProofs ----------------------------
(***************************************************************************)
(* Proofs about the reaper, for any devices, processors, sides and bounds. *)
(*                                                                         *)
(* A bump of a known item makes it the head as well as the tail, and the   *)
(* items it leaves behind keep links among themselves: the mapping is more *)
(* than the list that starts at the head.  The invariant of a set, Sound,  *)
(* therefore names that list: Chain(s, w) says that w leads from the head  *)
(* to the tail along next and does not get older, and Links and Ends speak *)
(* of every item, in the list or not.  Each method is shown to take a      *)
(* sound set to a sound set whose timer covers its head.  Methods that are *)
(* repeated (check(), the listeners of init(), the initial state) follow   *)
(* by induction on how often.                                              *)
(*                                                                         *)
(* ReaperInv adds the types of the messages on their way and AsSilent: the *)
(* age of an item is the time for which the reaper has not heard of the    *)
(* device, which is what makes a drop by check() just.                     *)
(***************************************************************************)
EXTENDS Reaper, Integers, SequenceTheorems, FiniteSetTheorems, WellFoundedInduction, TLAPS

-----------------------------------------------------------------------------
(* Numbers and sequences.                                                  *)

\* Induction, stated with a set: a set that has 0 and with each number the next one has
\* every natural number.
LEMMA NatSetInduction ==
  ASSUME NEW T, 0 \in T, \A n \in Nat : n \in T => n + 1 \in T
  PROVE  Nat \subseteq T
<1> SUFFICES ASSUME Nat \ T # {} PROVE FALSE
  OBVIOUS
<1>1. PICK x \in Nat \ T : \A y \in Nat \ T : ~ (<<y, x>> \in OpToRel(<, Nat))
  BY NatLessThanWellFounded, WFMin
<1>2. x # 0 /\ x - 1 \in Nat
  OBVIOUS
<1>3. <<x - 1, x>> \in OpToRel(<, Nat)
  BY <1>2 DEF OpToRel
<1>4. x - 1 \in T
  BY <1>1, <1>2, <1>3
<1>5. (x - 1) + 1 \in T
  BY <1>2, <1>4
<1>6. (x - 1) + 1 = x
  OBVIOUS
<1> QED BY <1>5, <1>6

\* A sequence without its i-th element.
Cut(q, i) == SubSeq(q, 1, i - 1) \o SubSeq(q, i + 1, Len(q))

\* What is behind the element moves one place to the front.
LEMMA CutOne ==
  ASSUME NEW S, NEW q \in Seq(S), NEW i \in 1..Len(q)
  PROVE  /\ Cut(q, i) \in Seq(S)
         /\ Len(Cut(q, i)) = Len(q) - 1
         /\ \A j \in 1..Len(q) - 1 : Cut(q, i)[j] = IF j < i THEN q[j] ELSE q[j + 1]
<1> DEFINE left == SubSeq(q, 1, i - 1)
           right == SubSeq(q, i + 1, Len(q))
<1>1. Len(q) \in Nat /\ i \in Int /\ i - 1 \in Int /\ i + 1 \in Int
  OBVIOUS
<1>2. \A j \in 1..i - 1 : q[j] \in S
  OBVIOUS
<1>3. /\ left \in Seq(S) /\ Len(left) = IF 1 <= i - 1 THEN i - 1 - 1 + 1 ELSE 0
      /\ \A j \in 1..i - 1 - 1 + 1 : left[j] = q[1 + j - 1]
  BY <1>1, <1>2, SubSeqProperties
<1>4. \A j \in i + 1..Len(q) : q[j] \in S
  OBVIOUS
<1>5. /\ right \in Seq(S)
      /\ Len(right) = IF i + 1 <= Len(q) THEN Len(q) - (i + 1) + 1 ELSE 0
      /\ \A j \in 1..Len(q) - (i + 1) + 1 : right[j] = q[i + 1 + j - 1]
  BY <1>1, <1>4, SubSeqProperties
<1> HIDE DEF left, right
<1>6. Len(left) = i - 1 /\ Len(right) = Len(q) - i
  BY <1>1, <1>3, <1>5
<1> DEFINE both == left \o right
<1>7. /\ both \in Seq(S) /\ Len(both) = Len(left) + Len(right)
      /\ \A j \in 1 .. Len(left) + Len(right) :
           both[j] = IF j <= Len(left) THEN left[j] ELSE right[j - Len(left)]
  BY <1>3, <1>5, ConcatProperties
<1> HIDE DEF both
<1>8. Len(left) + Len(right) = Len(q) - 1
  BY <1>1, <1>6
<1>9. ASSUME NEW j \in 1..Len(q) - 1
      PROVE  both[j] = IF j < i THEN q[j] ELSE q[j + 1]
  <2>1. both[j] = IF j <= i - 1 THEN left[j] ELSE right[j - (i - 1)]
    BY <1>6, <1>7, <1>8
  <2>2. CASE j < i
    <3>1. j \in 1..i - 1 - 1 + 1 /\ 1 + j - 1 = j /\ j <= i - 1
      BY <2>2
    <3> QED BY <2>1, <2>2, <3>1, <1>3
  <2>3. CASE ~(j < i)
    <3>1. j - (i - 1) \in 1..Len(q) - (i + 1) + 1 /\ i + 1 + (j - (i - 1)) - 1 = j + 1
          /\ ~(j <= i - 1)
      BY <2>3
    <3> QED BY <2>1, <2>3, <3>1, <1>5
  <2> QED BY <2>2, <2>3
<1>10. Cut(q, i) = both
  BY DEF Cut, left, right, both
<1> QED BY <1>7, <1>8, <1>9, <1>10

\* A function on 0..n can be defined by its value at 0 and by a step from each value in T
\* to the next one.
Steps(n, T) == [1..n -> [T -> T]]
LEMMA Recursion ==
  ASSUME NEW T, NEW start \in T, NEW n \in Nat, NEW step \in Steps(n, T)
  PROVE  \E f \in [0..n -> T] : f[0] = start /\ \A k \in 1..n : f[k] = step[k][f[k - 1]]
<1> DEFINE Fits(m, f) == /\ f \in [0..m -> T] /\ f[0] = start
                         /\ \A k \in 1..m : f[k] = step[k][f[k - 1]]
           U == {m \in Nat : m <= n => \E f : Fits(m, f)}
<1>1. 0 \in U
  <2> DEFINE f == [k \in 0..0 |-> start]
  <2>1. f \in [0..0 -> T] /\ f[0] = start /\ 1..0 = {}
    OBVIOUS
  <2> HIDE DEF f
  <2>2. Fits(0, f)
    BY <2>1
  <2> QED BY <2>2
<1>2. ASSUME NEW m \in Nat, m \in U PROVE m + 1 \in U
  <2> SUFFICES ASSUME m + 1 <= n PROVE \E f : Fits(m + 1, f)
    OBVIOUS
  <2>1. PICK f : Fits(m, f)
    BY <1>2
  <2> DEFINE last == step[m + 1][f[m]]
             g == [k \in 0..m + 1 |-> IF k <= m THEN f[k] ELSE last]
  <2>2. last \in T
    <3>1. m + 1 \in 1..n /\ f[m] \in T
      BY <2>1
    <3> QED BY <3>1 DEF Steps
  <2> HIDE DEF last
  <2>3. g \in [0..m + 1 -> T]
    BY <2>1, <2>2
  <2>4. ASSUME NEW k \in 1..m + 1 PROVE g[k] = step[k][g[k - 1]]
    <3>1. CASE k <= m
      <4>1. k \in 1..m /\ g[k] = f[k] /\ g[k - 1] = f[k - 1]
        BY <3>1
      <4> QED BY <2>1, <4>1
    <3>2. CASE ~(k <= m)
      <4>1. k = m + 1 /\ g[k] = last /\ g[k - 1] = f[m]
        BY <3>2
      <4> QED BY <4>1 DEF last
    <3> QED BY <3>1, <3>2
  <2>5. g[0] = start
    BY <2>1
  <2> QED BY <2>3, <2>4, <2>5
<1> HIDE DEF U
<1>3. Nat \subseteq U
  BY <1>1, <1>2, NatSetInduction
<1>4. \E f : Fits(n, f)
  <2> HIDE DEF Fits
  <2>1. n \in U /\ n <= n
    BY <1>3
  <2> QED BY <2>1 DEF U
<1> QED BY <1>4

\* The first elements of a sequence.
Take(w, k) == SubSeq(w, 1, k)

LEMMA TakeSome ==
  ASSUME NEW S, NEW w \in Seq(S), NEW k \in 0..Len(w)
  PROVE  /\ Take(w, k) \in Seq(S) /\ Len(Take(w, k)) = k
         /\ \A j \in 1..k : Take(w, k)[j] = w[j]
<1> DEFINE part == SubSeq(w, 1, k)
<1>1. 1 \in Int /\ k \in Int /\ \A j \in 1..k : w[j] \in S
  OBVIOUS
<1>2. /\ part \in Seq(S) /\ Len(part) = IF 1 <= k THEN k - 1 + 1 ELSE 0
      /\ \A j \in 1..k - 1 + 1 : part[j] = w[1 + j - 1]
  BY <1>1, SubSeqProperties
<1>3. Take(w, k) = part
  BY DEF Take
<1> HIDE DEF part
<1> QED BY <1>2, <1>3

LEMMA TakeAll ==
  ASSUME NEW S, NEW w \in Seq(S)
  PROVE  Take(w, Len(w)) = w /\ Take(w, 0) = <<>>
BY SubSeqFull, SubSeqEmpty DEF Take

\* One more element.
LEMMA TakeNext ==
  ASSUME NEW S, NEW w \in Seq(S), NEW k \in 1..Len(w)
  PROVE  Take(w, k) = Append(Take(w, k - 1), w[k])
<1> DEFINE whole == Take(w, k)
           part == Take(w, k - 1)
           all == Append(part, w[k])
<1>1. /\ whole \in Seq(S) /\ Len(whole) = k
      /\ \A j \in 1..k : whole[j] = w[j]
  <2>1. k \in 0..Len(w)
    OBVIOUS
  <2> QED BY <2>1, TakeSome
<1>2. /\ part \in Seq(S) /\ Len(part) = k - 1
      /\ \A j \in 1..k - 1 : part[j] = w[j]
  <2>1. k - 1 \in 0..Len(w)
    OBVIOUS
  <2> QED BY <2>1, TakeSome
<1>3. w[k] \in S
  OBVIOUS
<1> HIDE DEF whole, part
<1>4. /\ all \in Seq(S) /\ Len(all) = k
      /\ \A j \in 1..k : all[j] = w[j]
  BY <1>2, <1>3
<1> HIDE DEF all
<1>5. whole = all
  BY <1>1, <1>4, SeqEqual
<1> QED BY <1>5 DEF whole, part, all

-----------------------------------------------------------------------------
(* The links of a set.                                                     *)

\* LinksConsistent, in two parts: the links between items, and the ends of the list.
Links(s) ==
  /\ \A v \in s.mapping :
       /\ s.next[v] # Nil => s.next[v] \in s.mapping /\ s.prev[s.next[v]] = v
       /\ s.prev[v] # Nil => s.prev[v] \in s.mapping /\ s.next[s.prev[v]] = v
  /\ \A v \in Serials \ s.mapping : s.next[v] = Nil /\ s.prev[v] = Nil
Ends(s) ==
  /\ s.head # Nil => s.prev[s.head] = Nil
  /\ s.tail # Nil => s.next[s.tail] = Nil

\* The list: the items from the head to the tail.  Items that have fallen out of it keep
\* links among themselves.
Chain(s, w) ==
  /\ w \in Seq(s.mapping)
  /\ \A i, j \in 1..Len(w) : w[i] = w[j] => i = j
  /\ w = <<>> => s.head = Nil /\ s.tail = Nil
  /\ w # <<>> => s.head = w[1] /\ s.tail = w[Len(w)]
  /\ \A i \in 1..Len(w) - 1 : s.next[w[i]] = w[i + 1] /\ s.age[w[i]] >= s.age[w[i + 1]]

Sound(s) == s \in TTLSets /\ Links(s) /\ Ends(s) /\ \E w : Chain(s, w)

LEMMA UnlinkFields ==
  ASSUME NEW s \in TTLSets, NEW v \in Serials
  PROVE  LET t == Unlink(s, v)
         IN  /\ t \in TTLSets
             /\ t.mapping = s.mapping /\ t.age = s.age /\ t.timer = s.timer
             /\ t.emits = s.emits
             /\ t.head = IF s.head = v THEN s.next[v] ELSE s.head
             /\ t.tail = IF s.tail = v THEN s.prev[v] ELSE s.tail
             /\ \A i \in Serials :
                  /\ t.next[i] = IF i = v THEN Nil
                                 ELSE IF i = s.prev[v] THEN s.next[v] ELSE s.next[i]
                  /\ t.prev[i] = IF i = v THEN Nil
                                 ELSE IF i = s.next[v] THEN s.prev[v] ELSE s.prev[i]
<1> DEFINE t == Unlink(s, v)
           nexts == [i \in Serials |-> IF i = v THEN Nil
                                       ELSE IF i = s.prev[v] THEN s.next[v] ELSE s.next[i]]
           prevs == [i \in Serials |-> IF i = v THEN Nil
                                       ELSE IF i = s.next[v] THEN s.prev[v] ELSE s.prev[i]]
           first == IF s.head = v THEN s.next[v] ELSE s.head
           last == IF s.tail = v THEN s.prev[v] ELSE s.tail
<1>1. /\ nexts \in [Serials -> Serials \cup {Nil}] /\ prevs \in [Serials -> Serials \cup {Nil}]
      /\ first \in Serials \cup {Nil} /\ last \in Serials \cup {Nil}
  BY DEF TTLSets
<1>2. t = [s EXCEPT !.next = nexts, !.prev = prevs, !.head = first, !.tail = last]
  BY DEF Unlink, TTLSets
<1>3. /\ \A i \in Serials :
           nexts[i] = IF i = v THEN Nil ELSE IF i = s.prev[v] THEN s.next[v] ELSE s.next[i]
      /\ \A i \in Serials :
           prevs[i] = IF i = v THEN Nil ELSE IF i = s.next[v] THEN s.prev[v] ELSE s.prev[i]
  OBVIOUS
<1> HIDE DEF nexts, prevs, first, last, t
<1>4. t \in TTLSets
  BY <1>1, <1>2 DEF TTLSets
<1>5. /\ t.next = nexts /\ t.prev = prevs /\ t.head = first /\ t.tail = last
      /\ t.mapping = s.mapping /\ t.age = s.age /\ t.timer = s.timer /\ t.emits = s.emits
  BY <1>2 DEF TTLSets
<1> QED BY <1>3, <1>4, <1>5 DEF first, last, t

\* Where the links were consistent they still are, and nothing leads to the item.
LEMMA UnlinkLinks ==
  ASSUME NEW s \in TTLSets, Links(s), NEW v \in s.mapping
  PROVE  LET t == Unlink(s, v)
         IN  Links(t) /\ t.next[v] = Nil /\ t.prev[v] = Nil
<1> DEFINE t == Unlink(s, v)
<1>0. s.mapping \subseteq Serials /\ v \in Serials /\ Nil \notin Serials
  BY TTLSetAssumption DEF TTLSets
<1>1. /\ t.mapping = s.mapping
      /\ \A i \in Serials :
           /\ t.next[i] = IF i = v THEN Nil
                          ELSE IF i = s.prev[v] THEN s.next[v] ELSE s.next[i]
           /\ t.prev[i] = IF i = v THEN Nil
                          ELSE IF i = s.next[v] THEN s.prev[v] ELSE s.prev[i]
  BY <1>0, UnlinkFields
<1> HIDE DEF t
<1>2. ASSUME NEW x \in t.mapping, t.next[x] # Nil
      PROVE  t.next[x] \in t.mapping /\ t.prev[t.next[x]] = x
  BY <1>0, <1>1, <1>2 DEF Links
<1>3. ASSUME NEW x \in t.mapping, t.prev[x] # Nil
      PROVE  t.prev[x] \in t.mapping /\ t.next[t.prev[x]] = x
  BY <1>0, <1>1, <1>3 DEF Links
<1>4. \A x \in Serials \ t.mapping : t.next[x] = Nil /\ t.prev[x] = Nil
  BY <1>0, <1>1 DEF Links
<1> QED BY <1>0, <1>1, <1>2, <1>3, <1>4 DEF Links, t

\* The list loses the item, if it had it, and keeps its order; a new head is no older than
\* the one before it.
LEMMA UnlinkChain ==
  ASSUME NEW s \in TTLSets, Links(s), Ends(s), NEW w, Chain(s, w), NEW v \in s.mapping
  PROVE  LET t == Unlink(s, v)
         IN  /\ Ends(t)
             /\ \E u : Chain(t, u) /\ u \in Seq(s.mapping \ {v})
             /\ t.head # Nil => s.head # Nil /\ s.age[s.head] >= s.age[t.head]
<1> DEFINE t == Unlink(s, v)
           n == Len(w)
<1>0. /\ s.mapping \subseteq Serials /\ v \in Serials /\ Nil \notin Serials
      /\ \A x \in Serials : s.age[x] \in Nat
  <2>1. Oldest \in Nat
    BY TTLSetAssumption DEF Oldest
  <2> QED BY <2>1, TTLSetAssumption DEF TTLSets
<1>1. /\ t.mapping = s.mapping /\ t.age = s.age
      /\ t.head = IF s.head = v THEN s.next[v] ELSE s.head
      /\ t.tail = IF s.tail = v THEN s.prev[v] ELSE s.tail
      /\ \A i \in Serials :
           /\ t.next[i] = IF i = v THEN Nil
                          ELSE IF i = s.prev[v] THEN s.next[v] ELSE s.next[i]
           /\ t.prev[i] = IF i = v THEN Nil
                          ELSE IF i = s.next[v] THEN s.prev[v] ELSE s.prev[i]
  BY <1>0, UnlinkFields
<1>2. /\ n \in Nat /\ w \in Seq(s.mapping) /\ DOMAIN w = 1..n
      /\ \A i \in 1..n : w[i] \in s.mapping
      /\ \A i, j \in 1..n : w[i] = w[j] => i = j
      /\ w = <<>> <=> n = 0
  BY DEF Chain
<1>3. /\ n = 0 => s.head = Nil /\ s.tail = Nil
      /\ n # 0 => s.head = w[1] /\ s.tail = w[n]
      /\ \A i \in 1..n - 1 : s.next[w[i]] = w[i + 1] /\ s.age[w[i]] >= s.age[w[i + 1]]
  BY <1>2 DEF Chain
<1>4. n # 0 => /\ s.prev[w[1]] = Nil /\ s.next[w[n]] = Nil
               /\ s.head \in Serials /\ s.tail \in Serials
  BY <1>0, <1>2, <1>3 DEF Ends
<1>5. \A i \in 1..n - 1 : s.prev[w[i + 1]] = w[i]
  <2> SUFFICES ASSUME NEW i \in 1..n - 1 PROVE s.prev[w[i + 1]] = w[i]
    OBVIOUS
  <2>1. i \in 1..n /\ i + 1 \in 1..n
    BY <1>2
  <2>2. w[i] \in s.mapping /\ w[i + 1] \in s.mapping
    BY <1>2, <2>1
  <2>3. s.next[w[i]] = w[i + 1]
    BY <1>3
  <2> QED BY <1>0, <2>2, <2>3 DEF Links
<1> HIDE DEF t, n
<1>6. CASE \A i \in 1..n : w[i] # v
  <2>1. t.head = s.head /\ t.tail = s.tail
    BY <1>0, <1>1, <1>2, <1>3, <1>6
  <2>2. \A i \in 1..n : w[i] # s.prev[v] \/ s.prev[v] = Nil
    <3> SUFFICES ASSUME NEW i \in 1..n, w[i] = s.prev[v], s.prev[v] # Nil PROVE FALSE
      OBVIOUS
    <3>1. s.next[w[i]] = v
      BY <1>0 DEF Links
    <3>2. CASE i = n
      BY <1>0, <1>4, <3>1, <3>2
    <3>3. CASE i # n
      <4>1. i \in 1..n - 1 /\ i + 1 \in 1..n
        BY <1>2, <3>3
      <4> QED BY <1>3, <1>6, <3>1, <4>1
    <3> QED BY <3>2, <3>3
  <2>3. \A i \in 1..n : t.next[w[i]] = s.next[w[i]]
    BY <1>0, <1>1, <1>2, <1>6, <2>2
  <2>4. Ends(t)
    <3>1. CASE n = 0
      BY <1>3, <2>1, <3>1 DEF Ends
    <3>2. CASE n # 0
      <4>1. 1 \in 1..n /\ n \in 1..n /\ w[1] # v /\ w[n] # v /\ w[1] # s.next[v]
        <5>1. 1 \in 1..n /\ n \in 1..n /\ w[1] # v /\ w[n] # v
          BY <1>2, <1>6, <3>2
        <5>2. w[1] # s.next[v]
          BY <1>0, <1>2, <1>4, <3>2, <5>1 DEF Links
        <5> QED BY <5>1, <5>2
      <4> QED BY <1>0, <1>1, <1>2, <1>3, <1>4, <2>1, <2>3, <3>2, <4>1 DEF Ends
    <3> QED BY <3>1, <3>2
  <2>5. Chain(t, w)
    <3>1. \A i \in 1..n - 1 : i \in 1..n
      BY <1>2
    <3>2. /\ w \in Seq(t.mapping)
          /\ \A i \in 1..n - 1 : t.next[w[i]] = w[i + 1] /\ t.age[w[i]] >= t.age[w[i + 1]]
      BY <1>1, <1>2, <1>3, <2>3, <3>1
    <3>3. Len(w) = n
      BY DEF n
    <3> QED BY <1>2, <1>3, <2>1, <3>2, <3>3 DEF Chain
  <2>6. w \in Seq(s.mapping \ {v})
    <3>1. \A i \in 1..n : w[i] \in s.mapping \ {v}
      BY <1>2, <1>6
    <3> QED BY <1>2, <3>1 DEF n
  <2>7. s.head # Nil => s.age[s.head] >= s.age[s.head]
    BY <1>0, <1>2, <1>3, <1>4
  <2> QED BY <2>1, <2>4, <2>5, <2>6, <2>7 DEF t
<1>7. ASSUME NEW k \in 1..n, w[k] = v
      PROVE  /\ Ends(t)
             /\ \E u : Chain(t, u) /\ u \in Seq(s.mapping \ {v})
             /\ t.head # Nil => s.head # Nil /\ s.age[s.head] >= s.age[t.head]
  <2> DEFINE u == Cut(w, k)
  <2>1. /\ u \in Seq(s.mapping) /\ Len(u) = n - 1
        /\ \A j \in 1..n - 1 : u[j] = IF j < k THEN w[j] ELSE w[j + 1]
    <3>1. k \in 1..Len(w) /\ w \in Seq(s.mapping)
      BY <1>2 DEF n
    <3>2. /\ Cut(w, k) \in Seq(s.mapping) /\ Len(Cut(w, k)) = Len(w) - 1
          /\ \A j \in 1..Len(w) - 1 : Cut(w, k)[j] = IF j < k THEN w[j] ELSE w[j + 1]
      BY <3>1, CutOne
    <3> QED BY <3>2 DEF n
  <2> HIDE DEF u
  <2>2. /\ \A j \in 1..n - 1 : j < k => u[j] = w[j] /\ j \in 1..n /\ w[j] # v
        /\ \A j \in 1..n - 1 : ~(j < k) => u[j] = w[j + 1] /\ j + 1 \in 1..n /\ w[j + 1] # v
    <3>1. \A j \in 1..n - 1 : j \in 1..n /\ j + 1 \in 1..n /\ (j < k => j # k) /\ (~(j < k) => j + 1 # k)
      BY <1>2
    <3> QED BY <1>2, <1>7, <2>1, <3>1
  <2>3. u \in Seq(s.mapping \ {v})
    <3>1. \A j \in 1..n - 1 : u[j] \in s.mapping \ {v}
      BY <1>2, <2>2
    <3> QED BY <2>1, <3>1
  <2>4. \A i, j \in 1..n - 1 : u[i] = u[j] => i = j
    <3> SUFFICES ASSUME NEW i \in 1..n - 1, NEW j \in 1..n - 1, u[i] = u[j] PROVE i = j
      OBVIOUS
    <3> DEFINE At(x) == IF x < k THEN x ELSE x + 1
    <3>1. u[i] = w[At(i)] /\ u[j] = w[At(j)] /\ At(i) \in 1..n /\ At(j) \in 1..n
      BY <2>2
    <3>2. At(i) = At(j)
      BY <1>2, <3>1
    <3> QED BY <1>2, <3>2
  <2>5. s.prev[v] = IF k = 1 THEN Nil ELSE w[k - 1]
    <3>1. CASE k = 1
      BY <1>2, <1>4, <1>7, <3>1
    <3>2. CASE k # 1
      <4>1. k - 1 \in 1..n - 1 /\ (k - 1) + 1 = k
        BY <1>2, <3>2
      <4> QED BY <1>5, <1>7, <3>2, <4>1
    <3> QED BY <3>1, <3>2
  <2>6. s.next[v] = IF k = n THEN Nil ELSE w[k + 1]
    <3>1. CASE k = n
      BY <1>2, <1>4, <1>7, <3>1
    <3>2. CASE k # n
      <4>1. k \in 1..n - 1
        BY <1>2, <3>2
      <4> QED BY <1>3, <1>7, <3>2, <4>1
    <3> QED BY <3>1, <3>2
  <2>7. /\ s.head = v <=> k = 1
        /\ s.tail = v <=> k = n
    <3>1. 1 \in 1..n /\ n \in 1..n /\ n # 0
      BY <1>2
    <3> QED BY <1>2, <1>3, <1>7, <3>1
  <2>8. /\ n = 1 => t.head = Nil /\ t.tail = Nil
        /\ n # 1 => t.head = u[1] /\ t.tail = u[n - 1]
    <3>1. CASE n = 1
      <4>1. k = 1 /\ k = n
        BY <3>1
      <4> QED BY <1>1, <2>5, <2>6, <2>7, <4>1
    <3>2. CASE n # 1
      <4>1. 1 \in 1..n - 1 /\ n - 1 \in 1..n - 1 /\ (n - 1) + 1 = n /\ n # 0
        BY <1>2, <3>2
      <4>2. t.head = u[1]
        <5>1. CASE k = 1
          <6>1. u[1] = w[1 + 1] /\ k # n /\ k + 1 = 1 + 1
            BY <1>2, <2>2, <3>2, <4>1, <5>1
          <6> QED BY <1>1, <2>6, <2>7, <5>1, <6>1
        <5>2. CASE k # 1
          <6>1. u[1] = w[1]
            BY <2>2, <4>1, <5>2
          <6> QED BY <1>1, <1>3, <2>7, <4>1, <5>2, <6>1
        <5> QED BY <5>1, <5>2
      <4>3. t.tail = u[n - 1]
        <5>1. CASE k = n
          <6>1. u[n - 1] = w[n - 1] /\ k # 1 /\ k - 1 = n - 1
            BY <1>2, <2>2, <3>2, <4>1, <5>1
          <6> QED BY <1>1, <2>5, <2>7, <5>1, <6>1
        <5>2. CASE k # n
          <6>1. u[n - 1] = w[(n - 1) + 1]
            BY <2>2, <4>1, <5>2
          <6> QED BY <1>1, <1>3, <2>7, <4>1, <5>2, <6>1
        <5> QED BY <5>1, <5>2
      <4> QED BY <3>2, <4>2, <4>3
    <3> QED BY <3>1, <3>2
  <2>9. ASSUME NEW i \in 1..(n - 1) - 1
        PROVE  t.next[u[i]] = u[i + 1] /\ s.age[u[i]] >= s.age[u[i + 1]]
    <3>1. i \in 1..n - 1 /\ i + 1 \in 1..n - 1 /\ i \in 1..n /\ i + 1 \in 1..n /\ (i + 1) + 1 \in 1..n
      BY <1>2
    <3>2. CASE i + 1 < k
      <4>1. u[i] = w[i] /\ u[i + 1] = w[i + 1] /\ w[i] # v /\ w[i] # s.prev[v]
        <5>1. u[i] = w[i] /\ u[i + 1] = w[i + 1] /\ w[i] # v
          BY <2>2, <3>1, <3>2
        <5>2. k # 1 /\ k - 1 \in 1..n /\ i # k - 1
          BY <1>2, <3>1, <3>2
        <5> QED BY <1>2, <2>5, <3>1, <5>1, <5>2
      <4> QED BY <1>0, <1>1, <1>2, <1>3, <3>1, <4>1
    <3>3. CASE i + 1 = k
      <4>1. u[i] = w[i] /\ u[i + 1] = w[(i + 1) + 1] /\ w[i] # v
        BY <2>2, <3>1, <3>3
      <4>2. k # 1 /\ k - 1 = i /\ k # n /\ k + 1 = (i + 1) + 1
        BY <1>2, <3>1, <3>3
      <4>3. t.next[w[i]] = w[(i + 1) + 1]
        BY <1>0, <1>1, <1>2, <2>5, <2>6, <3>1, <4>1, <4>2
      <4>4. s.age[w[i]] >= s.age[w[i + 1]] /\ s.age[w[i + 1]] >= s.age[w[(i + 1) + 1]]
        BY <1>3, <3>1
      <4>5. s.age[w[i]] \in Nat /\ s.age[w[i + 1]] \in Nat /\ s.age[w[(i + 1) + 1]] \in Nat
        BY <1>0, <1>2, <3>1
      <4>6. s.age[w[i]] >= s.age[w[(i + 1) + 1]]
        BY <4>4, <4>5
      <4> QED BY <4>1, <4>3, <4>6
    <3>4. CASE i + 1 > k
      <4>1. u[i] = w[i + 1] /\ u[i + 1] = w[(i + 1) + 1] /\ w[i + 1] # v /\ w[i + 1] # s.prev[v]
        <5>1. u[i] = w[i + 1] /\ u[i + 1] = w[(i + 1) + 1] /\ w[i + 1] # v
          BY <2>2, <3>1, <3>4
        <5>2. k # 1 => k - 1 \in 1..n /\ i + 1 # k - 1
          BY <1>2, <3>1, <3>4
        <5>3. w[i + 1] # Nil
          BY <1>0, <1>2, <3>1
        <5> QED BY <1>2, <2>5, <3>1, <5>1, <5>2, <5>3
      <4> QED BY <1>0, <1>1, <1>2, <1>3, <3>1, <4>1
    <3>5. i + 1 < k \/ i + 1 = k \/ i + 1 > k
      BY <1>2
    <3> QED BY <3>2, <3>3, <3>4, <3>5
  <2>10. Chain(t, u)
    <3>1. u = <<>> <=> n = 1
      BY <1>2, <2>1
    <3> QED BY <1>1, <2>1, <2>4, <2>8, <2>9, <3>1 DEF Chain
  <2>11. Ends(t)
    <3>1. CASE n = 1
      BY <2>8, <3>1 DEF Ends
    <3>2. CASE n # 1
      <4>1. 1 \in 1..n - 1 /\ n - 1 \in 1..n - 1 /\ (n - 1) + 1 = n
        BY <1>2, <3>2
      <4>2. t.prev[u[1]] = Nil
        <5>1. CASE k = 1
          <6>1. u[1] = w[1 + 1] /\ s.next[v] = w[1 + 1] /\ s.prev[v] = Nil
            BY <1>2, <2>2, <2>5, <2>6, <3>2, <4>1, <5>1
          <6>2. u[1] \in Serials
            BY <1>0, <1>2, <4>1, <6>1
          <6> QED BY <1>1, <6>1, <6>2
        <5>2. CASE k # 1
          <6>1. u[1] = w[1] /\ w[1] # v /\ s.prev[w[1]] = Nil /\ w[1] \in Serials
            BY <1>0, <1>2, <1>4, <2>2, <4>1, <5>2
          <6>2. w[1] # s.next[v]
            BY <1>0, <6>1 DEF Links
          <6> QED BY <1>1, <6>1, <6>2
        <5> QED BY <5>1, <5>2
      <4>3. t.next[u[n - 1]] = Nil
        <5>1. CASE k = n
          <6>1. u[n - 1] = w[n - 1] /\ s.prev[v] = w[n - 1] /\ s.next[v] = Nil
            BY <1>2, <2>2, <2>5, <2>6, <3>2, <4>1, <5>1
          <6>2. u[n - 1] \in Serials
            BY <1>0, <2>1, <4>1
          <6> QED BY <1>1, <6>1, <6>2
        <5>2. CASE k # n
          <6>1. u[n - 1] = w[n] /\ w[n] # v /\ s.next[w[n]] = Nil /\ w[n] \in Serials
            BY <1>0, <1>2, <1>4, <2>2, <4>1, <5>2
          <6>2. w[n] # s.prev[v]
            BY <1>0, <6>1 DEF Links
          <6> QED BY <1>1, <6>1, <6>2
        <5> QED BY <5>1, <5>2
      <4> QED BY <2>8, <3>2, <4>2, <4>3 DEF Ends
    <3> QED BY <3>1, <3>2
  <2>12. s.head # Nil /\ (t.head # Nil => s.age[s.head] >= s.age[t.head])
    <3>1. s.head = w[1] /\ s.head \in Serials
      BY <1>2, <1>3, <1>4
    <3>2. CASE k = 1 /\ n # 1
      <4>1. t.head = w[1 + 1] /\ 1 \in 1..n - 1
        BY <1>1, <1>2, <2>6, <2>7, <3>2
      <4> QED BY <1>0, <1>3, <3>1, <4>1
    <3>3. CASE n = 1
      BY <1>0, <2>8, <3>1, <3>3
    <3>4. CASE k # 1
      BY <1>0, <1>1, <2>7, <3>1, <3>4
    <3> QED BY <1>0, <3>2, <3>3, <3>4
  <2> QED BY <2>3, <2>10, <2>11, <2>12
<1> QED BY <1>6, <1>7 DEF t

-----------------------------------------------------------------------------
(* The methods of a set.                                                   *)

LEMMA Numbers ==
  /\ TTL \in Nat /\ TTL > 0 /\ Oldest = TTL + 1 /\ Off = TTL + 1 /\ Oldest \in Nat
  /\ Nil \notin Serials
BY TTLSetAssumption DEF Oldest, Off

\* The timer and the events that were emitted are nothing to the list.
SameList(s, t) ==
  /\ t.head = s.head /\ t.tail = s.tail /\ t.mapping = s.mapping
  /\ t.prev = s.prev /\ t.next = s.next /\ t.age = s.age

LEMMA SameListSound ==
  ASSUME NEW s, NEW t, Sound(s), t \in TTLSets, SameList(s, t)
  PROVE  Sound(t)
<1>1. PICK w : Chain(s, w)
  BY DEF Sound
<1>2. Chain(t, w)
  BY <1>1 DEF Chain, SameList
<1>3. Links(t) /\ Ends(t)
  BY DEF Links, Ends, SameList, Sound
<1> QED BY <1>2, <1>3 DEF Sound

LEMMA EmitFields ==
  ASSUME NEW s \in TTLSets, NEW type \in {"insert", "drop"}, NEW v \in Serials
  PROVE  LET t == Emit(s, type, v)
         IN  /\ t \in TTLSets /\ SameList(s, t) /\ t.timer = s.timer
             /\ t.emits = Append(s.emits, [type |-> type, serial |-> v])
<1> DEFINE event == [type |-> type, serial |-> v]
           events == Append(s.emits, event)
           t == Emit(s, type, v)
<1>1. events \in Seq(Event)
  BY DEF TTLSets, Event
<1>2. t = [s EXCEPT !.emits = events]
  BY DEF Emit
<1> HIDE DEF events, t
<1>3. t \in TTLSets
  BY <1>1, <1>2 DEF TTLSets
<1>4. SameList(s, t) /\ t.timer = s.timer /\ t.emits = events
  BY <1>2 DEF TTLSets, SameList
<1> QED BY <1>3, <1>4 DEF t, events

LEMMA ScheduleFields ==
  ASSUME NEW s \in TTLSets
  PROVE  LET t == ScheduleCheck(s)
         IN  /\ t \in TTLSets /\ SameList(s, t) /\ t.emits = s.emits
             /\ TimerCoversHead(t)
<1> DEFINE time == IF s.head = Nil THEN Off
                   ELSE IF s.age[s.head] > TTL THEN 0 ELSE TTL - s.age[s.head]
           t == ScheduleCheck(s)
<1>1. s.head # Nil => s.age[s.head] \in 0..Oldest
  BY DEF TTLSets
<1>2. time \in 0..Off /\ (s.head # Nil => time # Off)
  BY <1>1, Numbers
<1>3. t = [s EXCEPT !.timer = time]
  BY DEF ScheduleCheck
<1>4. s.head # Nil => time = IF s.age[s.head] > TTL THEN 0 ELSE TTL - s.age[s.head]
  OBVIOUS
<1> HIDE DEF time, t
<1>5. t \in TTLSets
  BY <1>2, <1>3 DEF TTLSets
<1>6. SameList(s, t) /\ t.emits = s.emits /\ t.timer = time
  BY <1>3 DEF TTLSets, SameList
<1>7. time \in Nat
  BY <1>2, Numbers
<1>8. TimerCoversHead(t)
  BY <1>2, <1>4, <1>6, <1>7 DEF TimerCoversHead, SameList
<1> QED BY <1>5, <1>6, <1>8 DEF t

\* An item is forgotten: nothing leads to it, and no timer can be late for the new head.
LEMMA DropSound ==
  ASSUME NEW s, Sound(s), NEW v \in Serials, NEW silent \in BOOLEAN
  PROVE  LET t == Drop(s, v, silent)
         IN  /\ Sound(t)
             /\ t.mapping = s.mapping \ {v}
             /\ \A x \in t.mapping : t.age[x] = s.age[x]
             /\ TimerCoversHead(s) => TimerCoversHead(t)
             /\ t.emits = IF silent \/ v \notin s.mapping THEN s.emits
                          ELSE Append(s.emits, [type |-> "drop", serial |-> v])
<1>1. CASE v \notin s.mapping
  <2>1. Drop(s, v, silent) = s
    BY <1>1 DEF Drop
  <2>2. s.mapping \ {v} = s.mapping
    BY <1>1
  <2> QED BY <1>1, <2>1, <2>2
<1>2. CASE v \in s.mapping
  <2> DEFINE t == Unlink(s, v)
             ages == [t.age EXCEPT ![v] = 0]
             known == t.mapping \ {v}
             r == [t EXCEPT !.mapping = known, !.age = ages]
             z == Drop(s, v, silent)
  <2>1. PICK w : Chain(s, w)
    BY DEF Sound
  <2>2. s \in TTLSets /\ Links(s) /\ Ends(s) /\ s.mapping \subseteq Serials
    BY DEF Sound, TTLSets
  <2>3. /\ t \in TTLSets /\ t.mapping = s.mapping /\ t.age = s.age /\ t.timer = s.timer
        /\ t.emits = s.emits
    BY <2>2, UnlinkFields
  <2>4. Links(t) /\ t.next[v] = Nil /\ t.prev[v] = Nil
    BY <1>2, <2>2, UnlinkLinks
  <2>5. /\ Ends(t)
        /\ \E u : Chain(t, u) /\ u \in Seq(s.mapping \ {v})
        /\ t.head # Nil => s.head # Nil /\ s.age[s.head] >= s.age[t.head]
    BY <1>2, <2>1, <2>2, UnlinkChain
  <2>6. z = IF silent THEN r ELSE Emit(r, "drop", v)
    BY <1>2 DEF Drop
  <2> HIDE DEF t, z
  <2>7. /\ ages \in [Serials -> 0..Oldest] /\ known \subseteq Serials
        /\ \A x \in Serials : x # v => ages[x] = s.age[x]
    BY <2>2, <2>3, Numbers DEF TTLSets
  <2> HIDE DEF ages
  <2>8. /\ r \in TTLSets /\ r.mapping = known /\ r.age = ages /\ r.timer = t.timer
        /\ r.emits = t.emits /\ r.next = t.next /\ r.prev = t.prev /\ r.head = t.head
        /\ r.tail = t.tail
    <3> HIDE DEF known
    <3>1. r \in TTLSets
      BY <2>3, <2>7 DEF TTLSets
    <3> QED BY <2>3, <3>1 DEF TTLSets
  <2> HIDE DEF r
  <2>9. Links(r)
    <3>1. ASSUME NEW x \in known
          PROVE  /\ t.next[x] # Nil => t.next[x] \in known /\ t.prev[t.next[x]] = x
                 /\ t.prev[x] # Nil => t.prev[x] \in known /\ t.next[t.prev[x]] = x
      <4>1. x # Nil /\ x \in t.mapping
        BY <2>7, Numbers
      <4> QED BY <2>4, <4>1 DEF Links
    <3>2. \A x \in Serials \ known : t.next[x] = Nil /\ t.prev[x] = Nil
      BY <2>4 DEF Links
    <3> QED BY <2>8, <3>1, <3>2 DEF Links
  <2>10. Ends(r)
    BY <2>5, <2>8 DEF Ends
  <2>11. PICK u : Chain(t, u) /\ u \in Seq(s.mapping \ {v})
    BY <2>5
  <2>12. Chain(r, u)
    <3>1. \A i \in 1..Len(u) : u[i] \in known
      BY <2>3, <2>11
    <3>2. \A i \in 1..Len(u) - 1 : i \in 1..Len(u) /\ i + 1 \in 1..Len(u)
      BY <2>11
    <3>3. \A i \in 1..Len(u) : ages[u[i]] = t.age[u[i]]
      BY <2>3, <2>7, <3>1
    <3>4. \A i \in 1..Len(u) - 1 : r.age[u[i]] >= r.age[u[i + 1]]
      BY <2>8, <2>11, <3>2, <3>3 DEF Chain
    <3>5. u \in Seq(r.mapping)
      BY <2>3, <2>8, <2>11
    <3> QED BY <2>8, <2>11, <3>4, <3>5 DEF Chain
  <2>13. Sound(r)
    BY <2>8, <2>9, <2>10, <2>12 DEF Sound
  <2>14. TimerCoversHead(s) => TimerCoversHead(r)
    <3> SUFFICES ASSUME TimerCoversHead(s), r.head # Nil
                 PROVE  /\ r.timer # Off
                        /\ r.timer <= IF r.age[r.head] > TTL THEN 0 ELSE TTL - r.age[r.head]
      BY DEF TimerCoversHead
    <3>1. s.head # Nil /\ s.age[s.head] >= s.age[r.head] /\ r.timer = s.timer
      BY <2>3, <2>5, <2>8
    <3>2. r.age[r.head] = s.age[r.head]
      <4>1. r.head \in known
        <5>1. u # <<>>
          BY <2>8, <2>11 DEF Chain
        <5>2. u[1] \in known /\ t.head = u[1]
          BY <2>3, <2>11, <5>1 DEF Chain
        <5> QED BY <2>8, <5>2
      <4> QED BY <2>7, <2>8, <4>1
    <3>3. /\ s.timer # Off
          /\ s.timer <= IF s.age[s.head] > TTL THEN 0 ELSE TTL - s.age[s.head]
      BY <3>1 DEF TimerCoversHead
    <3>4. s.age[s.head] \in Nat /\ s.age[r.head] \in Nat /\ s.timer \in Nat
      <4>1. s.head \in Serials /\ r.head \in Serials
        BY <2>2, <2>8, <3>1 DEF TTLSets
      <4>2. \A x \in Serials : s.age[x] \in Nat
        BY <2>2, Numbers DEF TTLSets
      <4>3. s.timer \in Nat
        BY <2>2, Numbers DEF TTLSets
      <4> QED BY <4>1, <4>2, <4>3
    <3>5. s.timer <= IF s.age[r.head] > TTL THEN 0 ELSE TTL - s.age[r.head]
      BY <3>1, <3>3, <3>4, Numbers
    <3> QED BY <3>1, <3>2, <3>3, <3>5
  <2>15. \A x \in r.mapping : r.age[x] = s.age[x]
    BY <2>2, <2>3, <2>7, <2>8
  <2>16. r.mapping = s.mapping \ {v} /\ r.emits = s.emits
    BY <2>3, <2>8
  <2>17. CASE silent
    BY <2>6, <2>13, <2>14, <2>15, <2>16, <2>17 DEF z
  <2>18. CASE ~silent
    <3>1. z = Emit(r, "drop", v)
      BY <2>6, <2>18
    <3>2. /\ z \in TTLSets /\ SameList(r, z) /\ z.timer = r.timer
          /\ z.emits = Append(r.emits, [type |-> "drop", serial |-> v])
      BY <2>8, <3>1, EmitFields
    <3>3. Sound(z)
      BY <2>13, <3>2, SameListSound
    <3>4. TimerCoversHead(r) => TimerCoversHead(z)
      BY <3>2 DEF TimerCoversHead, SameList
    <3>5. z.mapping = s.mapping \ {v} /\ \A x \in z.mapping : z.age[x] = s.age[x]
      BY <2>15, <2>16, <3>2 DEF SameList
    <3> QED BY <1>2, <2>14, <2>16, <2>18, <3>2, <3>3, <3>4, <3>5 DEF z
  <2> QED BY <2>17, <2>18
<1> QED BY <1>1, <1>2

\* A list of one item.
LEMMA OneItem ==
  ASSUME NEW S, NEW v \in S
  PROVE  <<v>> \in Seq(S) /\ Len(<<v>>) = 1 /\ <<v>>[1] = v /\ <<v>> # <<>>
OBVIOUS

LEMMA OneChain ==
  ASSUME NEW r, NEW v \in r.mapping, r.head = v, r.tail = v
  PROVE  Chain(r, <<v>>)
<1> DEFINE w == <<v>>
<1>1. w \in Seq(r.mapping) /\ Len(w) = 1 /\ w[1] = v /\ w # <<>>
  BY OneItem
<1> HIDE DEF w
<1>2. \A i \in 1..1 : i = 1
  OBVIOUS
<1>3. 1..1 - 1 = {}
  OBVIOUS
<1>4. Chain(r, w)
  BY <1>1, <1>2, <1>3 DEF Chain
<1> QED BY <1>4 DEF w

\* The links to a new item, behind the tail.
LEMMA CreateSound ==
  ASSUME NEW s, Sound(s), NEW v \in Serials \ s.mapping, NEW r \in TTLSets,
         r.mapping = s.mapping \cup {v}, r.tail = v,
         r.head = IF s.tail = Nil THEN v ELSE s.head,
         \A x \in Serials : r.prev[x] = IF x = v THEN s.tail ELSE s.prev[x],
         \A x \in Serials : r.next[x] = IF x = v THEN Nil
                                        ELSE IF x = s.tail THEN v ELSE s.next[x],
         \A x \in Serials : r.age[x] = IF x = v THEN 0 ELSE s.age[x]
  PROVE  Sound(r)
<1>1. PICK w : Chain(s, w)
  BY DEF Sound
<1> DEFINE n == Len(w)
<1>2. /\ n \in Nat /\ w \in Seq(s.mapping) /\ \A i \in 1..n : w[i] \in s.mapping
      /\ w = <<>> <=> n = 0
      /\ \A i, j \in 1..n : w[i] = w[j] => i = j
  BY <1>1 DEF Chain
<1>3. /\ n = 0 => s.head = Nil /\ s.tail = Nil
      /\ n # 0 => s.head = w[1] /\ s.tail = w[n]
      /\ \A i \in 1..n - 1 : s.next[w[i]] = w[i + 1] /\ s.age[w[i]] >= s.age[w[i + 1]]
  BY <1>1, <1>2 DEF Chain
<1> HIDE DEF n
<1>4. /\ s.mapping \subseteq Serials /\ v # Nil /\ v \in Serials /\ Nil \notin Serials
      /\ \A x \in Serials : s.age[x] \in Nat
  BY Numbers DEF Sound, TTLSets
<1>5. n # 0 => /\ s.head \in s.mapping /\ s.tail \in s.mapping
               /\ s.prev[s.head] = Nil /\ s.next[s.tail] = Nil
  <2>1. n # 0 => s.head \in s.mapping /\ s.tail \in s.mapping
    BY <1>2, <1>3
  <2> QED BY <1>4, <2>1 DEF Sound, Ends
<1>6. n = 0 <=> s.tail = Nil
  BY <1>3, <1>4, <1>5
<1>7. \A x \in s.mapping : s.next[x] # v /\ s.prev[x] # v
  BY <1>4 DEF Sound, Links
<1>8. Links(r)
  <2>1. ASSUME NEW x \in r.mapping, r.next[x] # Nil
        PROVE  r.next[x] \in r.mapping /\ r.prev[r.next[x]] = x
    <3>1. CASE x = s.tail
      BY <1>4, <2>1, <3>1
    <3>2. CASE x # s.tail
      <4>1. x # v /\ x \in s.mapping /\ r.next[x] = s.next[x]
        BY <1>4, <2>1, <3>2
      <4>2. s.next[x] \in s.mapping /\ s.prev[s.next[x]] = x
        BY <2>1, <4>1 DEF Sound, Links
      <4> QED BY <1>4, <4>1, <4>2
    <3> QED BY <3>1, <3>2
  <2>2. ASSUME NEW x \in r.mapping, r.prev[x] # Nil
        PROVE  r.prev[x] \in r.mapping /\ r.next[r.prev[x]] = x
    <3>1. CASE x = v
      <4>1. r.prev[x] = s.tail /\ s.tail # Nil /\ s.tail \in s.mapping
        BY <1>4, <1>5, <1>6, <2>2, <3>1
      <4> QED BY <1>4, <3>1, <4>1
    <3>2. CASE x # v
      <4>1. x \in s.mapping /\ r.prev[x] = s.prev[x]
        BY <1>4, <2>2, <3>2
      <4>2. s.prev[x] \in s.mapping /\ s.next[s.prev[x]] = x
        BY <2>2, <4>1 DEF Sound, Links
      <4>3. s.prev[x] # s.tail
        <5> SUFFICES ASSUME s.prev[x] = s.tail PROVE FALSE
          OBVIOUS
        <5>1. s.next[s.tail] = Nil
          BY <1>4, <1>5, <1>6, <4>2
        <5> QED BY <1>4, <4>1, <4>2, <5>1
      <4> QED BY <1>4, <4>1, <4>2, <4>3
    <3> QED BY <3>1, <3>2
  <2>3. \A x \in Serials \ r.mapping : r.next[x] = Nil /\ r.prev[x] = Nil
    <3> SUFFICES ASSUME NEW x \in Serials \ r.mapping
                 PROVE  r.next[x] = Nil /\ r.prev[x] = Nil
      OBVIOUS
    <3>1. x # v /\ x \notin s.mapping /\ s.next[x] = Nil /\ s.prev[x] = Nil
      BY DEF Sound, Links
    <3>2. x # s.tail
      BY <1>4, <1>5, <1>6, <3>1
    <3> QED BY <3>1, <3>2
  <2> QED BY <2>1, <2>2, <2>3 DEF Links
<1>9. Ends(r)
  <2>1. r.next[r.tail] = Nil
    BY <1>4
  <2>2. CASE n = 0
    BY <1>3, <1>4, <2>1, <2>2 DEF Ends
  <2>3. CASE n # 0
    <3>1. r.head = s.head /\ s.head # v /\ s.head \in Serials
      BY <1>4, <1>5, <1>6, <2>3
    <3> QED BY <1>5, <2>1, <2>3, <3>1 DEF Ends
  <2> QED BY <2>2, <2>3
<1>10. \E u : Chain(r, u)
  <2>1. CASE n = 0
    <3>1. r.head = v /\ v \in r.mapping
      BY <1>3, <2>1
    <3> QED BY <3>1, OneChain
  <2>2. CASE n # 0
    <3> DEFINE u == Append(w, v)
    <3>1. /\ u \in Seq(r.mapping) /\ Len(u) = n + 1 /\ u[n + 1] = v
          /\ \A i \in 1..n : u[i] = w[i]
      <4>1. w \in Seq(r.mapping) /\ v \in r.mapping
        BY <1>2
      <4> QED BY <4>1 DEF n
    <3> HIDE DEF u
    <3>2. \A i \in 1..n + 1 : i = n + 1 \/ i \in 1..n
      BY <1>2
    <3>3. \A i \in 1..n : w[i] # v /\ w[i] \in Serials
      BY <1>2, <1>4
    <3>4. \A i, j \in 1..n + 1 : u[i] = u[j] => i = j
      BY <1>2, <3>1, <3>2, <3>3
    <3>5. r.head = u[1] /\ r.tail = u[n + 1] /\ u # <<>>
      <4>1. 1 \in 1..n
        BY <1>2, <2>2
      <4> QED BY <1>2, <1>3, <1>4, <1>6, <2>2, <3>1, <4>1
    <3>6. ASSUME NEW i \in 1..(n + 1) - 1
          PROVE  r.next[u[i]] = u[i + 1] /\ r.age[u[i]] >= r.age[u[i + 1]]
      <4>1. i \in 1..n
        BY <1>2
      <4>2. u[i] = w[i] /\ w[i] # v /\ w[i] \in Serials /\ r.age[u[i]] = s.age[w[i]]
        BY <3>1, <3>3, <4>1
      <4>3. CASE i = n
        <5>1. u[i + 1] = v /\ w[i] = s.tail /\ r.age[v] = 0
          BY <1>3, <1>4, <2>2, <3>1, <4>3
        <5> QED BY <1>4, <4>2, <5>1
      <4>4. CASE i # n
        <5>1. i \in 1..n - 1 /\ i + 1 \in 1..n /\ n \in 1..n
          BY <1>2, <4>1, <4>4
        <5>2. w[i] # s.tail
          BY <1>2, <1>3, <2>2, <4>1, <4>4, <5>1
        <5>3. u[i + 1] = w[i + 1] /\ w[i + 1] # v /\ w[i + 1] \in Serials
          BY <3>1, <3>3, <5>1
        <5> QED BY <1>3, <4>2, <5>1, <5>2, <5>3
      <4> QED BY <4>3, <4>4
    <3>7. Chain(r, u)
      BY <3>1, <3>4, <3>5, <3>6 DEF Chain
    <3> QED BY <3>7
  <2> QED BY <2>1, <2>2
<1> QED BY <1>8, <1>9, <1>10 DEF Sound

\* An item is heard of: a new one is the youngest of the list, a known one the whole of it.
Bumped(s, v, silent, t) ==
  /\ Sound(t) /\ TimerCoversHead(t) /\ t.mapping = s.mapping \cup {v}
  /\ \A x \in Serials : t.age[x] = IF x = v THEN 0 ELSE s.age[x]
  /\ t.emits = IF silent \/ v \in s.mapping THEN s.emits
               ELSE Append(s.emits, [type |-> "insert", serial |-> v])

LEMMA BumpSound ==
  ASSUME NEW s, Sound(s), NEW v \in Serials, NEW silent \in BOOLEAN
  PROVE  Bumped(s, v, silent, Bump(s, v, silent))
<1> DEFINE t == IF v \in s.mapping THEN Unlink(s, v) ELSE Create(s, v, silent)
           p == t.prev[v]
           ages == [t.age EXCEPT ![v] = 0]
           u == [t EXCEPT !.age = ages, !.tail = v]
           nexts == [u.next EXCEPT ![p] = v]
           r == IF p # Nil THEN [u EXCEPT !.next = nexts] ELSE [u EXCEPT !.head = v]
<1>1. Bump(s, v, silent) = ScheduleCheck(r)
  BY DEF Bump
<1>2. s \in TTLSets /\ Links(s) /\ s.mapping \subseteq Serials
  BY DEF Sound, TTLSets
<1>3. /\ t \in TTLSets /\ t.mapping = s.mapping \cup {v} /\ t.age = s.age
      /\ t.emits = IF silent \/ v \in s.mapping THEN s.emits
                   ELSE Append(s.emits, [type |-> "insert", serial |-> v])
      /\ v \notin s.mapping =>
           /\ t.head = s.head
           /\ \A x \in Serials : t.prev[x] = IF x = v THEN s.tail ELSE s.prev[x]
           /\ \A x \in Serials : t.next[x] = IF x = v THEN Nil ELSE s.next[x]
      /\ v \in s.mapping => Links(t) /\ t.prev[v] = Nil /\ t.next[v] = Nil
  <2>1. CASE v \in s.mapping
    <3>1. t = Unlink(s, v) /\ s.mapping = s.mapping \cup {v}
      BY <2>1
    <3> HIDE DEF t
    <3>2. t \in TTLSets /\ t.mapping = s.mapping /\ t.age = s.age /\ t.emits = s.emits
      BY <1>2, <3>1, UnlinkFields
    <3>3. Links(t) /\ t.prev[v] = Nil /\ t.next[v] = Nil
      BY <1>2, <2>1, <3>1, UnlinkLinks
    <3> QED BY <2>1, <3>1, <3>2, <3>3
  <2>2. CASE v \notin s.mapping
    <3> DEFINE known == s.mapping \cup {v}
               prevs == [s.prev EXCEPT ![v] = s.tail]
               others == [s.next EXCEPT ![v] = Nil]
               c == [s EXCEPT !.mapping = known, !.prev = prevs, !.next = others]
    <3>1. t = IF silent THEN c ELSE Emit(c, "insert", v)
      BY <2>2 DEF Create
    <3>2. /\ known \subseteq Serials /\ prevs \in [Serials -> Serials \cup {Nil}]
          /\ others \in [Serials -> Serials \cup {Nil}]
          /\ \A x \in Serials : prevs[x] = IF x = v THEN s.tail ELSE s.prev[x]
          /\ \A x \in Serials : others[x] = IF x = v THEN Nil ELSE s.next[x]
      BY <1>2 DEF TTLSets
    <3> HIDE DEF known, prevs, others, t
    <3>3. /\ c \in TTLSets /\ c.mapping = known /\ c.prev = prevs /\ c.next = others
          /\ c.head = s.head /\ c.age = s.age /\ c.emits = s.emits
      <4>1. c \in TTLSets
        BY <1>2, <3>2 DEF TTLSets
      <4> QED BY <1>2, <4>1 DEF TTLSets
    <3> HIDE DEF c
    <3>4. CASE silent
      BY <2>2, <3>1, <3>2, <3>3, <3>4 DEF known
    <3>5. CASE ~silent
      <4>1. t \in TTLSets /\ SameList(c, t) /\ t.emits = Append(c.emits, [type |-> "insert", serial |-> v])
        BY <3>1, <3>3, <3>5, EmitFields
      <4> QED BY <2>2, <3>2, <3>3, <3>5, <4>1 DEF known, SameList
    <3> QED BY <3>4, <3>5
  <2> QED BY <2>1, <2>2
<1> HIDE DEF t
<1>4. /\ ages \in [Serials -> 0..Oldest] /\ p \in Serials \cup {Nil}
      /\ \A x \in Serials : ages[x] = IF x = v THEN 0 ELSE s.age[x]
  BY <1>3, Numbers DEF TTLSets
<1> HIDE DEF ages, p
<1>5. /\ u \in TTLSets /\ u.mapping = t.mapping /\ u.prev = t.prev /\ u.next = t.next
      /\ u.age = ages /\ u.tail = v /\ u.head = t.head /\ u.emits = t.emits
  <2>1. u \in TTLSets
    BY <1>3, <1>4 DEF TTLSets
  <2> QED BY <1>3, <2>1 DEF TTLSets
<1> HIDE DEF u
<1>6. /\ nexts \in [Serials -> Serials \cup {Nil}]
      /\ \A x \in Serials : nexts[x] = IF x = p THEN v ELSE t.next[x]
  BY <1>5 DEF TTLSets
<1> HIDE DEF nexts
<1>7. /\ r \in TTLSets /\ r.mapping = t.mapping /\ r.prev = t.prev /\ r.age = ages
      /\ r.tail = v /\ r.emits = t.emits
      /\ r.head = IF p = Nil THEN v ELSE t.head
      /\ \A x \in Serials : r.next[x] = IF x = p THEN v ELSE t.next[x]
  <2>1. CASE p # Nil
    <3> DEFINE q == [u EXCEPT !.next = nexts]
    <3>1. q \in TTLSets
      BY <1>5, <1>6 DEF TTLSets
    <3>2. /\ q.mapping = u.mapping /\ q.prev = u.prev /\ q.age = u.age /\ q.tail = u.tail
          /\ q.emits = u.emits /\ q.head = u.head /\ q.next = nexts
      BY <1>5, <3>1 DEF TTLSets
    <3>3. r = q
      BY <2>1
    <3> HIDE DEF q, r
    <3> QED BY <1>5, <1>6, <2>1, <3>1, <3>2, <3>3
  <2>2. CASE p = Nil
    <3> DEFINE q == [u EXCEPT !.head = v]
    <3>1. q \in TTLSets
      BY <1>5 DEF TTLSets
    <3>2. /\ q.mapping = u.mapping /\ q.prev = u.prev /\ q.age = u.age /\ q.tail = u.tail
          /\ q.emits = u.emits /\ q.head = v /\ q.next = u.next
      BY <1>5, <3>1 DEF TTLSets
    <3>3. r = q
      BY <2>2
    <3>4. \A x \in Serials : x # p
      BY <2>2, Numbers
    <3> HIDE DEF q, r
    <3> QED BY <1>5, <2>2, <3>1, <3>2, <3>3, <3>4
  <2> QED BY <2>1, <2>2
<1> HIDE DEF r
<1>8. Sound(r)
  <2>1. CASE v \notin s.mapping
    <3>1. p = s.tail
      BY <1>3, <2>1 DEF p
    <3>2. /\ r.head = IF s.tail = Nil THEN v ELSE s.head
          /\ \A x \in Serials : r.prev[x] = IF x = v THEN s.tail ELSE s.prev[x]
      BY <1>3, <1>7, <2>1, <3>1
    <3>3. s.tail # v
      <4>1. PICK w : Chain(s, w)
        BY DEF Sound
      <4>2. CASE w = <<>>
        BY <4>1, <4>2, Numbers DEF Chain
      <4>3. CASE w # <<>>
        <5>1. w \in Seq(s.mapping) /\ s.tail = w[Len(w)]
          BY <4>1, <4>3 DEF Chain
        <5>2. Len(w) \in 1..Len(w)
          BY <4>3, <5>1
        <5> QED BY <2>1, <5>1, <5>2
      <4> QED BY <4>2, <4>3
    <3>4. \A x \in Serials : r.next[x] = IF x = v THEN Nil
                                         ELSE IF x = s.tail THEN v ELSE s.next[x]
      BY <1>3, <1>7, <2>1, <3>1, <3>3
    <3>5. \A x \in Serials : r.age[x] = IF x = v THEN 0 ELSE s.age[x]
      BY <1>4, <1>7
    <3> QED BY <1>3, <1>7, <2>1, <3>2, <3>4, <3>5, CreateSound
  <2>2. CASE v \in s.mapping
    <3>1. p = Nil
      BY <1>3, <2>2 DEF p
    <3>2. r.head = v /\ \A x \in Serials : r.next[x] = t.next[x]
      BY <1>7, <3>1, Numbers
    <3>3. \A x \in Serials : r.prev[x] = t.prev[x]
      BY <1>7
    <3>4. Links(r)
      <4>1. t.mapping \subseteq Serials
        BY <1>3 DEF TTLSets
      <4> QED BY <1>3, <1>7, <2>2, <3>2, <3>3, <4>1 DEF Links
    <3>5. Ends(r)
      BY <1>3, <1>7, <2>2, <3>2, <3>3 DEF Ends
    <3>6. Chain(r, <<v>>)
      BY <1>3, <1>7, <3>2, OneChain
    <3> QED BY <1>7, <3>4, <3>5, <3>6 DEF Sound
  <2> QED BY <2>1, <2>2
<1> DEFINE z == ScheduleCheck(r)
<1>9. z \in TTLSets /\ SameList(r, z) /\ z.emits = r.emits /\ TimerCoversHead(z)
  BY <1>7, ScheduleFields
<1>10. Sound(z)
  BY <1>8, <1>9, SameListSound
<1> HIDE DEF z
<1>11. /\ z.mapping = s.mapping \cup {v}
       /\ \A x \in Serials : z.age[x] = IF x = v THEN 0 ELSE s.age[x]
       /\ z.emits = IF silent \/ v \in s.mapping THEN s.emits
                    ELSE Append(s.emits, [type |-> "insert", serial |-> v])
  BY <1>3, <1>4, <1>7, <1>9 DEF SameList
<1>12. Bump(s, v, silent) = z
  BY <1>1 DEF z
<1> QED BY <1>9, <1>10, <1>11, <1>12 DEF Bumped

LEMMA EmptySound ==
  Sound(EmptyTTLSet) /\ TimerCoversHead(EmptyTTLSet)
<1>1. EmptyTTLSet \in TTLSets
  <2>1. 0 \in 0..Oldest /\ Off \in 0..Off /\ <<>> \in Seq(Event)
    BY Numbers
  <2> QED BY <2>1 DEF EmptyTTLSet, TTLSets
<1>2. <<>> \in Seq({}) /\ 1..0 = {} /\ 1..0 - 1 = {} /\ Len(<<>>) = 0
  OBVIOUS
<1>3. Chain(EmptyTTLSet, <<>>)
  BY <1>2 DEF EmptyTTLSet, Chain
<1> QED BY <1>1, <1>3 DEF EmptyTTLSet, Links, Ends, Sound, TimerCoversHead

\* Time passes for all items alike.
Older(age) == IF age < Oldest THEN age + 1 ELSE age
LEMMA ElapseSound ==
  ASSUME NEW s, Sound(s)
  PROVE  LET t == Elapse(s)
         IN  /\ Sound(t) /\ t.mapping = s.mapping /\ t.emits = s.emits
             /\ \A x \in t.mapping : t.age[x] = Older(s.age[x])
             /\ TimerCoversHead(s) => TimerCoversHead(t)
<1> DEFINE t == Elapse(s)
           ages == [v \in Serials |-> IF v \in s.mapping /\ s.age[v] < Oldest
                                      THEN s.age[v] + 1 ELSE s.age[v]]
           time == IF s.timer \in {0, Off} THEN s.timer ELSE s.timer - 1
<1>1. s \in TTLSets /\ s.mapping \subseteq Serials
  BY DEF Sound, TTLSets
<1>2. t = [s EXCEPT !.age = ages, !.timer = time]
  BY <1>1 DEF Elapse, TTLSets
<1>3. /\ \A v \in Serials : s.age[v] \in 0..Oldest /\ s.age[v] \in Nat
      /\ s.timer \in 0..Off /\ s.timer \in Nat
  BY <1>1, Numbers DEF TTLSets
<1>4. \A v \in Serials :
        ages[v] = IF v \in s.mapping /\ s.age[v] < Oldest THEN s.age[v] + 1 ELSE s.age[v]
  OBVIOUS
<1>5. ages \in [Serials -> 0..Oldest]
  <2>1. \A v \in Serials : (IF v \in s.mapping /\ s.age[v] < Oldest
                            THEN s.age[v] + 1 ELSE s.age[v]) \in 0..Oldest
    BY <1>3, Numbers
  <2> QED BY <2>1
<1>6. time \in 0..Off
  BY <1>3, Numbers
<1> HIDE DEF ages, time, t
<1>7. /\ t \in TTLSets /\ t.age = ages /\ t.timer = time /\ t.head = s.head
      /\ t.tail = s.tail /\ t.next = s.next /\ t.prev = s.prev /\ t.mapping = s.mapping
      /\ t.emits = s.emits
  <2>1. t \in TTLSets
    BY <1>1, <1>2, <1>5, <1>6 DEF TTLSets
  <2> QED BY <1>1, <1>2, <2>1 DEF TTLSets
<1>8. Links(t) /\ Ends(t)
  BY <1>7 DEF Sound, Links, Ends
<1>9. PICK w : Chain(s, w)
  BY DEF Sound
<1>10. \A x \in s.mapping : ages[x] = Older(s.age[x]) /\ s.age[x] \in 0..Oldest
  BY <1>1, <1>3, <1>4 DEF Older
<1>11. Chain(t, w)
  <2>1. ASSUME NEW i \in 1..Len(w) - 1 PROVE ages[w[i]] >= ages[w[i + 1]]
    <3>1. w[i] \in s.mapping /\ w[i + 1] \in s.mapping
      BY <1>9 DEF Chain
    <3>2. s.age[w[i]] >= s.age[w[i + 1]]
      BY <1>9 DEF Chain
    <3> QED BY <1>10, <3>1, <3>2, Numbers DEF Older
  <2> QED BY <1>7, <1>9, <2>1 DEF Chain
<1>12. ASSUME TimerCoversHead(s) PROVE TimerCoversHead(t)
  <2> SUFFICES ASSUME s.head # Nil
               PROVE  /\ time # Off
                      /\ time <= IF ages[s.head] > TTL THEN 0 ELSE TTL - ages[s.head]
    BY <1>7 DEF TimerCoversHead
  <2>1. s.head \in s.mapping
    <3>1. w # <<>>
      BY <1>9 DEF Chain
    <3>2. w[1] \in s.mapping /\ s.head = w[1]
      BY <1>9, <3>1 DEF Chain
    <3> QED BY <3>2
  <2>2. ages[s.head] = Older(s.age[s.head]) /\ s.age[s.head] \in 0..Oldest
    BY <1>10, <2>1
  <2>3. /\ s.timer # Off
        /\ s.timer <= IF s.age[s.head] > TTL THEN 0 ELSE TTL - s.age[s.head]
    BY <1>12 DEF TimerCoversHead
  <2>4. time = IF s.timer = 0 THEN 0 ELSE s.timer - 1
    BY <2>3 DEF time
  <2> QED BY <1>3, <2>2, <2>3, <2>4, Numbers DEF Older
<1> QED BY <1>7, <1>8, <1>10, <1>11, <1>12 DEF Sound, t

-----------------------------------------------------------------------------
(* The loops of the reaper and of the set.                                 *)

\* A head that is too old is dropped.
LEMMA DropExpiredSound ==
  ASSUME NEW s, Sound(s)
  PROVE  LET t == DropExpired(s)
         IN  /\ Sound(t) /\ t.mapping \subseteq s.mapping
             /\ \A x \in t.mapping : t.age[x] = s.age[x]
             /\ \/ t.emits = s.emits
                \/ \E v \in s.mapping :
                     /\ s.age[v] > TTL
                     /\ t.emits = Append(s.emits, [type |-> "drop", serial |-> v])
<1>1. CASE HeadExpired(s)
  <2> DEFINE v == s.head
             t == Drop(s, v, FALSE)
  <2>1. v # Nil /\ s.age[v] > TTL /\ s.mapping \subseteq Serials
    BY <1>1 DEF HeadExpired, Sound, TTLSets
  <2>2. v \in s.mapping
    <3>1. PICK w : Chain(s, w)
      BY DEF Sound
    <3>2. w # <<>>
      BY <2>1, <3>1 DEF Chain
    <3>3. w[1] \in s.mapping /\ s.head = w[1]
      BY <3>1, <3>2 DEF Chain
    <3> QED BY <3>3
  <2>3. DropExpired(s) = t
    BY <1>1 DEF DropExpired
  <2>4. v \in Serials /\ FALSE \in BOOLEAN
    BY <2>1, <2>2
  <2> HIDE DEF v
  <2>5. /\ Sound(t)
        /\ t.mapping = s.mapping \ {v}
        /\ \A x \in t.mapping : t.age[x] = s.age[x]
        /\ t.emits = IF FALSE \/ v \notin s.mapping THEN s.emits
                     ELSE Append(s.emits, [type |-> "drop", serial |-> v])
    BY <2>4, DropSound
  <2> HIDE DEF t
  <2> QED BY <2>1, <2>2, <2>3, <2>5
<1>2. CASE ~HeadExpired(s)
  <2>1. DropExpired(s) = s
    BY <1>2 DEF DropExpired
  <2> QED BY <2>1
<1> QED BY <1>1, <1>2

\* check() leaves the items it does not drop as they were, and drops none that is young.
LEMMA CheckSound ==
  ASSUME NEW s, Sound(s), s.emits = <<>>
  PROVE  LET t == Check(s)
         IN  /\ Sound(t) /\ TimerCoversHead(t) /\ t.mapping \subseteq s.mapping
             /\ \A x \in t.mapping : t.age[x] = s.age[x]
             /\ \A i \in DOMAIN t.emits :
                  t.emits[i].serial \in s.mapping /\ s.age[t.emits[i].serial] > TTL
<1> DEFINE n == Cardinality(s.mapping)
           Next1(f, k) == IF k = 0 THEN s ELSE DropExpired(f[k - 1])
           dropped == CHOOSE f : f = [k \in 0..n |-> Next1(f, k)]
           T == {t \in TTLSets : Sound(t)}
           step == [k \in 1..n |-> [t \in T |-> DropExpired(t)]]
<1>1. s \in TTLSets /\ s.mapping \subseteq Serials
  BY DEF Sound, TTLSets
<1>2. n \in Nat
  <2>1. IsFiniteSet(s.mapping)
    BY <1>1, TTLSetAssumption, FS_Subset
  <2> QED BY <2>1, FS_CardinalityType
<1>3. Check(s) = ScheduleCheck(dropped[n])
  BY DEF Check
<1> HIDE DEF n
<1>4. \A t \in T : DropExpired(t) \in T
  BY DropExpiredSound DEF Sound
<1>5. s \in T
  BY <1>1
<1> HIDE DEF T
<1>6. \E f : f = [k \in 0..n |-> Next1(f, k)]
  <2>1. step \in Steps(n, T)
    BY <1>4 DEF Steps
  <2>2. \A k \in 1..n, t \in T : step[k][t] = DropExpired(t)
    OBVIOUS
  <2> HIDE DEF step
  <2>3. PICK f \in [0..n -> T] : f[0] = s /\ \A k \in 1..n : f[k] = step[k][f[k - 1]]
    BY <1>2, <1>5, <2>1, Recursion
  <2>4. ASSUME NEW k \in 0..n PROVE f[k] = Next1(f, k)
    <3>1. CASE k = 0
      BY <2>3, <3>1
    <3>2. CASE k # 0
      <4>1. k \in 1..n /\ k - 1 \in 0..n
        BY <1>2, <3>2
      <4>2. f[k - 1] \in T
        BY <4>1
      <4> QED BY <2>2, <2>3, <3>2, <4>1, <4>2
    <3> QED BY <3>1, <3>2
  <2>5. f = [k \in 0..n |-> f[k]]
    OBVIOUS
  <2> HIDE DEF Next1
  <2>6. f = [k \in 0..n |-> Next1(f, k)]
    BY <2>4, <2>5
  <2> QED BY <2>6
<1>7. \A k \in 0..n : dropped[k] = Next1(dropped, k)
  <2> HIDE DEF Next1
  <2>1. dropped = [k \in 0..n |-> Next1(dropped, k)]
    BY <1>6
  <2> HIDE DEF dropped
  <2> QED BY <2>1
<1> HIDE DEF dropped, step
<1>8. /\ dropped[0] = s
      /\ \A k \in 1..n : dropped[k] = DropExpired(dropped[k - 1])
  BY <1>2, <1>7
<1> DEFINE Kept1(t) ==
             /\ Sound(t) /\ t.mapping \subseteq s.mapping
             /\ \A x \in t.mapping : t.age[x] = s.age[x]
             /\ \A i \in DOMAIN t.emits :
                  t.emits[i].serial \in s.mapping /\ s.age[t.emits[i].serial] > TTL
           U == {k \in Nat : k <= n => Kept1(dropped[k])}
<1>9. 0 \in U
  <2>1. DOMAIN <<>> = {}
    OBVIOUS
  <2> QED BY <1>8, <2>1
<1>10. ASSUME NEW k \in Nat, k \in U PROVE k + 1 \in U
  <2> SUFFICES ASSUME k + 1 <= n PROVE Kept1(dropped[k + 1])
    OBVIOUS
  <2> DEFINE t == dropped[k]
             z == dropped[k + 1]
  <2>1. Kept1(t)
    <3>1. k <= n
      BY <1>2
    <3> HIDE DEF Kept1
    <3> QED BY <1>10, <3>1
  <2>2. z = DropExpired(t)
    <3>1. k + 1 \in 1..n /\ (k + 1) - 1 = k
      BY <1>2
    <3> QED BY <1>8, <3>1
  <2> HIDE DEF t, z
  <2>3. /\ Sound(z) /\ z.mapping \subseteq t.mapping
        /\ \A x \in z.mapping : z.age[x] = t.age[x]
        /\ \/ z.emits = t.emits
           \/ \E v \in t.mapping :
                /\ t.age[v] > TTL
                /\ z.emits = Append(t.emits, [type |-> "drop", serial |-> v])
    BY <2>1, <2>2, DropExpiredSound
  <2>4. \A i \in DOMAIN z.emits :
          z.emits[i].serial \in s.mapping /\ s.age[z.emits[i].serial] > TTL
    <3>1. CASE z.emits = t.emits
      BY <2>1, <3>1
    <3>2. ASSUME NEW v \in t.mapping, t.age[v] > TTL,
                 z.emits = Append(t.emits, [type |-> "drop", serial |-> v])
          PROVE  \A i \in DOMAIN z.emits :
                   z.emits[i].serial \in s.mapping /\ s.age[z.emits[i].serial] > TTL
      <4> DEFINE event == [type |-> "drop", serial |-> v]
      <4>1. event.serial = v
        OBVIOUS
      <4>2. t.emits \in Seq(Event)
        BY <2>1 DEF Sound, TTLSets
      <4> HIDE DEF event
      <4>3. \A i \in DOMAIN z.emits : \/ i \in DOMAIN t.emits /\ z.emits[i] = t.emits[i]
                                      \/ z.emits[i] = event
        BY <3>2, <4>2 DEF event
      <4>4. v \in s.mapping /\ s.age[v] > TTL
        BY <2>1, <3>2
      <4> QED BY <2>1, <4>1, <4>3, <4>4
    <3> QED BY <2>3, <3>1, <3>2
  <2>5. Kept1(z)
    BY <2>1, <2>3, <2>4
  <2> QED BY <2>5 DEF z
<1> HIDE DEF U
<1>11. Nat \subseteq U
  BY <1>9, <1>10, NatSetInduction
<1> DEFINE last == dropped[n]
           t == ScheduleCheck(last)
<1>12. Kept1(last)
  BY <1>2, <1>11 DEF U
<1> HIDE DEF last
<1>13. t \in TTLSets /\ SameList(last, t) /\ t.emits = last.emits /\ TimerCoversHead(t)
  BY <1>12, ScheduleFields DEF Sound
<1>14. Sound(t)
  BY <1>12, <1>13, SameListSound
<1>15. t = Check(s)
  BY <1>3 DEF last
<1> HIDE DEF t
<1> QED BY <1>12, <1>13, <1>14, <1>15 DEF SameList

\* The walk from the head meets the items of the list.
LEMMA WalkMeetsChain ==
  ASSUME NEW s, Sound(s), NEW w, Chain(s, w)
  PROVE  FromHead(s) = w /\ Len(w) <= Cardinality(s.mapping)
<1> DEFINE m == Len(w)
           n == Cardinality(s.mapping) + 1
           At(k) == IF k <= m THEN k ELSE m
           Next1(f, k) == IF k = 0 THEN <<>> ELSE Further(s, f[k - 1])
           parts == [k \in 0..n |-> Take(w, At(k))]
           walk == CHOOSE f : f = [k \in 0..n |-> Next1(f, k)]
<1>0. FromHead(s) = walk[n]
  BY DEF FromHead
<1>1. s.mapping \subseteq Serials /\ IsFiniteSet(s.mapping)
  BY TTLSetAssumption, FS_Subset DEF Sound, TTLSets
<1>2. /\ m \in Nat /\ w \in Seq(s.mapping) /\ \A i \in 1..m : w[i] \in s.mapping
      /\ \A i, j \in 1..m : w[i] = w[j] => i = j
  BY DEF Chain
<1>3. /\ m = 0 => s.head = Nil
      /\ m # 0 => s.head = w[1] /\ s.tail = w[m]
      /\ \A i \in 1..m - 1 : s.next[w[i]] = w[i + 1]
  BY <1>2 DEF Chain
<1>4. m <= Cardinality(s.mapping) /\ Cardinality(s.mapping) \in Nat
  <2>1. w \in Injection(1..m, s.mapping)
    <3>1. w \in [1..m -> s.mapping]
      BY <1>2
    <3> HIDE DEF m
    <3> QED BY <1>2, <3>1 DEF Injection, IsInjective
  <2>2. IsFiniteSet(1..m) /\ Cardinality(1..m) = m
    <3> HIDE DEF m
    <3>1. 1..m = 1..m /\ 1 \in Int /\ m \in Int
      BY <1>2
    <3>2. Cardinality(1..m) = IF 1 > m THEN 0 ELSE m - 1 + 1
      BY <3>1, FS_Interval
    <3>3. IsFiniteSet(1..m)
      BY <3>1, FS_Interval
    <3> QED BY <1>2, <3>2, <3>3
  <2>3. Cardinality(1..m) <= Cardinality(s.mapping)
    BY <1>1, <2>1, FS_Injection
  <2> QED BY <1>1, <2>2, <2>3, FS_CardinalityType
<1> HIDE DEF m, n
<1>5. n \in Nat /\ m <= n /\ m + 1 <= n
  BY <1>2, <1>4 DEF n
<1>6. m # 0 => s.next[w[m]] = Nil /\ w[m] \in s.mapping
  <2> SUFFICES ASSUME m # 0 PROVE s.next[w[m]] = Nil /\ w[m] \in s.mapping
    OBVIOUS
  <2>1. m \in 1..m
    BY <1>2
  <2>2. w[m] \in s.mapping /\ w[m] # Nil
    BY <1>1, <1>2, <2>1, Numbers
  <2> QED BY <1>3, <2>2 DEF Sound, Ends
<1>7. \A k \in 0..m : /\ Take(w, k) \in Seq(s.mapping) /\ Len(Take(w, k)) = k
                      /\ k # 0 => Take(w, k)[k] = w[k]
  BY <1>2, TakeSome DEF m
<1>8. \A k \in 1..m : Take(w, k) = Append(Take(w, k - 1), w[k])
  BY <1>2, TakeNext DEF m
<1>9. Take(w, 0) = <<>> /\ Take(w, m) = w
  BY <1>2, TakeAll DEF m
<1>10. ASSUME NEW k \in 0..m
       PROVE  Further(s, Take(w, k)) = IF k = m THEN w ELSE Take(w, k + 1)
  <2> DEFINE part == Take(w, k)
             v == IF part = <<>> THEN s.head ELSE s.next[part[Len(part)]]
  <2>1. part \in Seq(s.mapping) /\ Len(part) = k /\ (part = <<>> <=> k = 0)
    BY <1>7
  <2>2. v = IF k = m THEN Nil ELSE w[k + 1]
    <3>1. CASE k = 0
      BY <1>3, <2>1, <3>1
    <3>2. CASE k # 0
      <4>1. v = s.next[w[k]]
        BY <1>7, <2>1, <3>2
      <4>2. CASE k = m
        BY <1>6, <3>2, <4>1, <4>2
      <4>3. CASE k # m
        <5>1. k \in 1..m - 1
          BY <1>2, <3>2, <4>3
        <5> QED BY <1>3, <4>1, <4>3, <5>1
      <4> QED BY <4>2, <4>3
    <3> QED BY <3>1, <3>2
  <2>3. Further(s, part) = IF v = Nil THEN part ELSE Append(part, v)
    BY DEF Further
  <2> HIDE DEF v
  <2>4. CASE k = m
    BY <1>9, <2>2, <2>3, <2>4
  <2>5. CASE k # m
    <3>1. k + 1 \in 1..m /\ (k + 1) - 1 = k
      BY <1>2, <2>5
    <3>2. w[k + 1] # Nil
      BY <1>1, <1>2, <3>1, Numbers
    <3> QED BY <1>8, <2>2, <2>3, <2>5, <3>1, <3>2
  <2> QED BY <2>4, <2>5
<1>11. ASSUME NEW k \in 1..n
       PROVE  Further(s, Take(w, At(k - 1))) = Take(w, At(k))
  <2>1. CASE k <= m
    <3>1. k - 1 \in 0..m /\ k - 1 # m /\ (k - 1) + 1 = k /\ At(k - 1) = k - 1 /\ At(k) = k
      BY <1>2, <2>1
    <3> QED BY <1>10, <3>1
  <2>2. CASE ~(k <= m)
    <3>1. m \in 0..m /\ At(k - 1) = m /\ At(k) = m
      BY <1>2, <2>2
    <3> QED BY <1>9, <1>10, <3>1
  <2> QED BY <2>1, <2>2
<1>12. Take(w, At(0)) = <<>>
  BY <1>2, <1>9
<1>13. \E f : f = [k \in 0..n |-> Next1(f, k)]
  <2>1. ASSUME NEW k \in 0..n PROVE parts[k] = Next1(parts, k)
    <3>1. CASE k = 0
      BY <1>12, <3>1
    <3>2. CASE k # 0
      <4>1. k \in 1..n /\ k - 1 \in 0..n
        BY <1>5, <3>2
      <4> HIDE DEF At
      <4>2. parts[k] = Take(w, At(k)) /\ parts[k - 1] = Take(w, At(k - 1))
        BY <4>1
      <4> QED BY <1>11, <3>2, <4>1, <4>2
    <3> QED BY <3>1, <3>2
  <2>2. parts = [k \in 0..n |-> parts[k]]
    OBVIOUS
  <2> HIDE DEF parts, Next1
  <2>3. parts = [k \in 0..n |-> Next1(parts, k)]
    BY <2>1, <2>2
  <2> QED BY <2>3
<1>14. \A k \in 0..n : walk[k] = Next1(walk, k)
  <2> HIDE DEF Next1
  <2>1. walk = [k \in 0..n |-> Next1(walk, k)]
    BY <1>13
  <2> HIDE DEF walk
  <2> QED BY <2>1
<1>15. walk[n] = w
  <2> HIDE DEF walk, At
  <2> DEFINE T == {k \in Nat : k <= n => walk[k] = Take(w, At(k))}
  <2>1. 0 \in T
    BY <1>5, <1>12, <1>14
  <2>2. ASSUME NEW k \in Nat, k \in T PROVE k + 1 \in T
    <3> SUFFICES ASSUME k + 1 <= n PROVE walk[k + 1] = Take(w, At(k + 1))
      OBVIOUS
    <3>1. k + 1 \in 1..n /\ (k + 1) - 1 = k /\ k <= n /\ k + 1 # 0 /\ k + 1 \in 0..n
      BY <1>5
    <3>2. walk[k] = Take(w, At(k))
      BY <2>2, <3>1
    <3>3. walk[k + 1] = Further(s, walk[k])
      BY <1>14, <3>1
    <3> QED BY <1>11, <3>1, <3>2, <3>3
  <2> HIDE DEF T
  <2>3. Nat \subseteq T
    BY <2>1, <2>2, NatSetInduction
  <2>4. walk[n] = Take(w, At(n))
    BY <1>5, <2>3 DEF T
  <2>5. At(n) = m
    BY <1>2, <1>5 DEF At
  <2> QED BY <1>9, <2>4, <2>5
<1> QED BY <1>0, <1>4, <1>15 DEF m

LEMMA SoundInOrder ==
  ASSUME NEW s, Sound(s)
  PROVE  LinksConsistent(s) /\ OldestFirst(s)
<1>1. PICK w : Chain(s, w)
  BY DEF Sound
<1>2. FromHead(s) = w /\ Len(w) <= Cardinality(s.mapping)
  BY <1>1, WalkMeetsChain
<1>3. w = <<>> \/ (1 \in 1..Len(w) /\ Len(w) \in 1..Len(w))
  BY <1>1 DEF Chain
<1>4. /\ w = <<>> => s.head = Nil /\ s.tail = Nil
      /\ w # <<>> => /\ s.head = w[1] /\ s.tail = w[Len(w)]
                     /\ s.head \in s.mapping /\ s.tail \in s.mapping
  BY <1>1, <1>3 DEF Chain
<1>5. Nil \notin s.mapping
  BY Numbers DEF Sound, TTLSets
<1>6. LinksConsistent(s)
  BY <1>4, <1>5 DEF LinksConsistent, Sound, Links, Ends
<1>7. \A i \in 1..Len(w) - 1 : s.age[w[i]] >= s.age[w[i + 1]]
  BY <1>1 DEF Chain
<1>8. s.head # Nil => w[Len(w)] = s.tail
  BY <1>4
<1>9. OldestFirst(s)
  BY <1>2, <1>7, <1>8 DEF OldestFirst
<1> QED BY <1>6, <1>9

-----------------------------------------------------------------------------
(* What a message makes of the set.                                        *)

Types ==
  {"DeviceIntroduction", "DeviceReady", "DeviceHeartbeat", "DevicePresent", "DeviceAbsent"}
Announcement == [type : Types, serial : Serials]
Listened == {"DeviceIntroduction", "DeviceHeartbeat", "DeviceAbsent"}

\* The ages of the items, the one of v aside.
Apart(s, t, v) ==
  \A x \in t.mapping : x # v => x \in s.mapping /\ t.age[x] = s.age[x]

LEMMA HandleSound ==
  ASSUME NEW s, Sound(s), NEW m \in Announcement
  PROVE  LET t == HandleMessage(s, m)
         IN  /\ Sound(t) /\ (TimerCoversHead(s) => TimerCoversHead(t))
             /\ m.type \notin Listened => t = s
             /\ m.type \in Listened =>
                  /\ Apart(s, t, m.serial)
                  /\ m.serial \in t.mapping => t.age[m.serial] = 0
<1> DEFINE v == m.serial
           t == HandleMessage(s, m)
<1>0. v \in Serials /\ m.type \in Types /\ TRUE \in BOOLEAN /\ FALSE \in BOOLEAN
  BY DEF Announcement
<1> HIDE DEF v
<1>1. ASSUME NEW z, Sound(z)
      PROVE  /\ Sound(Bump(z, v, FALSE)) /\ TimerCoversHead(Bump(z, v, FALSE))
             /\ Bump(z, v, FALSE).mapping = z.mapping \cup {v}
             /\ Apart(z, Bump(z, v, FALSE), v)
             /\ Bump(z, v, FALSE).age[v] = 0
  <2> DEFINE b == Bump(z, v, FALSE)
  <2>0. Bumped(z, v, FALSE, b)
    BY <1>0, <1>1, BumpSound
  <2>1. /\ Sound(b) /\ TimerCoversHead(b)
        /\ b.mapping = z.mapping \cup {v}
        /\ \A x \in Serials : b.age[x] = IF x = v THEN 0 ELSE z.age[x]
    <3> HIDE DEF b
    <3> QED BY <2>0 DEF Bumped
  <2>2. b.mapping \subseteq Serials
    BY <2>1 DEF Sound, TTLSets
  <2> HIDE DEF b
  <2>3. Apart(z, b, v) /\ b.age[v] = 0
    BY <1>0, <2>1, <2>2 DEF Apart
  <2> QED BY <2>1, <2>3 DEF b
<1> DEFINE d == Drop(s, v, TRUE)
<1>2. /\ Sound(d) /\ (TimerCoversHead(s) => TimerCoversHead(d))
      /\ d.mapping = s.mapping \ {v} /\ \A x \in d.mapping : d.age[x] = s.age[x]
  BY <1>0, DropSound
<1>3. CASE m.type = "DeviceIntroduction"
  <2>1. t = Bump(d, v, FALSE)
    BY <1>3 DEF HandleMessage, v
  <2> HIDE DEF d, t
  <2>2. /\ Sound(t) /\ TimerCoversHead(t) /\ Apart(d, t, v) /\ t.age[v] = 0
    BY <1>1, <1>2, <2>1
  <2>3. Apart(s, t, v)
    BY <1>2, <2>2 DEF Apart
  <2> QED BY <1>3, <2>2, <2>3 DEF Listened, t, v
<1>4. CASE m.type = "DeviceHeartbeat"
  <2>1. t = Bump(s, v, FALSE)
    BY <1>4 DEF HandleMessage, v
  <2> HIDE DEF t
  <2>2. /\ Sound(t) /\ TimerCoversHead(t) /\ Apart(s, t, v) /\ t.age[v] = 0
    BY <1>1, <2>1
  <2> QED BY <1>4, <2>2 DEF Listened, t, v
<1>5. CASE m.type = "DeviceAbsent"
  <2>1. t = d
    BY <1>5 DEF HandleMessage, v
  <2> HIDE DEF d, t
  <2>2. Apart(s, t, v) /\ v \notin t.mapping
    BY <1>2, <2>1 DEF Apart
  <2> QED BY <1>2, <1>5, <2>1, <2>2 DEF Listened, t, v
<1>6. CASE m.type \notin Listened
  <2>1. t = s
    BY <1>6 DEF HandleMessage, Listened
  <2> HIDE DEF t
  <2> QED BY <1>6, <2>1 DEF t
<1> QED BY <1>3, <1>4, <1>5, <1>6 DEF Listened

\* However many listeners the router has, a message renews the age of its device and of no
\* other.
LEMMA RoutedSound ==
  ASSUME NEW s, Sound(s), TimerCoversHead(s), NEW m \in Announcement, NEW n \in Nat \ {0}
  PROVE  LET t == Routed(s, m, n)
         IN  /\ Sound(t) /\ TimerCoversHead(t)
             /\ m.type \notin Listened => t = s
             /\ m.type \in Listened =>
                  /\ Apart(s, t, m.serial)
                  /\ m.serial \in t.mapping => t.age[m.serial] = 0
<1> DEFINE Next1(f, k) == IF k = 0 THEN s ELSE HandleMessage(f[k - 1], m)
           after == CHOOSE f : f = [k \in 0..n |-> Next1(f, k)]
           T == {t \in TTLSets : Sound(t)}
           step == [k \in 1..n |-> [t \in T |-> HandleMessage(t, m)]]
<1>1. Routed(s, m, n) = after[n]
  BY DEF Routed
<1>2. s \in T /\ \A t \in T : HandleMessage(t, m) \in T
  BY HandleSound DEF Sound
<1> HIDE DEF T
<1>3. \E f : f = [k \in 0..n |-> Next1(f, k)]
  <2>1. step \in Steps(n, T)
    BY <1>2 DEF Steps
  <2>2. \A k \in 1..n, t \in T : step[k][t] = HandleMessage(t, m)
    OBVIOUS
  <2> HIDE DEF step
  <2>3. PICK f \in [0..n -> T] : f[0] = s /\ \A k \in 1..n : f[k] = step[k][f[k - 1]]
    BY <1>2, <2>1, Recursion
  <2>4. ASSUME NEW k \in 0..n PROVE f[k] = Next1(f, k)
    <3>1. CASE k = 0
      BY <2>3, <3>1
    <3>2. CASE k # 0
      <4>1. k \in 1..n /\ k - 1 \in 0..n
        BY <3>2
      <4>2. f[k - 1] \in T
        BY <4>1
      <4> QED BY <2>2, <2>3, <3>2, <4>1, <4>2
    <3> QED BY <3>1, <3>2
  <2>5. f = [k \in 0..n |-> f[k]]
    OBVIOUS
  <2> HIDE DEF Next1
  <2>6. f = [k \in 0..n |-> Next1(f, k)]
    BY <2>4, <2>5
  <2> QED BY <2>6
<1>4. \A k \in 0..n : after[k] = Next1(after, k)
  <2> HIDE DEF Next1
  <2>1. after = [k \in 0..n |-> Next1(after, k)]
    BY <1>3
  <2> HIDE DEF after
  <2> QED BY <2>1
<1> HIDE DEF after, step
<1>5. /\ after[0] = s
      /\ \A k \in 1..n : after[k] = HandleMessage(after[k - 1], m)
  BY <1>4
<1> DEFINE Kept1(t) ==
             /\ Sound(t) /\ TimerCoversHead(t)
             /\ m.type \notin Listened => t = s
             /\ m.type \in Listened => Apart(s, t, m.serial)
           U == {k \in Nat : k <= n => Kept1(after[k])}
<1>6. ASSUME NEW t, Kept1(t)
      PROVE  /\ Kept1(HandleMessage(t, m))
             /\ LET z == HandleMessage(t, m)
                IN  m.type \in Listened /\ m.serial \in z.mapping => z.age[m.serial] = 0
  <2> DEFINE z == HandleMessage(t, m)
  <2>1. /\ Sound(z) /\ (TimerCoversHead(t) => TimerCoversHead(z))
        /\ m.type \notin Listened => z = t
        /\ m.type \in Listened =>
             /\ Apart(t, z, m.serial)
             /\ m.serial \in z.mapping => z.age[m.serial] = 0
    BY <1>6, HandleSound
  <2> HIDE DEF z
  <2>2. m.type \in Listened => Apart(s, z, m.serial)
    BY <1>6, <2>1 DEF Apart
  <2> QED BY <1>6, <2>1, <2>2 DEF z
<1>7. Kept1(s)
  BY DEF Apart
<1> HIDE DEF Kept1
<1>8. 0 \in U
  BY <1>5, <1>7
<1>9. ASSUME NEW k \in Nat, k \in U PROVE k + 1 \in U
  <2> SUFFICES ASSUME k + 1 <= n PROVE Kept1(after[k + 1])
    OBVIOUS
  <2>1. k + 1 \in 1..n /\ (k + 1) - 1 = k /\ k <= n
    OBVIOUS
  <2>2. Kept1(after[k]) /\ after[k + 1] = HandleMessage(after[k], m)
    BY <1>5, <1>9, <2>1
  <2> QED BY <1>6, <2>2
<1> HIDE DEF U
<1>10. Nat \subseteq U
  BY <1>8, <1>9, NatSetInduction
<1>11. Kept1(after[n]) /\ Kept1(after[n - 1]) /\ after[n] = HandleMessage(after[n - 1], m)
  <2>1. n \in U /\ n - 1 \in U /\ n <= n /\ n - 1 <= n /\ n \in 1..n
    BY <1>10
  <2> QED BY <1>5, <2>1 DEF U
<1> DEFINE last == after[n]
<1>12. m.type \in Listened /\ m.serial \in last.mapping => last.age[m.serial] = 0
  BY <1>6, <1>11
<1> HIDE DEF last
<1>13. Kept1(last) /\ Routed(s, m, n) = last
  BY <1>1, <1>11 DEF last
<1> QED BY <1>12, <1>13 DEF Kept1

\* The devices of the answer, in any order, have been heard of.
LEMMA BumpAllSound ==
  ASSUME NEW s, Sound(s), TimerCoversHead(s), NEW order \in Seq(Serials)
  PROVE  LET t == BumpAll(s, order)
         IN  /\ Sound(t) /\ TimerCoversHead(t)
             /\ \A x \in t.mapping : \/ \E i \in DOMAIN order : x = order[i]
                                     \/ x \in s.mapping /\ t.age[x] = s.age[x]
             /\ \A i \in DOMAIN order : t.age[order[i]] = 0
<1> DEFINE n == Len(order)
           Next1(f, k) == IF k = 0 THEN s ELSE Bump(f[k - 1], order[k], TRUE)
           after == CHOOSE f : f = [k \in 0..n |-> Next1(f, k)]
           T == {t \in TTLSets : Sound(t)}
           step == [k \in 1..n |-> [t \in T |-> Bump(t, order[k], TRUE)]]
<1>1. BumpAll(s, order) = after[n]
  BY DEF BumpAll
<1>2. s \in T /\ n \in Nat /\ DOMAIN order = 1..n /\ \A k \in 1..n : order[k] \in Serials
  BY DEF Sound
<1>3. \A t \in T, k \in 1..n : Bump(t, order[k], TRUE) \in T
  <2>1. ASSUME NEW t \in T, NEW k \in 1..n PROVE Bump(t, order[k], TRUE) \in T
    <3>1. order[k] \in Serials /\ Sound(t) /\ TRUE \in BOOLEAN
      BY <1>2
    <3>2. Sound(Bump(t, order[k], TRUE))
      <4> DEFINE b == Bump(t, order[k], TRUE)
      <4>1. Bumped(t, order[k], TRUE, b)
        BY <3>1, BumpSound
      <4> HIDE DEF b
      <4>2. Sound(b)
        BY <4>1 DEF Bumped
      <4> QED BY <4>2 DEF b
    <3> QED BY <3>2 DEF Sound
  <2> QED BY <2>1
<1> HIDE DEF T, n
<1>4. \E f : f = [k \in 0..n |-> Next1(f, k)]
  <2>1. step \in Steps(n, T)
    BY <1>3 DEF Steps
  <2>2. \A k \in 1..n, t \in T : step[k][t] = Bump(t, order[k], TRUE)
    OBVIOUS
  <2> HIDE DEF step
  <2>3. PICK f \in [0..n -> T] : f[0] = s /\ \A k \in 1..n : f[k] = step[k][f[k - 1]]
    <3>1. s \in T /\ n \in Nat
      BY <1>2
    <3> QED BY <2>1, <3>1, Recursion
  <2>4. ASSUME NEW k \in 0..n PROVE f[k] = Next1(f, k)
    <3>1. CASE k = 0
      BY <2>3, <3>1
    <3>2. CASE k # 0
      <4>1. k \in 1..n /\ k - 1 \in 0..n
        BY <1>2, <3>2
      <4>2. f[k - 1] \in T
        BY <4>1
      <4> QED BY <2>2, <2>3, <3>2, <4>1, <4>2
    <3> QED BY <3>1, <3>2
  <2>5. f = [k \in 0..n |-> f[k]]
    OBVIOUS
  <2> HIDE DEF Next1
  <2>6. f = [k \in 0..n |-> Next1(f, k)]
    BY <2>4, <2>5
  <2> QED BY <2>6
<1>5. \A k \in 0..n : after[k] = Next1(after, k)
  <2> HIDE DEF Next1
  <2>1. after = [k \in 0..n |-> Next1(after, k)]
    BY <1>4
  <2> HIDE DEF after
  <2> QED BY <2>1
<1> HIDE DEF after, step
<1>6. /\ after[0] = s
      /\ \A k \in 1..n : after[k] = Bump(after[k - 1], order[k], TRUE)
  <2>1. 0 \in 0..n /\ \A k \in 1..n : k \in 0..n /\ k # 0
    BY <1>2
  <2>2. after[0] = Next1(after, 0) /\ \A k \in 1..n : after[k] = Next1(after, k)
    <3> HIDE DEF Next1
    <3> QED BY <1>5, <2>1
  <2> QED BY <2>1, <2>2
<1> DEFINE Kept1(t, k) ==
             /\ Sound(t) /\ TimerCoversHead(t)
             /\ \A x \in t.mapping : \/ \E i \in 1..n : x = order[i]
                                     \/ x \in s.mapping /\ t.age[x] = s.age[x]
             /\ \A i \in 1..k : t.age[order[i]] = 0
           U == {k \in Nat : k <= n => Kept1(after[k], k)}
<1>7. ASSUME NEW k \in 1..n, NEW t, Kept1(t, k - 1)
      PROVE  Kept1(Bump(t, order[k], TRUE), k)
  <2> DEFINE v == order[k]
             z == Bump(t, v, TRUE)
  <2>1. v \in Serials /\ TRUE \in BOOLEAN
    BY <1>2
  <2>0. v = order[k]
    OBVIOUS
  <2>6. Sound(t)
    BY <1>7
  <2> HIDE DEF v
  <2>2. /\ Sound(z) /\ TimerCoversHead(z) /\ z.mapping = t.mapping \cup {v}
        /\ \A x \in Serials : z.age[x] = IF x = v THEN 0 ELSE t.age[x]
    <3>1. Bumped(t, v, TRUE, z)
      BY <2>6, <2>1, BumpSound
    <3> HIDE DEF z
    <3> QED BY <3>1 DEF Bumped
  <2>3. z.mapping \subseteq Serials
    BY <2>2 DEF Sound, TTLSets
  <2> HIDE DEF z
  <2>4. \A x \in z.mapping : \/ \E i \in 1..n : x = order[i]
                             \/ x \in s.mapping /\ z.age[x] = s.age[x]
    BY <1>7, <2>0, <2>2, <2>3
  <2>5. \A i \in 1..k : z.age[order[i]] = 0
    <3>1. \A i \in 1..k : i \in 1..n /\ (i = k \/ i \in 1..k - 1)
      BY <1>2
    <3> QED BY <1>2, <1>7, <2>0, <2>2, <3>1
  <2> QED BY <2>2, <2>4, <2>5 DEF v, z
<1>8. Kept1(s, 0)
  OBVIOUS
<1> HIDE DEF Kept1
<1>9. 0 \in U
  BY <1>6, <1>8
<1>10. ASSUME NEW k \in Nat, k \in U PROVE k + 1 \in U
  <2> SUFFICES ASSUME k + 1 <= n PROVE Kept1(after[k + 1], k + 1)
    OBVIOUS
  <2>1. k + 1 \in 1..n /\ (k + 1) - 1 = k /\ k <= n
    BY <1>2
  <2>2. Kept1(after[k], k) /\ after[k + 1] = Bump(after[k], order[k + 1], TRUE)
    BY <1>6, <1>10, <2>1
  <2> QED BY <1>7, <2>1, <2>2
<1> HIDE DEF U
<1>11. Nat \subseteq U
  BY <1>9, <1>10, NatSetInduction
<1>12. Kept1(after[n], n)
  <2>1. n \in U /\ n <= n
    BY <1>2, <1>11
  <2> QED BY <2>1 DEF U
<1> DEFINE last == after[n]
<1> HIDE DEF last
<1>13. Kept1(last, n) /\ BumpAll(s, order) = last
  BY <1>1, <1>12 DEF last
<1> QED BY <1>2, <1>13 DEF Kept1

-----------------------------------------------------------------------------
(* The reaper.                                                             *)

Requests == Announcement \cup {GetPresentDevices}
Deliveries == Announcement \cup {DevicesReply(S) : S \in SUBSET Serials}

\* The messages that are on their way are what units send, the set is sound with its timer
\* armed, and the age of an item is the time the reaper has not heard of its device.
MessagesInv ==
  /\ queue \in [Processors -> Seq(Requests)]
  /\ inbox \in [{"app", "dev"} -> Seq(Deliveries)]
  /\ handlers \in Nat \ {0}
AsSilent(s, quiet) == \A v \in s.mapping : s.age[v] = quiet[v]
SetInv == Sound(set) /\ TimerCoversHead(set) /\ set.emits = <<>> /\ AsSilent(set, silence)
ReaperInv == MessagesInv /\ SetInv

LEMMA MsgTypes ==
  /\ \A type \in Types, v \in Serials : Msg(type, v) \in Announcement
  /\ \A m \in Deliveries : m.type # "Devices" => m \in Announcement
  /\ \A m \in Deliveries : m.type = "Devices" => m.serials \in SUBSET Serials
  /\ \A m \in Requests : m.type # "GetPresentDevices" => m \in Announcement
BY DEF Msg, Types, Announcement, Deliveries, DevicesReply, Requests, GetPresentDevices

LEMMA SendTypes ==
  ASSUME queue \in [Processors -> Seq(Requests)], NEW ms \in Seq(Requests), Send(ms)
  PROVE  queue' \in [Processors -> Seq(Requests)]
<1>1. PICK p \in Processors : queue' = [queue EXCEPT ![p] = queue[p] \o ms]
  BY DEF Send
<1>2. queue[p] \o ms \in Seq(Requests)
  <2>1. queue[p] \in Seq(Requests)
    OBVIOUS
  <2> QED BY <2>1, ConcatProperties
<1> QED BY <1>1, <1>2

LEMMA DeliverTypes ==
  ASSUME inbox \in [{"app", "dev"} -> Seq(Deliveries)], NEW side \in {"app", "dev"},
         NEW m \in Deliveries
  PROVE  Deliver(side, m) \in [{"app", "dev"} -> Seq(Deliveries)]
<1>1. Append(inbox[side], m) \in Seq(Deliveries) /\ inbox[side] \in Seq(Deliveries)
  OBVIOUS
<1> QED BY <1>1 DEF Deliver

\* The events of a set are pushed and forgotten.
LEMMA BecomesSound ==
  ASSUME MessagesInv, NEW t, Sound(t), TimerCoversHead(t), SetBecomes(t)
  PROVE  /\ queue' \in [Processors -> Seq(Requests)]
         /\ Sound(set') /\ TimerCoversHead(set') /\ set'.emits = <<>>
         /\ set'.mapping = t.mapping /\ set'.age = t.age
<1>1. Send(Pushed(t)) /\ set' = [t EXCEPT !.emits = <<>>]
  BY DEF SetBecomes
<1>2. t \in TTLSets /\ t.emits \in Seq(Event)
  BY DEF Sound, TTLSets
<1>3. Pushed(t) \in Seq(Requests)
  <2> DEFINE At(i) == Msg(IF t.emits[i].type = "insert" THEN "DevicePresent" ELSE "DeviceAbsent",
                          t.emits[i].serial)
             n == Len(t.emits)
  <2>1. n \in Nat /\ DOMAIN t.emits = 1..n /\ \A i \in 1..n : t.emits[i] \in Event
    BY <1>2
  <2>2. Pushed(t) = [i \in 1..n |-> At(i)]
    BY <2>1 DEF Pushed
  <2>3. ASSUME NEW i \in 1..n PROVE At(i) \in Requests
    <3>1. t.emits[i].serial \in Serials
      BY <2>1 DEF Event
    <3>2. "DevicePresent" \in Types /\ "DeviceAbsent" \in Types
      BY DEF Types
    <3> QED BY <3>1, <3>2, MsgTypes DEF Requests
  <2> HIDE DEF At, n
  <2>4. [i \in 1..n |-> At(i)] \in Seq(Requests)
    BY <2>1, <2>3
  <2> QED BY <2>2, <2>4
<1>4. queue' \in [Processors -> Seq(Requests)]
  BY <1>1, <1>3, SendTypes DEF MessagesInv
<1> DEFINE z == [t EXCEPT !.emits = <<>>]
<1>5. z \in TTLSets
  <2>1. <<>> \in Seq(Event)
    OBVIOUS
  <2> QED BY <1>2, <2>1 DEF TTLSets
<1>6. SameList(t, z) /\ z.emits = <<>> /\ z.timer = t.timer
  BY <1>2 DEF TTLSets, SameList
<1> HIDE DEF z
<1>7. Sound(z)
  BY <1>5, <1>6, SameListSound
<1>8. TimerCoversHead(z)
  BY <1>6 DEF TimerCoversHead, SameList
<1>9. set' = z
  BY <1>1 DEF z
<1> QED BY <1>4, <1>6, <1>7, <1>8, <1>9 DEF SameList

\* An order of a set meets every element.
LEMMA OrderMeetsAll ==
  ASSUME NEW S \in SUBSET Serials, NEW order \in SetToSeqs(S)
  PROVE  /\ order \in Seq(Serials) /\ \A i \in DOMAIN order : order[i] \in S
         /\ \A x \in S : \E i \in DOMAIN order : order[i] = x
<1> DEFINE n == Cardinality(S)
<1>1. IsFiniteSet(S) /\ n \in Nat
  <2>1. IsFiniteSet(S)
    BY TTLSetAssumption, FS_Subset
  <2> QED BY <2>1, FS_CardinalityType
<1>2. order \in [1..n -> S] /\ \A i, j \in 1..n : i # j => order[i] # order[j]
  BY DEF SetToSeqs
<1> HIDE DEF n
<1>3. order \in Injection(1..n, S)
  BY <1>2 DEF Injection, IsInjective
<1>4. Cardinality(1..n) = n
  <2>1. 1 \in Int /\ n \in Int
    BY <1>1
  <2>2. Cardinality(1..n) = IF 1 > n THEN 0 ELSE n - 1 + 1
    BY <2>1, FS_Interval
  <2> QED BY <1>1, <2>2
<1>5. order \in Surjection(1..n, S)
  BY <1>1, <1>3, <1>4, FS_Injection DEF n
<1>6. \A x \in S : \E i \in 1..n : order[i] = x
  BY <1>5 DEF Surjection
<1>7. order \in Seq(Serials) /\ DOMAIN order = 1..n
  BY <1>1, <1>2
<1> QED BY <1>2, <1>6, <1>7

\* Steps of devices and of processors, which leave the reaper alone.
LEMMA OthersStep ==
  ASSUME MessagesInv,
         \/ \E v \in Serials : Connect(v) \/ StartWorker(v) \/ Beat(v) \/ Disconnect(v) \/ Lose(v)
         \/ \E p \in Processors : Process(p)
  PROVE  MessagesInv' /\ UNCHANGED reaper
<1>1. ASSUME NEW v \in Serials, Connect(v) \/ StartWorker(v) \/ Disconnect(v)
      PROVE  MessagesInv' /\ UNCHANGED reaper
  <2>1. PICK type \in Types : Send(<<Msg(type, v)>>)
    BY <1>1 DEF Connect, StartWorker, Disconnect, Types
  <2>2. <<Msg(type, v)>> \in Seq(Requests)
    <3>1. Msg(type, v) \in Requests
      BY MsgTypes DEF Requests
    <3> QED BY <3>1
  <2>3. UNCHANGED <<inbox, reaper>>
    BY <1>1 DEF Connect, StartWorker, Disconnect, reaper
  <2>4. queue' \in [Processors -> Seq(Requests)]
    BY <2>1, <2>2, SendTypes DEF MessagesInv
  <2> QED BY <2>3, <2>4 DEF MessagesInv, reaper
<1>2. ASSUME NEW v \in Serials, Beat(v) PROVE MessagesInv' /\ UNCHANGED reaper
  <2>1. Msg("DeviceHeartbeat", v) \in Deliveries
    BY MsgTypes DEF Types, Deliveries
  <2>2. inbox' = Deliver("dev", Msg("DeviceHeartbeat", v)) /\ UNCHANGED <<queue, reaper>>
    BY <1>2 DEF Beat, reaper
  <2>3. inbox' \in [{"app", "dev"} -> Seq(Deliveries)]
    BY <2>1, <2>2, DeliverTypes DEF MessagesInv
  <2> QED BY <2>2, <2>3 DEF MessagesInv, reaper
<1>3. ASSUME NEW v \in Serials, Lose(v) PROVE MessagesInv' /\ UNCHANGED reaper
  BY <1>3 DEF Lose, MessagesInv, reaper
<1>4. ASSUME NEW p \in Processors, Process(p) PROVE MessagesInv' /\ UNCHANGED reaper
  <2> DEFINE m == Head(queue[p])
             known == {v \in Serials : present[v]}
  <2>1. queue[p] \in Seq(Requests) /\ queue[p] # <<>>
    BY <1>4 DEF Process, MessagesInv
  <2>2. m \in Requests /\ Tail(queue[p]) \in Seq(Requests)
    BY <2>1
  <2>3. UNCHANGED reaper /\ queue' = [queue EXCEPT ![p] = Tail(queue[p])]
    BY <1>4 DEF Process, reaper
  <2>4. inbox' = IF m.type = "GetPresentDevices" THEN Deliver("dev", DevicesReply(known))
                 ELSE Deliver("app", m)
    BY <1>4 DEF Process
  <2> HIDE DEF m
  <2>5. DevicesReply(known) \in Deliveries
    <3>1. known \in SUBSET Serials
      OBVIOUS
    <3> HIDE DEF known
    <3> QED BY <3>1 DEF Deliveries
  <2> HIDE DEF known
  <2>6. m.type # "GetPresentDevices" => m \in Deliveries
    BY <2>2, MsgTypes DEF Deliveries
  <2>7. inbox' \in [{"app", "dev"} -> Seq(Deliveries)]
    BY <2>4, <2>5, <2>6, DeliverTypes DEF MessagesInv
  <2>8. queue' \in [Processors -> Seq(Requests)]
    BY <2>2, <2>3 DEF MessagesInv
  <2> QED BY <2>3, <2>7, <2>8 DEF MessagesInv, reaper
<1> QED BY <1>1, <1>2, <1>3, <1>4

LEMMA ReceiveStep ==
  ASSUME ReaperInv, NEW side \in Sides, Receive(side)
  PROVE  ReaperInv'
<1> DEFINE m == Head(inbox[side])
           t == Routed(set, m, handlers)
<1>1. side \in {"app", "dev"} /\ inbox[side] \in Seq(Deliveries) /\ inbox[side] # <<>>
  BY ReaperAssumption DEF Receive, ReaperInv, MessagesInv
<1>2. m \in Announcement /\ Tail(inbox[side]) \in Seq(Deliveries)
  <2>1. m \in Deliveries /\ Tail(inbox[side]) \in Seq(Deliveries)
    BY <1>1
  <2>2. m.type # "Devices"
    BY DEF Receive
  <2> QED BY <2>1, <2>2, MsgTypes
<1>3. /\ SetBecomes(t) /\ inbox' = [inbox EXCEPT ![side] = Tail(inbox[side])]
      /\ silence' = IF m.type \in Listened THEN Heard({m.serial}) ELSE silence
      /\ handlers' = handlers
  BY DEF Receive, Listened
<1>4. Sound(set) /\ TimerCoversHead(set) /\ AsSilent(set, silence) /\ handlers \in Nat \ {0}
  BY DEF ReaperInv, MessagesInv, SetInv
<1> HIDE DEF m
<1>5. /\ Sound(t) /\ TimerCoversHead(t)
      /\ m.type \notin Listened => t = set
      /\ m.type \in Listened =>
           /\ Apart(set, t, m.serial)
           /\ m.serial \in t.mapping => t.age[m.serial] = 0
  BY <1>2, <1>4, RoutedSound
<1> HIDE DEF t
<1>6. /\ queue' \in [Processors -> Seq(Requests)]
      /\ Sound(set') /\ TimerCoversHead(set') /\ set'.emits = <<>>
      /\ set'.mapping = t.mapping /\ set'.age = t.age
  BY <1>3, <1>5, BecomesSound DEF ReaperInv
<1>7. t.mapping \subseteq Serials
  BY <1>5 DEF Sound, TTLSets
<1>8. AsSilent(set', silence')
  <2>1. CASE m.type \notin Listened
    BY <1>3, <1>4, <1>5, <1>6, <2>1 DEF AsSilent
  <2>2. CASE m.type \in Listened
    <3>1. \A v \in Serials : silence'[v] = IF v = m.serial THEN 0 ELSE silence[v]
      BY <1>3, <2>2 DEF Heard
    <3> QED BY <1>4, <1>5, <1>6, <1>7, <2>2, <3>1 DEF AsSilent, Apart
  <2> QED BY <2>1, <2>2
<1>9. inbox' \in [{"app", "dev"} -> Seq(Deliveries)]
  BY <1>2, <1>3 DEF ReaperInv, MessagesInv
<1> QED BY <1>3, <1>4, <1>6, <1>8, <1>9 DEF ReaperInv, MessagesInv, SetInv

LEMMA ReceiveDevicesStep ==
  ASSUME ReaperInv, NEW side \in Sides, ReceiveDevices(side)
  PROVE  ReaperInv'
<1> DEFINE m == Head(inbox[side])
           known == IF phase = "init" THEN m.serials ELSE {}
<1>1. side \in {"app", "dev"} /\ inbox[side] \in Seq(Deliveries) /\ inbox[side] # <<>>
  BY ReaperAssumption DEF ReceiveDevices, ReaperInv, MessagesInv
<1>2. m \in Deliveries /\ Tail(inbox[side]) \in Seq(Deliveries) /\ m.type = "Devices"
  BY <1>1 DEF ReceiveDevices
<1>3. PICK order \in SetToSeqs(known) : SetBecomes(BumpAll(set, order))
  BY DEF ReceiveDevices
<1>4. /\ inbox' = [inbox EXCEPT ![side] = Tail(inbox[side])]
      /\ silence' = Heard(known) /\ handlers' = handlers
  BY DEF ReceiveDevices
<1> HIDE DEF m
<1>5. known \in SUBSET Serials
  BY <1>2, MsgTypes
<1> HIDE DEF known
<1>6. /\ order \in Seq(Serials) /\ \A i \in DOMAIN order : order[i] \in known
      /\ \A x \in known : \E i \in DOMAIN order : order[i] = x
  BY <1>5, OrderMeetsAll
<1>7. Sound(set) /\ TimerCoversHead(set) /\ AsSilent(set, silence)
  BY DEF ReaperInv, SetInv
<1> DEFINE t == BumpAll(set, order)
<1>8. /\ Sound(t) /\ TimerCoversHead(t)
      /\ \A x \in t.mapping : \/ \E i \in DOMAIN order : x = order[i]
                              \/ x \in set.mapping /\ t.age[x] = set.age[x]
      /\ \A i \in DOMAIN order : t.age[order[i]] = 0
  BY <1>6, <1>7, BumpAllSound
<1>9. SetBecomes(t)
  BY <1>3
<1> HIDE DEF t
<1>10. /\ queue' \in [Processors -> Seq(Requests)]
       /\ Sound(set') /\ TimerCoversHead(set') /\ set'.emits = <<>>
       /\ set'.mapping = t.mapping /\ set'.age = t.age
  BY <1>8, <1>9, BecomesSound DEF ReaperInv
<1>11. t.mapping \subseteq Serials
  BY <1>8 DEF Sound, TTLSets
<1>12. \A v \in Serials : silence'[v] = IF v \in known THEN 0 ELSE silence[v]
  BY <1>4 DEF Heard
<1>13. ASSUME NEW x \in t.mapping PROVE t.age[x] = silence'[x]
  <2>1. CASE x \in known
    <3>1. PICK i \in DOMAIN order : order[i] = x
      BY <1>6, <2>1
    <3> QED BY <1>8, <1>11, <1>12, <2>1, <3>1
  <2>2. CASE x \notin known
    <3>1. x \in set.mapping /\ t.age[x] = set.age[x]
      BY <1>6, <1>8, <2>2
    <3> QED BY <1>7, <1>11, <1>12, <2>2, <3>1 DEF AsSilent
  <2> QED BY <2>1, <2>2
<1>14. AsSilent(set', silence')
  BY <1>10, <1>13 DEF AsSilent
<1>15. inbox' \in [{"app", "dev"} -> Seq(Deliveries)]
  BY <1>2, <1>4 DEF ReaperInv, MessagesInv
<1> QED BY <1>4, <1>10, <1>14, <1>15 DEF ReaperInv, MessagesInv, SetInv

LEMMA CheckStep ==
  ASSUME ReaperInv, CheckTimer
  PROVE  ReaperInv'
<1> DEFINE t == Check(set)
<1>1. Sound(set) /\ set.emits = <<>> /\ AsSilent(set, silence)
  BY DEF ReaperInv, SetInv
<1>2. /\ Sound(t) /\ TimerCoversHead(t) /\ t.mapping \subseteq set.mapping
      /\ \A x \in t.mapping : t.age[x] = set.age[x]
  BY <1>1, CheckSound
<1>3. SetBecomes(t) /\ silence' = Heard(set.mapping \ t.mapping) /\ UNCHANGED <<inbox, handlers>>
  BY DEF CheckTimer
<1> HIDE DEF t
<1>4. /\ queue' \in [Processors -> Seq(Requests)]
      /\ Sound(set') /\ TimerCoversHead(set') /\ set'.emits = <<>>
      /\ set'.mapping = t.mapping /\ set'.age = t.age
  BY <1>2, <1>3, BecomesSound DEF ReaperInv
<1>5. t.mapping \subseteq Serials
  BY <1>2 DEF Sound, TTLSets
<1>6. \A v \in t.mapping : silence'[v] = silence[v]
  BY <1>3, <1>5 DEF Heard
<1>7. AsSilent(set', silence')
  BY <1>1, <1>2, <1>4, <1>6 DEF AsSilent
<1> QED BY <1>3, <1>4, <1>7 DEF ReaperInv, MessagesInv, SetInv

LEMMA RestStep ==
  ASSUME ReaperInv, RetryInit \/ Restart \/ Tick
  PROVE  ReaperInv'
<1>1. <<GetPresentDevices>> \in Seq(Requests)
  BY DEF Requests
<1>2. CASE RetryInit
  <2>1. queue' \in [Processors -> Seq(Requests)]
    BY <1>1, <1>2, SendTypes DEF RetryInit, ReaperInv, MessagesInv
  <2>2. UNCHANGED <<inbox, set, silence>> /\ handlers' \in Nat \ {0}
    BY <1>2 DEF RetryInit, ReaperInv, MessagesInv
  <2> QED BY <2>1, <2>2 DEF ReaperInv, MessagesInv, SetInv
<1>3. CASE Restart
  <2>1. queue' \in [Processors -> Seq(Requests)]
    BY <1>1, <1>3, SendTypes DEF Restart, ReaperInv, MessagesInv
  <2>2. /\ set' = EmptyTTLSet /\ handlers' = 1
        /\ inbox' = [side \in {"app", "dev"} |-> <<>>]
    BY <1>3 DEF Restart
  <2>3. EmptyTTLSet.emits = <<>> /\ EmptyTTLSet.mapping = {}
    BY DEF EmptyTTLSet
  <2>4. inbox' \in [{"app", "dev"} -> Seq(Deliveries)]
    BY <2>2
  <2>5. SetInv'
    BY <2>2, <2>3, EmptySound DEF SetInv, AsSilent
  <2> QED BY <2>1, <2>2, <2>4, <2>5 DEF ReaperInv, MessagesInv
<1>4. CASE Tick
  <2> DEFINE t == Elapse(set)
  <2>1. /\ Sound(t) /\ t.mapping = set.mapping /\ t.emits = set.emits
        /\ \A x \in t.mapping : t.age[x] = Older(set.age[x])
        /\ TimerCoversHead(set) => TimerCoversHead(t)
    BY ElapseSound DEF ReaperInv, SetInv
  <2>2. set' = t /\ UNCHANGED <<queue, inbox, handlers>>
    BY <1>4 DEF Tick
  <2>3. \A v \in Serials : v \in set.mapping => silence'[v] = Older(silence[v])
    BY <1>4 DEF Tick, Older
  <2> HIDE DEF t
  <2>4. set.mapping \subseteq Serials
    BY DEF ReaperInv, SetInv, Sound, TTLSets
  <2>5. AsSilent(t, silence')
    BY <2>1, <2>3, <2>4 DEF ReaperInv, SetInv, AsSilent
  <2> QED BY <2>1, <2>2, <2>5 DEF ReaperInv, MessagesInv, SetInv
<1> QED BY <1>2, <1>3, <1>4

LEMMA ReaperInductive == Spec => []ReaperInv
<1>1. Init => ReaperInv
  <2> SUFFICES ASSUME Init PROVE ReaperInv
    OBVIOUS
  <2>1. <<GetPresentDevices>> \in Seq(Requests) /\ <<>> \in Seq(Requests)
    BY DEF Requests
  <2>2. queue \in [Processors -> Seq(Requests)]
    BY <2>1 DEF Init
  <2>3. set = EmptyTTLSet /\ handlers = 1 /\ inbox = [side \in {"app", "dev"} |-> <<>>]
    BY DEF Init
  <2>4. EmptyTTLSet.emits = <<>> /\ EmptyTTLSet.mapping = {}
    BY DEF EmptyTTLSet
  <2> QED BY <2>2, <2>3, <2>4, EmptySound DEF ReaperInv, MessagesInv, SetInv, AsSilent
<1>2. ReaperInv /\ [Next]_vars => ReaperInv'
  <2> SUFFICES ASSUME ReaperInv, [Next]_vars PROVE ReaperInv'
    OBVIOUS
  <2>1. CASE \/ \E v \in Serials : \/ Connect(v) \/ StartWorker(v) \/ Beat(v)
                                  \/ Disconnect(v) \/ Lose(v)
             \/ \E p \in Processors : Process(p)
    <3>1. MessagesInv' /\ UNCHANGED reaper
      BY <2>1, OthersStep DEF ReaperInv
    <3> QED BY <3>1 DEF ReaperInv, SetInv, reaper
  <2>2. CASE \E side \in Sides : ReceiveDevices(side) \/ Receive(side)
    BY <2>2, ReceiveStep, ReceiveDevicesStep
  <2>3. CASE CheckTimer
    BY <2>3, CheckStep
  <2>4. CASE RetryInit \/ Restart \/ Tick
    BY <2>4, RestStep
  <2>5. CASE UNCHANGED vars
    BY <2>5 DEF vars, ReaperInv, MessagesInv, SetInv
  <2> QED BY <2>1, <2>2, <2>3, <2>4, <2>5 DEF Next
<1> QED BY <1>1, <1>2, PTL DEF Spec

\* No order of bumps, drops and checks corrupts the links of the set, and check() may stop
\* at the first young head: behind it nothing is older.
THEOREM SetAlwaysInOrder == Spec => []SetInOrder
<1>1. ReaperInv => SetInOrder
  BY SoundInOrder DEF ReaperInv, SetInv, SetInOrder
<1> QED BY <1>1, ReaperInductive, PTL

\* Whatever dropped or moved the head the timer was armed for (drop() arms none), a timer
\* looks at the head of the list in time.
THEOREM TimerAlwaysCoversHead == Spec => []SetTimerCoversHead
<1>1. ReaperInv => SetTimerCoversHead
  BY DEF ReaperInv, SetInv, SetTimerCoversHead
<1> QED BY <1>1, ReaperInductive, PTL

\* check() pushes DeviceAbsent only for devices the reaper has not heard of for longer than
\* the timeout, whatever was loaded, bumped, dropped or repeated by a second listener.
THEOREM OnlySilentReaped == Spec => ReapOnlySilent
<1>1. ReaperInv /\ [Next]_vars =>
        [\A v \in Serials :
           CheckTimer /\ Msg("DeviceAbsent", v) \in ToSet(Pushed(Check(set)))
             => silence[v] > TTL]_vars
  <2> SUFFICES ASSUME ReaperInv, NEW v \in Serials,
                      Msg("DeviceAbsent", v) \in ToSet(Pushed(Check(set)))
               PROVE  silence[v] > TTL
    OBVIOUS
  <2> DEFINE t == Check(set)
  <2>1. \A i \in DOMAIN t.emits :
          t.emits[i].serial \in set.mapping /\ set.age[t.emits[i].serial] > TTL
    BY CheckSound DEF ReaperInv, SetInv
  <2> HIDE DEF t
  <2>2. PICK i \in DOMAIN t.emits : Pushed(t)[i] = Msg("DeviceAbsent", v)
    BY DEF ToSet, Pushed, t
  <2>3. Pushed(t)[i].serial = t.emits[i].serial
    BY DEF Pushed, Msg
  <2>4. t.emits[i].serial = v
    BY <2>2, <2>3 DEF Msg
  <2> QED BY <2>1, <2>4 DEF ReaperInv, SetInv, AsSilent
<1> QED BY <1>1, ReaperInductive, PTL DEF Spec, ReapOnlySilent

=============================================================================
