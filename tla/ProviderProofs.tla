--------------------------- MODULE ProviderProofs ---------------------------
(***************************************************************************)
(* Proofs about the provider with its process manager, for any devices,    *)
(* ports, sizes of a group of ports and orders of events.                  *)
(*                                                                         *)
(* The invariant is IInv: the tracker's own state, PmInv of the process    *)
(* manager's record, and EntryIsTracked.  PmInv holds the ports together:  *)
(* each entry holds one of the fixed groups AllPorts is cut into and the   *)
(* pool is a sequence of such groups (PoolInv); without workers that hang, *)
(* no entry is late to be removed, so none is removed twice, and the pool  *)
(* and the groups of the entries share nothing (Partition); without        *)
(* workers that end by a signal or with code 0, an entry in state          *)
(* "running" has a worker or one that is started again (Covered).          *)
(*                                                                         *)
(* Most steps of the process manager move one entry or one child and leave *)
(* the ports alone.  Harmless(s, t, D) is what they do, lemma by lemma, to *)
(* the entries of D; only Create and Delete need an argument about ports.  *)
(* Fewer(s, t) is what a step without a creation does, so that the entries *)
(* stay ones the tracker knows.                                            *)
(***************************************************************************)
EXTENDS Provider, Integers, SequenceTheorems, FiniteSetTheorems, WellFoundedInduction, TLAPS

-----------------------------------------------------------------------------
(* Numbers and sequences.                                                  *)

\* Induction, stated with a set: a set that has 0 and with each number the next one has
\* every natural number.
LEMMA NatSetInduction ==
  ASSUME NEW T, 0 \in T, \A n \in Nat : n \in T => n + 1 \in T
  PROVE  Nat \subseteq T
<1> SUFFICES ASSUME Nat \ T # {} PROVE FALSE
  OBVIOUS
<1>1. PICK x \in Nat \ T : \A y \in Nat \ T : ~ (<<y, x>> \in OpToRel(<, Nat))
  BY NatLessThanWellFounded, WFMin
<1>2. x # 0 /\ x - 1 \in Nat
  OBVIOUS
<1>3. <<x - 1, x>> \in OpToRel(<, Nat)
  BY <1>2 DEF OpToRel
<1>4. x - 1 \in T
  BY <1>1, <1>2, <1>3
<1>5. (x - 1) + 1 \in T
  BY <1>2, <1>4
<1>6. (x - 1) + 1 = x
  OBVIOUS
<1> QED BY <1>5, <1>6

\* Division with a remainder.
LEMMA DivMod ==
  ASSUME NEW a \in Nat, NEW b \in Nat \ {0}
  PROVE  a = b * (a \div b) + (a % b) /\ a \div b \in Nat /\ a % b \in 0..b-1
<1>1. a = b * (a \div b) + (a % b)
  BY SMT
<1>2. a % b \in 0..b-1
  BY SMT
<1>3. a \div b \in Int
  BY SMT
<1>4. a \div b \in Nat
  BY SMT
<1> QED BY <1>1, <1>2, <1>3, <1>4

\* A sequence without its i-th element.
Cut(q, i) == SubSeq(q, 1, i - 1) \o SubSeq(q, i + 1, Len(q))

\* What is behind the element moves one place to the front.
LEMMA CutOne ==
  ASSUME NEW S, NEW q \in Seq(S), NEW i \in 1..Len(q)
  PROVE  /\ Cut(q, i) \in Seq(S)
         /\ Len(Cut(q, i)) = Len(q) - 1
         /\ \A j \in 1..Len(q) - 1 : Cut(q, i)[j] = IF j < i THEN q[j] ELSE q[j + 1]
<1> DEFINE left == SubSeq(q, 1, i - 1)
           right == SubSeq(q, i + 1, Len(q))
<1>1. Len(q) \in Nat /\ i \in Int /\ i - 1 \in Int /\ i + 1 \in Int
  OBVIOUS
<1>2. \A j \in 1..i - 1 : q[j] \in S
  OBVIOUS
<1>3. /\ left \in Seq(S) /\ Len(left) = IF 1 <= i - 1 THEN i - 1 - 1 + 1 ELSE 0
      /\ \A j \in 1..i - 1 - 1 + 1 : left[j] = q[1 + j - 1]
  BY <1>1, <1>2, SubSeqProperties
<1>4. \A j \in i + 1..Len(q) : q[j] \in S
  OBVIOUS
<1>5. /\ right \in Seq(S)
      /\ Len(right) = IF i + 1 <= Len(q) THEN Len(q) - (i + 1) + 1 ELSE 0
      /\ \A j \in 1..Len(q) - (i + 1) + 1 : right[j] = q[i + 1 + j - 1]
  BY <1>1, <1>4, SubSeqProperties
<1> HIDE DEF left, right
<1>6. Len(left) = i - 1 /\ Len(right) = Len(q) - i
  BY <1>1, <1>3, <1>5
<1> DEFINE both == left \o right
<1>7. /\ both \in Seq(S) /\ Len(both) = Len(left) + Len(right)
      /\ \A j \in 1 .. Len(left) + Len(right) :
           both[j] = IF j <= Len(left) THEN left[j] ELSE right[j - Len(left)]
  BY <1>3, <1>5, ConcatProperties
<1> HIDE DEF both
<1>8. Len(left) + Len(right) = Len(q) - 1
  BY <1>1, <1>6
<1>9. ASSUME NEW j \in 1..Len(q) - 1
      PROVE  both[j] = IF j < i THEN q[j] ELSE q[j + 1]
  <2>1. both[j] = IF j <= i - 1 THEN left[j] ELSE right[j - (i - 1)]
    BY <1>6, <1>7, <1>8
  <2>2. CASE j < i
    <3>1. j \in 1..i - 1 - 1 + 1 /\ 1 + j - 1 = j /\ j <= i - 1
      BY <2>2
    <3> QED BY <2>1, <2>2, <3>1, <1>3
  <2>3. CASE ~(j < i)
    <3>1. j - (i - 1) \in 1..Len(q) - (i + 1) + 1 /\ i + 1 + (j - (i - 1)) - 1 = j + 1
          /\ ~(j <= i - 1)
      BY <2>3
    <3> QED BY <2>1, <2>3, <3>1, <1>5
  <2> QED BY <2>2, <2>3
<1>10. Cut(q, i) = both
  BY DEF Cut, left, right, both
<1> QED BY <1>7, <1>8, <1>9, <1>10

-----------------------------------------------------------------------------
(* Groups of ports.                                                        *)

Group(k) == SubSeq(AllPorts, k * ResourceCount + 1, (k + 1) * ResourceCount)
Groups == {Group(k) : k \in 0..Len(AllPorts) \div ResourceCount - 1}
Pools == Seq(Range(AllPorts))

\* A pool that is made of groups.
Aligned(pool) ==
  \E n \in Nat :
    /\ Len(pool) = n * ResourceCount
    /\ \A q \in 0..n - 1 :
         SubSeq(pool, q * ResourceCount + 1, (q + 1) * ResourceCount) \in Groups

LEMMA PortsType == AllPorts \in Pools /\ ResourceCount \in Nat \ {0}
<1>1. AllPorts \in Seq(Nat)
  BY ProviderAssumption
<1>2. AllPorts \in Seq(Range(AllPorts))
  BY <1>1, LenProperties DEF Range
<1> QED BY <1>2, ProcessManagerAssumption DEF Pools

LEMMA Times ==
  ASSUME NEW a \in Nat, NEW b \in Nat, a < b
  PROVE  /\ a * ResourceCount \in Nat
         /\ (a + 1) * ResourceCount = a * ResourceCount + ResourceCount
         /\ a * ResourceCount + ResourceCount <= b * ResourceCount
<1>1. ResourceCount \in Nat
  BY PortsType
<1> HIDE DEF Pools
<1>2. PICK c \in Nat : b = a + 1 + c
  <2>1. b = a + 1 + (b - a - 1) /\ b - a - 1 \in Nat
    OBVIOUS
  <2> QED BY <2>1
<1>3. b * ResourceCount = a * ResourceCount + ResourceCount + c * ResourceCount
  BY <1>1, <1>2
<1>4. c * ResourceCount >= 0
  BY <1>1
<1> QED BY <1>1, <1>3, <1>4

\* A part of a pool.
LEMMA Part ==
  ASSUME NEW pool \in Pools, NEW a \in Nat, NEW b \in Nat, b <= Len(pool)
  PROVE  /\ SubSeq(pool, a + 1, b) \in Pools
         /\ Len(SubSeq(pool, a + 1, b)) = IF a < b THEN b - a ELSE 0
         /\ \A i \in 1..b - a : SubSeq(pool, a + 1, b)[i] = pool[a + i]
<1>1. \A i \in a + 1..b : pool[i] \in Range(AllPorts)
  BY ElementOfSeq DEF Pools
<1>2. a + 1 \in Int /\ b \in Int
  OBVIOUS
<1>3. /\ SubSeq(pool, a + 1, b) \in Pools
      /\ Len(SubSeq(pool, a + 1, b)) = IF a + 1 <= b THEN b - (a + 1) + 1 ELSE 0
      /\ \A i \in 1 .. b - (a + 1) + 1 : SubSeq(pool, a + 1, b)[i] = pool[a + 1 + i - 1]
  BY <1>1, <1>2, SubSeqProperties DEF Pools
<1>4. \A i \in 1..b - a : SubSeq(pool, a + 1, b)[i] = pool[a + i]
  <2> TAKE i \in 1..b - a
  <2>1. i \in 1 .. b - (a + 1) + 1 /\ a + 1 + i - 1 = a + i
    OBVIOUS
  <2> QED BY <1>3, <2>1
<1> QED BY <1>3, <1>4

\* A part as long as a group.
LEMMA Block ==
  ASSUME NEW pool \in Pools, NEW a \in Nat, a + ResourceCount <= Len(pool)
  PROVE  /\ SubSeq(pool, a + 1, a + ResourceCount) \in Pools
         /\ Len(SubSeq(pool, a + 1, a + ResourceCount)) = ResourceCount
         /\ \A i \in 1..ResourceCount : SubSeq(pool, a + 1, a + ResourceCount)[i] = pool[a + i]
<1> DEFINE b == a + ResourceCount
<1>1. b \in Nat /\ b <= Len(pool) /\ b - a = ResourceCount /\ a < b
  BY PortsType
<1> HIDE DEF b
<1>2. /\ SubSeq(pool, a + 1, b) \in Pools
      /\ Len(SubSeq(pool, a + 1, b)) = IF a < b THEN b - a ELSE 0
      /\ \A i \in 1..b - a : SubSeq(pool, a + 1, b)[i] = pool[a + i]
  BY <1>1, Part
<1>3. /\ Len(SubSeq(pool, a + 1, b)) = ResourceCount
      /\ \A i \in 1..ResourceCount : SubSeq(pool, a + 1, b)[i] = pool[a + i]
  BY <1>1, <1>2
<1> QED BY <1>2, <1>3 DEF b

LEMMA AllPortsAligned == Aligned(AllPorts)
<1> DEFINE n == Len(AllPorts) \div ResourceCount
<1>1. Len(AllPorts) \in Nat /\ Len(AllPorts) % ResourceCount = 0
  BY ProviderAssumption
<1>2. n \in Nat /\ Len(AllPorts) = ResourceCount * n + 0
  BY <1>1, DivMod, PortsType
<1>3. Len(AllPorts) = n * ResourceCount
  BY <1>2, PortsType
<1>4. \A q \in 0..n - 1 :
        SubSeq(AllPorts, q * ResourceCount + 1, (q + 1) * ResourceCount) \in Groups
  BY DEF Groups, Group
<1> QED BY <1>2, <1>3, <1>4 DEF Aligned

LEMMA TakeAligned ==
  ASSUME NEW pool \in Pools, Aligned(pool), Len(pool) >= ResourceCount
  PROVE  /\ SubSeq(pool, 1, ResourceCount) \in Groups
         /\ Aligned(SubSeq(pool, ResourceCount + 1, Len(pool)))
<1> DEFINE R == ResourceCount
           rest == SubSeq(pool, R + 1, Len(pool))
<1>1. R \in Nat \ {0}
  BY PortsType
<1>2. PICK n \in Nat :
        /\ Len(pool) = n * R
        /\ \A q \in 0..n - 1 : SubSeq(pool, q * R + 1, (q + 1) * R) \in Groups
  BY DEF Aligned
<1>3. n # 0
  BY <1>1, <1>2
<1>4. 0 * R + 1 = 1 /\ (0 + 1) * R = R
  BY <1>1
<1>5. SubSeq(pool, 1, R) \in Groups
  <2>1. 0 \in 0..n - 1
    BY <1>3
  <2>2. SubSeq(pool, 0 * R + 1, (0 + 1) * R) \in Groups
    BY <1>2, <2>1
  <2> QED BY <2>2, <1>4
<1>6. Len(pool) \in Nat
  BY DEF Pools
<1>7. /\ rest \in Pools
      /\ Len(rest) = IF R < Len(pool) THEN Len(pool) - R ELSE 0
      /\ \A i \in 1..Len(pool) - R : rest[i] = pool[R + i]
  BY <1>1, <1>6, Part
<1>8. n - 1 \in Nat /\ Len(rest) = (n - 1) * R
  <2>1. (n - 1) * R = n * R - R
    BY <1>1
  <2> QED BY <1>1, <1>2, <1>3, <1>7, <2>1
<1>9. ASSUME NEW q \in 0..(n - 1) - 1
      PROVE  SubSeq(rest, q * R + 1, (q + 1) * R) \in Groups
  <2>1. q \in Nat /\ q < n - 1 /\ q + 1 \in Nat /\ q + 1 < n /\ q + 1 \in 0..n - 1
    BY <1>3
  <2>2. /\ q * R \in Nat /\ (q + 1) * R = q * R + R
        /\ q * R + R <= (n - 1) * R
    BY <2>1, <1>8, Times
  <2>3. /\ (q + 1) * R \in Nat /\ (q + 1 + 1) * R = (q + 1) * R + R
        /\ (q + 1) * R + R <= n * R
    BY <2>1, Times
  <2> DEFINE a == q * R
             left == SubSeq(rest, a + 1, a + R)
             right == SubSeq(pool, a + R + 1, a + R + R)
  <2>4. a \in Nat /\ a + R \in Nat /\ a + R + R \in Nat /\ a + R <= Len(rest)
        /\ a + R + R <= Len(pool)
    BY <2>2, <2>3, <1>1, <1>2, <1>8
  <2> HIDE DEF a, rest, R
  <2>5. /\ left \in Pools /\ Len(left) = R
        /\ \A i \in 1..R : left[i] = rest[a + i]
    BY <1>7, <2>4, Block DEF R
  <2>6. /\ right \in Pools /\ Len(right) = R
        /\ \A i \in 1..R : right[i] = pool[a + R + i]
    BY <2>4, Block DEF R
  <2>7. \A i \in 1..R : left[i] = right[i]
    <3> TAKE i \in 1..R
    <3>1. a + i \in 1..Len(pool) - R /\ R + (a + i) = a + R + i
      BY <1>1, <1>6, <2>4
    <3> QED BY <1>7, <2>5, <2>6, <3>1
  <2>8. left = right
    BY <2>5, <2>6, <2>7, SeqEqual DEF Pools
  <2>9. right \in Groups
    <3>1. SubSeq(pool, (q + 1) * R + 1, (q + 1 + 1) * R) \in Groups
      BY <1>2, <2>1
    <3> QED BY <3>1, <2>2, <2>3 DEF a
  <2> QED BY <2>8, <2>9, <2>2 DEF a
<1> HIDE DEF rest
<1>10. Aligned(rest)
  BY <1>8, <1>9 DEF Aligned
<1> QED BY <1>5, <1>10 DEF rest

LEMMA GroupTypes ==
  \A g \in Groups : g \in Pools /\ Len(g) = ResourceCount /\ g \in [1..ResourceCount -> Range(AllPorts)]
<1> SUFFICES ASSUME NEW k \in 0..Len(AllPorts) \div ResourceCount - 1
             PROVE  /\ Group(k) \in Pools /\ Len(Group(k)) = ResourceCount
                    /\ Group(k) \in [1..ResourceCount -> Range(AllPorts)]
  BY DEF Groups
<1> DEFINE R == ResourceCount
           n == Len(AllPorts) \div R
<1>1. Len(AllPorts) \in Nat /\ Len(AllPorts) % R = 0 /\ R \in Nat \ {0}
  BY ProviderAssumption, PortsType
<1>2. n \in Nat /\ Len(AllPorts) = R * n + 0
  BY <1>1, DivMod
<1>3. Len(AllPorts) = n * R
  BY <1>1, <1>2
<1>4. k \in Nat /\ k < n
  BY <1>2
<1> HIDE DEF n
<1>5. k * R \in Nat /\ (k + 1) * R = k * R + R /\ k * R + R <= n * R
  BY <1>2, <1>4, Times
<1> DEFINE a == k * R
<1>6. a \in Nat /\ a + R \in Nat /\ a + R <= Len(AllPorts) /\ a + R - a = R /\ a < a + R
  BY <1>1, <1>3, <1>5
<1> HIDE DEF a, R
<1>7. /\ SubSeq(AllPorts, a + 1, a + R) \in Pools
      /\ Len(SubSeq(AllPorts, a + 1, a + R)) = R
  BY <1>6, PortsType, Block DEF R
<1>8. Group(k) \in Pools /\ Len(Group(k)) = R
  BY <1>5, <1>6, <1>7 DEF Group, R, a
<1>9. Group(k) \in [1..R -> Range(AllPorts)]
  BY <1>8, LenProperties DEF Pools
<1> QED BY <1>8, <1>9 DEF R

LEMMA GiveAligned ==
  ASSUME NEW pool \in Pools, Aligned(pool), NEW g \in Groups
  PROVE  pool \o g \in Pools /\ Aligned(pool \o g)
<1> DEFINE R == ResourceCount
           all == pool \o g
<1>1. R \in Nat \ {0} /\ g \in Pools /\ Len(g) = R /\ Len(pool) \in Nat
  BY PortsType, GroupTypes DEF Pools
<1>2. PICK n \in Nat :
        /\ Len(pool) = n * R
        /\ \A q \in 0..n - 1 : SubSeq(pool, q * R + 1, (q + 1) * R) \in Groups
  BY DEF Aligned
<1>3. /\ all \in Pools /\ Len(all) = Len(pool) + R
      /\ \A i \in 1..Len(pool) + R : all[i] = IF i <= Len(pool) THEN pool[i] ELSE g[i - Len(pool)]
  BY <1>1, ConcatProperties DEF Pools
<1>4. n + 1 \in Nat /\ Len(all) = (n + 1) * R
  BY <1>1, <1>2, <1>3
<1>5. ASSUME NEW q \in 0..(n + 1) - 1
      PROVE  SubSeq(all, q * R + 1, (q + 1) * R) \in Groups
  <2> DEFINE a == q * R
             part == SubSeq(all, a + 1, a + R)
  <2>1. q \in Nat /\ q < n + 1
    OBVIOUS
  <2>2. a \in Nat /\ (q + 1) * R = a + R /\ a + R <= Len(all)
    BY <1>4, <2>1, Times
  <2> HIDE DEF a, all, R
  <2>3. /\ part \in Pools /\ Len(part) = R
        /\ \A i \in 1..R : part[i] = all[a + i]
    BY <1>3, <2>2, Block DEF R
  <2>4. CASE q < n
    <3>1. a + R <= Len(pool)
      BY <1>2, <2>1, <2>4, Times DEF a, R
    <3> DEFINE old == SubSeq(pool, a + 1, a + R)
    <3>2. /\ old \in Pools /\ Len(old) = R /\ \A i \in 1..R : old[i] = pool[a + i]
      BY <2>2, <3>1, Block DEF R
    <3>3. \A i \in 1..R : part[i] = old[i]
      <4> TAKE i \in 1..R
      <4>1. a + i \in 1..Len(pool) + R /\ a + i <= Len(pool)
        BY <1>1, <2>2, <3>1
      <4>2. all[a + i] = pool[a + i]
        BY <1>3, <4>1
      <4> QED BY <2>3, <3>2, <4>2
    <3>4. part = old
      BY <2>3, <3>2, <3>3, SeqEqual DEF Pools
    <3>5. old \in Groups
      <4>1. q \in 0..n - 1
        BY <2>1, <2>4
      <4>2. SubSeq(pool, q * R + 1, (q + 1) * R) \in Groups
        BY <1>2, <4>1 DEF R
      <4> QED BY <4>2, <2>2 DEF a
    <3> QED BY <3>4, <3>5, <2>2 DEF a
  <2>5. CASE q = n
    <3>1. a = Len(pool)
      BY <1>2, <2>5 DEF a, R
    <3>2. \A i \in 1..R : part[i] = g[i]
      <4> TAKE i \in 1..R
      <4>1. a + i \in 1..Len(pool) + R /\ ~(a + i <= Len(pool)) /\ (a + i) - Len(pool) = i
        BY <1>1, <2>2, <3>1
      <4>2. all[a + i] = g[i]
        BY <1>3, <4>1
      <4> QED BY <2>3, <4>2
    <3>3. part = g
      BY <1>1, <2>3, <3>2, SeqEqual DEF Pools, R
    <3> QED BY <3>3, <2>2 DEF a
  <2>6. q < n \/ q = n
    BY <2>1
  <2> QED BY <2>4, <2>5, <2>6
<1> HIDE DEF all
<1>6. Aligned(all)
  BY <1>4, <1>5 DEF Aligned
<1> QED BY <1>3, <1>6 DEF all

-----------------------------------------------------------------------------
(* What a step of the process manager leaves alone. *)

HasWorker(s, e) ==
  \E i \in DOMAIN s.children :
    s.children[i].device = e /\ s.children[i].phase \in {"running", "retry", "booting"}
Covered(s, e) == Has(s, e) /\ s.process[e].state = "running" => HasWorker(s, e)

\* Nobody awaits the registration of a device without an entry.
Idle(s, e) == Has(s, e) \/ s.tasks[e]["register"] = 0

\* The entries of the devices of D are the same in s and in t as to their ports; none
\* has become late, and none has lost the worker it runs.
Keeps(s, t, D) ==
  \A e \in D :
    /\ Has(t, e) <=> Has(s, e)
    /\ Has(s, e) => t.process[e].ports = s.process[e].ports
    /\ Has(s, e) /\ ~s.process[e].late => ~t.process[e].late
    /\ Covered(s, e) => Covered(t, e)
    /\ Idle(s, e) => Idle(t, e)

LEMMA KeepsTwice ==
  ASSUME NEW s, NEW t, NEW u, NEW D, NEW E, Keeps(s, t, D), Keeps(t, u, E)
  PROVE  Keeps(s, u, D \cap E)
BY Zenon DEF Keeps

\* A record of the same process map and children.
LEMMA KeepsTasks ==
  ASSUME NEW s, NEW t, NEW D, t.process = s.process, t.children = s.children,
         \A e \in D : Idle(s, e) => Idle(t, e)
  PROVE  Keeps(s, t, D)
BY DEF Keeps, Covered, Has, HasWorker

LEMMA StateFields ==
  ASSUME NEW s \in States
  PROVE  /\ s.process \in [Devices -> Entry \cup {NoProcess}]
         /\ s.children \in Seq(Child) /\ DOMAIN s.children = 1..Len(s.children)
         /\ Len(s.children) \in Nat
         /\ s.pool \in Pools
         /\ s.tasks \in [Devices -> [Awaits -> Nat]]
BY LenProperties DEF States, Pools

LEMMA EntryFields ==
  ASSUME NEW s \in States, NEW d \in Devices, Has(s, d)
  PROVE  s.process[d] \in Entry
BY StateFields DEF Has

EntryState == {"waiting", "starting", "running"}

LEMMA SetStateEffect ==
  ASSUME NEW s \in States, NEW d \in Devices, Has(s, d), NEW state \in EntryState
  PROVE  LET t == SetState(s, d, state)
         IN  /\ t \in States /\ t.children = s.children /\ t.pool = s.pool /\ t.tasks = s.tasks
             /\ t.process = [s.process EXCEPT ![d] = t.process[d]]
             /\ Has(t, d) /\ t.process[d].state = state /\ ~t.process[d].late
             /\ t.process[d].ports = s.process[d].ports
             /\ t.process[d].register = s.process[d].register
<1> DEFINE t == SetState(s, d, state)
           entry == [s.process[d] EXCEPT !.state = state, !.late = FALSE]
<1>1. s.process[d] \in Entry
  BY EntryFields
<1>2. /\ entry \in Entry /\ entry.state = state /\ entry.late = FALSE
      /\ entry.ports = s.process[d].ports /\ entry.register = s.process[d].register
  BY <1>1 DEF Entry, EntryState
<1>3. t = [s EXCEPT !.process = [@ EXCEPT ![d] = entry]]
  BY <1>1 DEF SetState, Entry, States
<1> HIDE DEF entry, t
<1>4. t \in States /\ t.children = s.children /\ t.pool = s.pool /\ t.tasks = s.tasks
  BY <1>2, <1>3 DEF States
<1>5. t.process = [s.process EXCEPT ![d] = entry] /\ t.process[d] = entry
  BY <1>3, StateFields DEF States
<1> QED BY <1>2, <1>4, <1>5, EntryAssumption DEF Has, t

LEMMA FunctionIsSeq ==
  ASSUME NEW S, NEW n \in Nat, NEW f \in [1..n -> S]
  PROVE  f \in Seq(S) /\ Len(f) = n /\ DOMAIN f = 1..n
OBVIOUS

\* The children of a state after each has been changed, but for the device it is of.
LEMMA ChangeChildren ==
  ASSUME NEW s \in States, NEW c \in [DOMAIN s.children -> Child]
  PROVE  /\ c \in Seq(Child) /\ Len(c) = Len(s.children) /\ DOMAIN c = DOMAIN s.children
         /\ [s EXCEPT !.children = c] \in States
         /\ [s EXCEPT !.children = c].children = c
         /\ [s EXCEPT !.children = c].process = s.process
         /\ [s EXCEPT !.children = c].pool = s.pool
         /\ [s EXCEPT !.children = c].tasks = s.tasks
<1>1. c \in Seq(Child) /\ Len(c) = Len(s.children) /\ DOMAIN c = DOMAIN s.children
  BY StateFields, FunctionIsSeq
<1> QED BY <1>1 DEF States

LEMMA ChildFields ==
  ASSUME NEW s \in States, NEW i \in DOMAIN s.children
  PROVE  s.children[i] \in Child
BY StateFields

LEMMA SpawnEffect ==
  ASSUME NEW s \in States, NEW d \in Devices, Has(s, d), NEW n \in Nat, NEW awaited \in BOOLEAN
  PROVE  LET t == Spawn(s, d, n, awaited)
         IN  /\ t \in States /\ t.pool = s.pool /\ t.tasks = s.tasks
             /\ t.process = [s.process EXCEPT ![d] = t.process[d]]
             /\ Has(t, d) /\ t.process[d].state = "starting" /\ ~t.process[d].late
             /\ t.process[d].ports = s.process[d].ports
             /\ t.process[d].register = s.process[d].register
             /\ \A e : HasWorker(s, e) => HasWorker(t, e)
<1> DEFINE t == Spawn(s, d, n, awaited)
           entry == [s.process[d] EXCEPT !.state = "starting", !.late = FALSE]
           unheld(c) == IF c.device = d THEN [c EXCEPT !.held = FALSE] ELSE c
           old == [i \in DOMAIN s.children |-> unheld(s.children[i])]
           new == [i \in 1..n |-> [device |-> d, phase |-> "booting", awaited |-> awaited,
                                   held |-> i = n]]
<1>1. s.process[d] \in Entry
  BY EntryFields
<1>2. /\ entry \in Entry /\ entry.state = "starting" /\ entry.late = FALSE
      /\ entry.ports = s.process[d].ports /\ entry.register = s.process[d].register
  BY <1>1 DEF Entry
<1>3. t = [s EXCEPT !.process = [@ EXCEPT ![d] = entry], !.children = old \o new]
  BY <1>1 DEF Spawn, Entry, States
<1>4. \A c \in Child : unheld(c) \in Child /\ unheld(c).device = c.device /\ unheld(c).phase = c.phase
  BY DEF Child
<1>5. new \in [1..n -> Child]
  BY DEF Child, Phase
<1>6. old \in [DOMAIN s.children -> Child]
  BY <1>4, ChildFields
<1>7. \A i \in DOMAIN s.children : /\ old[i].device = s.children[i].device
                                   /\ old[i].phase = s.children[i].phase
  BY <1>4, ChildFields
<1> HIDE DEF entry, t, old, new, unheld
<1>8. new \in Seq(Child) /\ Len(new) = n
  BY <1>5, FunctionIsSeq
<1>9. old \in Seq(Child) /\ Len(old) = Len(s.children)
  BY <1>6, ChangeChildren
<1> DEFINE all == old \o new
<1>10. all \in Seq(Child) /\ Len(all) = Len(s.children) + n /\ \A i \in DOMAIN s.children : all[i] = old[i]
  <2>1. /\ all \in Seq(Child) /\ Len(all) = Len(old) + Len(new)
        /\ \A i \in 1 .. Len(old) + Len(new) : all[i] = IF i <= Len(old) THEN old[i] ELSE new[i - Len(old)]
    BY <1>8, <1>9, ConcatProperties
  <2>2. Len(s.children) \in Nat /\ DOMAIN s.children = 1..Len(s.children)
    BY StateFields
  <2>3. \A i \in DOMAIN s.children : i \in 1 .. Len(old) + Len(new) /\ i <= Len(old)
    BY <2>2, <1>8, <1>9
  <2> QED BY <1>8, <1>9, <2>1, <2>3
<1> HIDE DEF all
<1>11. t = [s EXCEPT !.process = [@ EXCEPT ![d] = entry], !.children = all]
  BY <1>3 DEF all
<1>12. t \in States /\ t.pool = s.pool /\ t.tasks = s.tasks /\ t.children = all
  BY <1>2, <1>10, <1>11 DEF States
<1>13. t.process = [s.process EXCEPT ![d] = entry] /\ t.process[d] = entry
  BY <1>11, StateFields DEF States
<1>14. ASSUME NEW e, HasWorker(s, e)
       PROVE  HasWorker(t, e)
  <2>1. PICK i \in DOMAIN s.children :
          s.children[i].device = e /\ s.children[i].phase \in {"running", "retry", "booting"}
    BY <1>14 DEF HasWorker
  <2>2. i \in DOMAIN all
    BY <1>10, StateFields
  <2>3. all[i].device = e /\ all[i].phase \in {"running", "retry", "booting"}
    BY <1>7, <1>10, <2>1
  <2> QED BY <1>12, <2>2, <2>3 DEF HasWorker
<1> QED BY <1>2, <1>12, <1>13, <1>14, EntryAssumption DEF Has, t

LEMMA DropChild ==
  ASSUME NEW S, NEW q \in Seq(S), NEW i \in 1..Len(q)
  PROVE  /\ RemoveAt(q, i) \in Seq(S)
         /\ Len(RemoveAt(q, i)) = Len(q) - 1
         /\ \A j \in 1..Len(q) - 1 : RemoveAt(q, i)[j] = IF j < i THEN q[j] ELSE q[j + 1]
<1>1. RemoveAt(q, i) = Cut(q, i)
  BY DEF RemoveAt, Cut
<1> QED BY <1>1, CutOne

\* A child whose end is seen takes no other with it.
LEMMA DropEffect ==
  ASSUME NEW s \in States, NEW i \in DOMAIN s.children
  PROVE  LET t == Drop(s, i)
         IN  /\ t \in States /\ t.pool = s.pool /\ t.tasks = s.tasks /\ t.process = s.process
             /\ \A j \in DOMAIN s.children \ {i} :
                  \E k \in DOMAIN t.children : t.children[k] = s.children[j]
<1> DEFINE q == s.children
           r == RemoveAt(q, i)
           t == Drop(s, i)
<1>1. q \in Seq(Child) /\ DOMAIN q = 1..Len(q) /\ Len(q) \in Nat
  BY StateFields
<1>2. /\ r \in Seq(Child) /\ Len(r) = Len(q) - 1
      /\ \A j \in 1..Len(q) - 1 : r[j] = IF j < i THEN q[j] ELSE q[j + 1]
  BY <1>1, DropChild
<1>3. t = [s EXCEPT !.children = r]
  BY DEF Drop
<1> HIDE DEF r, t
<1>4. t \in States /\ t.pool = s.pool /\ t.tasks = s.tasks /\ t.process = s.process /\ t.children = r
  BY <1>2, <1>3 DEF States
<1>5. ASSUME NEW j \in DOMAIN q \ {i}
      PROVE  \E k \in DOMAIN r : r[k] = q[j]
  <2>1. DOMAIN r = 1..Len(q) - 1
    BY <1>2
  <2> HIDE DEF q
  <2>2. CASE j < i
    BY <1>1, <1>2, <2>1, <2>2 DEF q
  <2>3. CASE ~(j < i)
    <3>1. j - 1 \in 1..Len(q) - 1 /\ ~(j - 1 < i) /\ j - 1 + 1 = j
      BY <1>1, <2>3 DEF q
    <3>2. r[j - 1] = q[j]
      BY <1>2, <3>1
    <3> QED BY <2>1, <3>1, <3>2
  <2> QED BY <2>2, <2>3
<1> QED BY <1>4, <1>5 DEF t

\* A child that is dropped is no loss if it was dying.
LEMMA DropKeeps ==
  ASSUME NEW s \in States, NEW i \in DOMAIN s.children, NEW e,
         s.children[i].phase = "dying" \/ s.children[i].device # e, HasWorker(s, e)
  PROVE  HasWorker(Drop(s, i), e)
<1>1. PICK j \in DOMAIN s.children :
        s.children[j].device = e /\ s.children[j].phase \in {"running", "retry", "booting"}
  BY DEF HasWorker
<1>2. j \in DOMAIN s.children \ {i}
  BY <1>1
<1>3. PICK k \in DOMAIN Drop(s, i).children : Drop(s, i).children[k] = s.children[j]
  BY <1>2, DropEffect
<1> QED BY <1>1, <1>3 DEF HasWorker

\* One child changes, but for its device.
LEMMA ChangeChild ==
  ASSUME NEW s \in States, NEW i \in DOMAIN s.children, NEW c \in Child,
         c.device = s.children[i].device, c.phase \in {"running", "retry", "booting"}
  PROVE  LET t == [s EXCEPT !.children[i] = c]
         IN  /\ t \in States /\ t.pool = s.pool /\ t.tasks = s.tasks /\ t.process = s.process
             /\ HasWorker(t, c.device)
             /\ \A e : HasWorker(s, e) => HasWorker(t, e)
<1> DEFINE q == [s.children EXCEPT ![i] = c]
           t == [s EXCEPT !.children[i] = c]
<1>1. /\ q \in [DOMAIN s.children -> Child] /\ q[i] = c
      /\ \A j \in DOMAIN s.children \ {i} : q[j] = s.children[j]
  BY StateFields, ChildFields
<1>2. t = [s EXCEPT !.children = q]
  BY DEF States
<1> HIDE DEF q, t
<1>3. /\ t \in States /\ t.pool = s.pool /\ t.tasks = s.tasks /\ t.process = s.process
      /\ t.children = q /\ DOMAIN q = DOMAIN s.children
  BY <1>1, <1>2, ChangeChildren
<1>4. HasWorker(t, c.device)
  BY <1>1, <1>3 DEF HasWorker
<1>5. \A e : HasWorker(s, e) => HasWorker(t, e)
  BY <1>1, <1>3 DEF HasWorker
<1> QED BY <1>3, <1>4, <1>5 DEF t

\* What every step but a creation and a removal does.
Harmless(s, t, D) == t \in States /\ t.pool = s.pool /\ Keeps(s, t, D)

LEMMA HarmlessTwice ==
  ASSUME NEW s, NEW t, NEW u, NEW D, Harmless(s, t, D), Harmless(t, u, D)
  PROVE  Harmless(s, u, D)
<1>1. Keeps(s, u, D \cap D)
  BY KeepsTwice DEF Harmless
<1>2. D \cap D = D
  OBVIOUS
<1> QED BY <1>1, <1>2 DEF Harmless

LEMMA HarmlessSame == ASSUME NEW s \in States, NEW D PROVE Harmless(s, s, D)
BY DEF Harmless, Keeps

LEMMA HarmlessEntry ==
  ASSUME NEW s \in States, NEW t \in States, NEW d \in Devices, t.pool = s.pool,
         t.tasks = s.tasks, t.process = [s.process EXCEPT ![d] = t.process[d]], Has(s, d), Has(t, d),
         t.process[d].ports = s.process[d].ports, ~s.process[d].late => ~t.process[d].late,
         NEW D \in SUBSET Devices,
         d \in D /\ Covered(s, d) => t.process[d].state # "running" \/ HasWorker(t, d),
         \A e \in D \ {d} : HasWorker(s, e) => HasWorker(t, e)
  PROVE  Harmless(s, t, D)
<1>1. ASSUME NEW e \in D \ {d} PROVE t.process[e] = s.process[e]
  BY StateFields
<1>2. ASSUME NEW e \in D
      PROVE  /\ Has(t, e) <=> Has(s, e)
             /\ Has(s, e) => t.process[e].ports = s.process[e].ports
             /\ Has(s, e) /\ ~s.process[e].late => ~t.process[e].late
             /\ Covered(s, e) => Covered(t, e)
             /\ Idle(s, e) => Idle(t, e)
  <2>1. CASE e = d
    BY <2>1 DEF Covered, Idle
  <2>2. CASE e # d
    <3>1. t.process[e] = s.process[e] /\ (HasWorker(s, e) => HasWorker(t, e))
      BY <1>1, <2>2
    <3> QED BY <3>1 DEF Covered, Has, Idle
  <2> QED BY <2>1, <2>2
<1> QED BY <1>2 DEF Harmless, Keeps

\* The same for a step that changes the children alone.
LEMMA HarmlessChildren ==
  ASSUME NEW s, NEW t \in States, t.pool = s.pool, t.process = s.process, t.tasks = s.tasks,
         NEW D \in SUBSET Devices,
         \A e \in D : Has(s, e) /\ HasWorker(s, e) => HasWorker(t, e)
  PROVE  Harmless(s, t, D)
<1>1. ASSUME NEW e \in D
      PROVE  /\ Has(t, e) <=> Has(s, e)
             /\ Has(s, e) => t.process[e].ports = s.process[e].ports
             /\ Has(s, e) /\ ~s.process[e].late => ~t.process[e].late
             /\ Covered(s, e) => Covered(t, e)
             /\ Idle(s, e) => Idle(t, e)
  BY DEF Has, Covered, Idle
<1> QED BY <1>1 DEF Harmless, Keeps

LEMMA SpawnHarmless ==
  ASSUME NEW s \in States, NEW d \in Devices, Has(s, d), NEW n \in Nat, NEW awaited \in BOOLEAN
  PROVE  Harmless(s, Spawn(s, d, n, awaited), Devices)
<1> DEFINE t == Spawn(s, d, n, awaited)
<1>1. /\ t \in States /\ t.pool = s.pool /\ t.tasks = s.tasks
      /\ t.process = [s.process EXCEPT ![d] = t.process[d]]
      /\ Has(t, d) /\ t.process[d].state = "starting" /\ ~t.process[d].late
      /\ t.process[d].ports = s.process[d].ports
      /\ \A e : HasWorker(s, e) => HasWorker(t, e)
  BY SpawnEffect
<1> HIDE DEF t
<1>2. Harmless(s, t, Devices)
  BY <1>1, HarmlessEntry
<1> QED BY <1>2 DEF t

LEMMA ReadyHarmless ==
  ASSUME NEW s \in States, NEW i \in DOMAIN s.children
  PROVE  Harmless(s, Ready(s, i), Devices)
<1> DEFINE d == s.children[i].device
           c == [s.children[i] EXCEPT !.phase = "running", !.awaited = FALSE]
           t == [s EXCEPT !.children[i] = c]
           u == SetState(t, d, "running")
<1>1. s.children[i] \in Child /\ d \in Devices
  BY ChildFields DEF Child
<1>2. c \in Child /\ c.device = d /\ c.phase = "running"
  BY <1>1 DEF Child, Phase
<1>3. Ready(s, i) = IF Has(s, d) THEN u ELSE t
  <2>1. t = [s EXCEPT !.children[i].phase = "running", !.children[i].awaited = FALSE]
    BY StateFields, <1>1 DEF States, Child
  <2> QED BY <2>1 DEF Ready
<1> HIDE DEF c, d, t, u
<1>4. /\ t \in States /\ t.pool = s.pool /\ t.tasks = s.tasks /\ t.process = s.process
      /\ HasWorker(t, d) /\ \A e : HasWorker(s, e) => HasWorker(t, e)
  BY <1>2, ChangeChild DEF t, d
<1>5. Harmless(s, t, Devices)
  BY <1>4, HarmlessChildren
<1>6. CASE ~Has(s, d)
  BY <1>3, <1>5, <1>6
<1>7. CASE Has(s, d)
  <2>1. Has(t, d)
    BY <1>4, <1>7 DEF Has
  <2>2. /\ u \in States /\ u.children = t.children /\ u.pool = t.pool /\ u.tasks = t.tasks
        /\ u.process = [t.process EXCEPT ![d] = u.process[d]]
        /\ Has(u, d) /\ ~u.process[d].late /\ u.process[d].ports = t.process[d].ports
    <3>1. "running" \in EntryState
      BY DEF EntryState
    <3> QED BY <1>1, <1>4, <2>1, <3>1, SetStateEffect DEF u
  <2>3. \A e : HasWorker(t, e) => HasWorker(u, e)
    BY <2>2 DEF HasWorker
  <2>4. HasWorker(u, d)
    BY <1>4, <2>3
  <2>5. Harmless(t, u, Devices)
    <3>1. /\ d \in Devices /\ t \in States /\ u \in States /\ u.pool = t.pool /\ u.tasks = t.tasks
          /\ u.process = [t.process EXCEPT ![d] = u.process[d]]
          /\ Has(t, d) /\ Has(u, d) /\ u.process[d].ports = t.process[d].ports
      BY <1>1, <1>4, <2>1, <2>2
    <3>2. /\ ~t.process[d].late => ~u.process[d].late
          /\ d \in Devices /\ Covered(t, d) => u.process[d].state # "running" \/ HasWorker(u, d)
          /\ \A e \in Devices \ {d} : HasWorker(t, e) => HasWorker(u, e)
      BY <2>2, <2>3, <2>4
    <3> QED BY <3>1, <3>2, HarmlessEntry
  <2>6. Harmless(s, u, Devices)
    BY <1>5, <2>5, HarmlessTwice
  <2> QED BY <1>3, <1>7, <2>6
<1> QED BY <1>6, <1>7

LEMMA RetryHarmless ==
  ASSUME NEW s \in States, NEW i \in DOMAIN s.children
  PROVE  Harmless(s, Retry(s, i), Devices)
<1> DEFINE d == s.children[i].device
           c == [s.children[i] EXCEPT !.phase = "retry", !.held = FALSE]
           t == [s EXCEPT !.children[i] = c]
           u == Drop(s, i)
<1>1. s.children[i] \in Child /\ d \in Devices
  BY ChildFields DEF Child
<1>2. c \in Child /\ c.device = d /\ c.phase = "retry"
  BY <1>1 DEF Child, Phase
<1>3. Retry(s, i) = IF Has(s, d) THEN t ELSE u
  <2>1. t = [s EXCEPT !.children[i].phase = "retry", !.children[i].held = FALSE]
    BY StateFields, <1>1 DEF States, Child
  <2> QED BY <2>1 DEF Retry
<1> HIDE DEF c, t, u
<1>4. Harmless(s, t, Devices)
  <2>1. /\ t \in States /\ t.pool = s.pool /\ t.tasks = s.tasks /\ t.process = s.process
        /\ \A e : HasWorker(s, e) => HasWorker(t, e)
    BY <1>2, ChangeChild DEF t
  <2> QED BY <2>1, HarmlessChildren
<1>5. CASE ~Has(s, d)
  <2>1. u \in States /\ u.pool = s.pool /\ u.tasks = s.tasks /\ u.process = s.process
    BY DropEffect DEF u
  <2>2. \A e \in Devices : Has(s, e) /\ HasWorker(s, e) => HasWorker(u, e)
    BY <1>5, DropKeeps DEF u
  <2>3. Harmless(s, u, Devices)
    BY <2>1, <2>2, HarmlessChildren
  <2> QED BY <1>3, <1>5, <2>3
<1> QED BY <1>3, <1>4, <1>5

\* A child that was dying, or whose device has no entry.
LEMMA DropHarmless ==
  ASSUME NEW s \in States, NEW i \in DOMAIN s.children,
         s.children[i].phase = "dying" \/ ~Has(s, s.children[i].device)
  PROVE  Harmless(s, Drop(s, i), Devices)
<1> DEFINE u == Drop(s, i)
<1>1. u \in States /\ u.pool = s.pool /\ u.tasks = s.tasks /\ u.process = s.process
  BY DropEffect
<1>2. \A e \in Devices : Has(s, e) /\ HasWorker(s, e) => HasWorker(u, e)
  BY DropKeeps
<1> HIDE DEF u
<1>3. Harmless(s, u, Devices)
  BY <1>1, <1>2, HarmlessChildren
<1> QED BY <1>3 DEF u

LEMMA RestartHarmless ==
  ASSUME NEW s \in States, NEW i \in DOMAIN s.children
  PROVE  Harmless(s, Restart(s, i), Devices)
<1> DEFINE d == s.children[i].device
           t == Drop(s, i)
           awaited == s.children[i].awaited
           u == Spawn(t, d, 1, awaited)
<1>1. s.children[i] \in Child /\ d \in Devices /\ awaited \in BOOLEAN
  BY ChildFields DEF Child
<1>2. t \in States /\ t.pool = s.pool /\ t.tasks = s.tasks /\ t.process = s.process
  BY DropEffect
<1>3. Restart(s, i) = IF Has(s, d) THEN u ELSE t
  BY DEF Restart
<1> HIDE DEF t, u
<1>4. CASE ~Has(s, d)
  BY <1>3, <1>4, DropHarmless DEF t
<1>5. CASE Has(s, d)
  <2>1. Has(t, d)
    BY <1>2, <1>5 DEF Has
  <2>2. /\ u \in States /\ u.pool = t.pool /\ u.tasks = t.tasks
        /\ u.process = [t.process EXCEPT ![d] = u.process[d]]
        /\ Has(u, d) /\ u.process[d].state = "starting" /\ ~u.process[d].late
        /\ u.process[d].ports = t.process[d].ports
        /\ \A e : HasWorker(t, e) => HasWorker(u, e)
    BY <1>1, <1>2, <2>1, SpawnEffect DEF u
  <2>3. \A e \in Devices \ {d} : HasWorker(s, e) => HasWorker(u, e)
    BY <2>2, DropKeeps DEF t
  <2>4. Harmless(s, u, Devices)
    BY <1>1, <1>2, <1>5, <2>2, <2>3, HarmlessEntry
  <2> QED BY <1>3, <1>5, <2>4
<1> QED BY <1>4, <1>5

TaskCounts == [Devices -> [Awaits -> Nat]]

LEMMA TasksHarmless ==
  ASSUME NEW s \in States, NEW tasks \in TaskCounts,
         \A e \in Devices : Idle(s, e) => Has(s, e) \/ tasks[e]["register"] = 0
  PROVE  /\ Harmless(s, [s EXCEPT !.tasks = tasks], Devices)
         /\ [s EXCEPT !.tasks = tasks].process = s.process
         /\ [s EXCEPT !.tasks = tasks].tasks = tasks
<1> DEFINE t == [s EXCEPT !.tasks = tasks]
<1>1. /\ t \in States /\ t.pool = s.pool /\ t.process = s.process /\ t.children = s.children
      /\ t.tasks = tasks
  BY DEF States, TaskCounts
<1> HIDE DEF t
<1>2. \A e \in Devices : Idle(s, e) => Idle(t, e)
  BY <1>1 DEF Idle, Has
<1>3. Harmless(s, t, Devices)
  BY <1>1, <1>2, KeepsTasks DEF Harmless
<1> QED BY <1>1, <1>3 DEF t

LEMMA AwaitHarmless ==
  ASSUME NEW s \in States, NEW d \in Devices, NEW a \in Awaits, Has(s, d)
  PROVE  Harmless(s, Await(s, d, a), Devices) /\ Await(s, d, a).process = s.process
<1> DEFINE tasks == [s.tasks EXCEPT ![d][a] = @ + 1]
<1>1. tasks \in TaskCounts
  BY StateFields DEF TaskCounts
<1>2. Await(s, d, a) = [s EXCEPT !.tasks = tasks]
  BY DEF Await, States
<1>3. \A e \in Devices : e # d => tasks[e] = s.tasks[e]
  BY StateFields
<1> HIDE DEF tasks
<1>4. \A e \in Devices : Idle(s, e) => Has(s, e) \/ tasks[e]["register"] = 0
  BY <1>3 DEF Idle
<1> QED BY <1>1, <1>2, <1>4, TasksHarmless

LEMMA MoveHarmless ==
  ASSUME NEW s \in States, NEW d \in Devices, NEW a \in Awaits, NEW b \in Awaits,
         b # "register"
  PROVE  LET t == Move(s, d, a, b)
         IN  /\ Harmless(s, t, Devices) /\ t.process = s.process
             /\ s.tasks[d]["register"] = 0 => t.tasks[d]["register"] = 0
<1> DEFINE counts == [s.tasks[d] EXCEPT ![a] = 0, ![b] = @ + s.tasks[d][a]]
           tasks == [s.tasks EXCEPT ![d] = counts]
           t == Move(s, d, a, b)
<1>1. s.tasks[d] \in [Awaits -> Nat] /\ "register" \in Awaits
  BY StateFields DEF Awaits
<1>2. counts \in [Awaits -> Nat] /\ (s.tasks[d]["register"] = 0 => counts["register"] = 0)
  BY <1>1
<1>3. t = [s EXCEPT !.tasks = tasks]
  BY DEF Move, States, counts
<1> HIDE DEF counts, t
<1>4. /\ tasks \in TaskCounts /\ tasks[d] = counts
      /\ \A e \in Devices : e # d => tasks[e] = s.tasks[e]
  BY <1>2, StateFields DEF TaskCounts
<1> HIDE DEF tasks
<1>5. \A e \in Devices : Idle(s, e) => Has(s, e) \/ tasks[e]["register"] = 0
  BY <1>2, <1>4 DEF Idle
<1>6. Harmless(s, t, Devices) /\ t.process = s.process /\ t.tasks = tasks
  BY <1>3, <1>4, <1>5, TasksHarmless
<1> QED BY <1>2, <1>4, <1>6 DEF t

\* A record in which the registration of an entry has another outcome.
LEMMA RegisterHarmless ==
  ASSUME NEW s \in States, NEW d \in Devices, Has(s, d),
         NEW register \in {"pending", "lost", "resolved", "rejected"}
  PROVE  /\ Harmless(s, [s EXCEPT !.process[d].register = register], Devices)
         /\ [s EXCEPT !.process[d].register = register].tasks = s.tasks
         /\ Has([s EXCEPT !.process[d].register = register], d)
<1> DEFINE t == [s EXCEPT !.process[d].register = register]
           entry == [s.process[d] EXCEPT !.register = register]
<1>1. s.process[d] \in Entry
  BY EntryFields
<1>2. /\ entry \in Entry /\ entry.state = s.process[d].state /\ entry.late = s.process[d].late
      /\ entry.ports = s.process[d].ports
  BY <1>1 DEF Entry
<1>3. t = [s EXCEPT !.process = [@ EXCEPT ![d] = entry]]
  BY DEF States
<1> HIDE DEF entry, t
<1>4. t \in States /\ t.pool = s.pool /\ t.children = s.children /\ t.tasks = s.tasks
  BY <1>2, <1>3 DEF States
<1>5. t.process = [s.process EXCEPT ![d] = entry] /\ t.process[d] = entry
  BY <1>3, StateFields DEF States
<1>6. Has(t, d) /\ \A e : HasWorker(s, e) => HasWorker(t, e)
  BY <1>2, <1>4, <1>5, EntryAssumption DEF Has, HasWorker
<1>7. /\ t.process = [s.process EXCEPT ![d] = t.process[d]]
      /\ t.process[d].ports = s.process[d].ports
      /\ ~s.process[d].late => ~t.process[d].late
      /\ \A e \in Devices \ {d} : HasWorker(s, e) => HasWorker(t, e)
  BY <1>2, <1>5, <1>6
<1>8. d \in Devices /\ Covered(s, d) => t.process[d].state # "running" \/ HasWorker(t, d)
  BY <1>2, <1>5, <1>6 DEF Covered
<1>9. Harmless(s, t, Devices)
  BY <1>4, <1>6, <1>7, <1>8, HarmlessEntry
<1> QED BY <1>4, <1>6, <1>9 DEF t

LEMMA LaunchHarmless ==
  ASSUME NEW s \in States, NEW d \in Devices, NEW n \in Nat
  PROVE  Harmless(s, Launch(s, d, n), Devices) /\ Launch(s, d, n).tasks = s.tasks
BY SpawnHarmless, SpawnEffect, HarmlessSame DEF Launch

LEMMA ResolveHarmless ==
  ASSUME NEW s \in States, NEW d \in Devices, Has(s, d)
  PROVE  Harmless(s, Resolve(s, d), Devices) /\ Resolve(s, d).tasks[d]["register"] = 0
<1> DEFINE tasks == [s.tasks EXCEPT ![d]["register"] = 0]
           register == IF s.process[d].register = "pending" THEN "resolved" ELSE s.process[d].register
           t == [s EXCEPT !.tasks = tasks]
           u == [t EXCEPT !.process[d].register = register]
           n == s.tasks[d]["register"]
<1>1. tasks \in TaskCounts /\ n \in Nat /\ tasks[d]["register"] = 0
  BY StateFields DEF TaskCounts, Awaits
<1>2. \A e \in Devices : Idle(s, e) => Has(s, e) \/ tasks[e]["register"] = 0
  <2>1. \A e \in Devices : e # d => tasks[e] = s.tasks[e]
    BY StateFields
  <2> QED BY <1>1, <2>1 DEF Idle
<1>3. register \in {"pending", "lost", "resolved", "rejected"}
  BY EntryFields DEF Entry
<1>4. Resolve(s, d) = Launch(u, d, n)
  BY DEF Resolve, States
<1> HIDE DEF tasks, register, n
<1>5. Harmless(s, t, Devices) /\ t.process = s.process /\ t.tasks = tasks
  BY <1>1, <1>2, TasksHarmless
<1> HIDE DEF t
<1>6. t \in States /\ Has(t, d)
  BY <1>5 DEF Harmless, Has
<1>7. Harmless(t, u, Devices) /\ u.tasks = t.tasks
  BY <1>3, <1>6, RegisterHarmless
<1> HIDE DEF u
<1>8. Harmless(u, Launch(u, d, n), Devices) /\ Launch(u, d, n).tasks = u.tasks
  BY <1>1, <1>7, LaunchHarmless DEF Harmless
<1>9. Harmless(s, Launch(u, d, n), Devices)
  BY <1>5, <1>7, <1>8, HarmlessTwice
<1> QED BY <1>1, <1>4, <1>5, <1>7, <1>8, <1>9

LEMMA StartDeviceWorkHarmless ==
  ASSUME NEW s \in States, NEW d \in Devices, Has(s, d)
  PROVE  Harmless(s, StartDeviceWork(s, d), Devices)
<1>1. s.process[d].register \in {"pending", "lost", "resolved", "rejected"}
  BY EntryFields DEF Entry
<1>2. CASE s.process[d].register = "resolved"
  BY <1>2, LaunchHarmless DEF StartDeviceWork
<1>3. CASE s.process[d].register = "rejected"
  BY <1>3, AwaitHarmless DEF StartDeviceWork, Awaits
<1>4. CASE s.process[d].register = "pending"
  BY <1>4, AwaitHarmless DEF StartDeviceWork, Awaits
<1>5. CASE s.process[d].register = "lost"
  BY <1>5, AwaitHarmless DEF StartDeviceWork, Awaits
<1> QED BY <1>1, <1>2, <1>3, <1>4, <1>5

\* The children of one device are told something.
LEMMA TerminateHarmless ==
  ASSUME NEW s \in States, NEW d \in Devices
  PROVE  Harmless(s, Terminate(s, d), Devices \ {d}) /\ Terminate(s, d).process = s.process
<1> DEFINE killed(c) == IF c.device = d /\ c.held
                        THEN [c EXCEPT !.phase = "dying", !.awaited = FALSE, !.held = FALSE]
                        ELSE c
           q == [i \in DOMAIN s.children |-> killed(s.children[i])]
           t == Terminate(s, d)
<1>1. \A c \in Child : killed(c) \in Child /\ (c.device # d => killed(c) = c)
  BY DEF Child, Phase
<1>2. /\ q \in [DOMAIN s.children -> Child]
      /\ \A i \in DOMAIN s.children : s.children[i].device # d => q[i] = s.children[i]
  <2> HIDE DEF killed
  <2> QED BY <1>1, ChildFields
<1>3. t = [s EXCEPT !.children = q]
  BY DEF Terminate
<1> HIDE DEF q, t
<1>4. /\ t \in States /\ t.pool = s.pool /\ t.process = s.process /\ t.tasks = s.tasks
      /\ t.children = q /\ DOMAIN q = DOMAIN s.children
  BY <1>2, <1>3, ChangeChildren
<1>5. \A e \in Devices \ {d} : HasWorker(s, e) => HasWorker(t, e)
  BY <1>2, <1>4 DEF HasWorker
<1>6. Harmless(s, t, Devices \ {d})
  BY <1>4, <1>5, HarmlessChildren
<1> QED BY <1>4, <1>6 DEF t

LEMMA KeepsLess ==
  ASSUME NEW s, NEW t, NEW D, NEW E \in SUBSET D, Harmless(s, t, D)
  PROVE  Harmless(s, t, E)
BY DEF Harmless, Keeps

LEMMA StopHarmless ==
  ASSUME NEW s \in States, NEW d \in Devices, Has(s, d)
  PROVE  LET t == Stop(s, d)
         IN  /\ Harmless(s, t, Devices \ {d})
             /\ Has(t, d) /\ t.process[d].ports = s.process[d].ports
             /\ ~s.process[d].late => ~t.process[d].late
             /\ t.tasks[d]["register"] = 0
<1> DEFINE t == Terminate(s, d)
           u == Resolve(t, d)
<1>1. Harmless(s, t, Devices \ {d}) /\ t.process = s.process
  BY TerminateHarmless
<1> HIDE DEF t
<1>2. t \in States /\ Has(t, d)
  BY <1>1 DEF Harmless, Has
<1>3. Harmless(t, u, Devices) /\ u.tasks[d]["register"] = 0
  BY <1>2, ResolveHarmless
<1> HIDE DEF u
<1>4. Harmless(t, u, Devices \ {d})
  BY <1>3, KeepsLess
<1>5. Harmless(s, u, Devices \ {d})
  BY <1>1, <1>4, HarmlessTwice
<1>6. /\ Has(u, d) /\ u.process[d].ports = s.process[d].ports
      /\ ~s.process[d].late => ~u.process[d].late
  BY <1>1, <1>2, <1>3 DEF Harmless, Keeps
<1>7. u = Stop(s, d)
  BY DEF Stop, u, t
<1> QED BY <1>3, <1>5, <1>6, <1>7

-----------------------------------------------------------------------------
(* Entries that come and go. *)

\* The pool is made of groups, and so are the ports of every entry.
PoolInv(s) ==
  /\ Aligned(s.pool)
  /\ \A e \in Devices : Has(s, e) => s.process[e].ports \in Groups

LEMMA HarmlessPool ==
  ASSUME NEW s, NEW t, Harmless(s, t, Devices), PoolInv(s)
  PROVE  PoolInv(t)
BY DEF Harmless, Keeps, PoolInv

LEMMA CreateEffect ==
  ASSUME NEW s \in States, NEW d \in Devices, PoolInv(s), ~Has(s, d), Len(s.pool) >= ResourceCount
  PROVE  LET t == Create(s, d, "pending")
         IN  /\ t \in States /\ Has(t, d) /\ PoolInv(t)
             /\ t.process[d].ports = SubSeq(s.pool, 1, ResourceCount)
             /\ t.pool = SubSeq(s.pool, ResourceCount + 1, Len(s.pool))
             /\ t.process[d].state = "waiting" /\ ~t.process[d].late
             /\ Keeps(s, t, Devices \ {d})
<1> DEFINE t == Create(s, d, "pending")
           group == SubSeq(s.pool, 1, ResourceCount)
           rest == SubSeq(s.pool, ResourceCount + 1, Len(s.pool))
           entry == [state |-> "waiting", late |-> FALSE, register |-> "pending", ports |-> group]
<1>1. s.pool \in Pools /\ Len(s.pool) \in Nat /\ ResourceCount \in Nat
  BY StateFields, PortsType DEF Pools
<1>2. group \in Groups /\ Aligned(rest)
  BY <1>1, TakeAligned DEF PoolInv
<1>3. rest \in Pools
  BY <1>1, Part
<1>4. group \in [1..ResourceCount -> Range(AllPorts)]
  BY <1>2, GroupTypes
<1>5. t = [s EXCEPT !.process = [@ EXCEPT ![d] = entry], !.pool = rest]
  BY <1>1 DEF Create, States
<1> HIDE DEF group, rest, t
<1>6. /\ entry \in Entry /\ entry.ports = group /\ entry.state = "waiting" /\ entry.late = FALSE
  BY <1>4 DEF Entry
<1> HIDE DEF entry
<1>7. t \in States /\ t.pool = rest /\ t.children = s.children /\ t.tasks = s.tasks
  BY <1>3, <1>5, <1>6 DEF States, Pools
<1>8. t.process = [s.process EXCEPT ![d] = entry] /\ t.process[d] = entry
  BY <1>5, StateFields DEF States
<1>9. Has(t, d)
  BY <1>6, <1>8, EntryAssumption DEF Has
<1>10. \A e \in Devices \ {d} : t.process[e] = s.process[e]
  BY <1>8, StateFields
<1>11. Keeps(s, t, Devices \ {d})
  BY <1>7, <1>10 DEF Keeps, Has, Covered, HasWorker, Idle
<1>12. PoolInv(t)
  BY <1>2, <1>6, <1>7, <1>8, <1>10 DEF PoolInv, Has
<1> QED BY <1>6, <1>7, <1>8, <1>9, <1>11, <1>12 DEF t, group, rest

\* An entry is deleted and its ports given back.
LEMMA DeleteEffect ==
  ASSUME NEW s \in States, NEW d \in Devices, Has(s, d)
  PROVE  LET t == Delete(s, d)
         IN  /\ t \in States /\ ~Has(t, d)
             /\ t.pool = s.pool \o s.process[d].ports /\ t.tasks = s.tasks
             /\ Keeps(s, t, Devices \ {d})
<1> DEFINE ports == s.process[d].ports
           unheld(c) == IF c.device = d THEN [c EXCEPT !.held = FALSE] ELSE c
           q == [i \in DOMAIN s.children |-> unheld(s.children[i])]
           process == [s.process EXCEPT ![d] = NoProcess]
           t == Delete(s, d)
<1>1. s.process[d] \in Entry
  BY EntryFields
<1>2. ports \in [1..ResourceCount -> Range(AllPorts)] /\ ResourceCount \in Nat
  BY <1>1, PortsType DEF Entry
<1>3. ports \in Pools
  BY <1>2, FunctionIsSeq DEF Pools
<1>4. \A c \in Child : /\ unheld(c) \in Child
                       /\ unheld(c).device = c.device /\ unheld(c).phase = c.phase
  BY DEF Child
<1>5. /\ q \in [DOMAIN s.children -> Child]
      /\ \A i \in DOMAIN s.children : /\ q[i].device = s.children[i].device
                                      /\ q[i].phase = s.children[i].phase
  <2> HIDE DEF unheld
  <2> QED BY <1>4, ChildFields
<1>6. q \in Seq(Child) /\ DOMAIN q = DOMAIN s.children
  BY <1>5, ChangeChildren
<1>7. t = [s EXCEPT !.pool = @ \o ports, !.process = process, !.children = q]
  BY DEF Delete, Release, States
<1>8. process \in [Devices -> Entry \cup {NoProcess}] /\ process[d] = NoProcess
      /\ \A e \in Devices \ {d} : process[e] = s.process[e]
  BY StateFields
<1> HIDE DEF ports, q, process, t
<1>9. s.pool \o ports \in Pools
  BY <1>3, StateFields, ConcatProperties DEF Pools
<1>10. /\ t \in States /\ t.pool = s.pool \o ports /\ t.process = process /\ t.children = q
       /\ t.tasks = s.tasks
  BY <1>6, <1>7, <1>8, <1>9 DEF States, Pools
<1>11. \A e : HasWorker(s, e) => HasWorker(t, e)
  BY <1>5, <1>6, <1>10 DEF HasWorker
<1>12. Keeps(s, t, Devices \ {d})
  BY <1>8, <1>10, <1>11 DEF Keeps, Has, Covered, Idle
<1>13. ~Has(t, d)
  BY <1>8, <1>10 DEF Has
<1> QED BY <1>10, <1>12, <1>13 DEF t, ports

LEMMA RemoveEffect ==
  ASSUME NEW s \in States, NEW d \in Devices, Has(s, d)
  PROVE  LET t == RemoveDevice(s, d)
         IN  /\ t \in States /\ ~Has(t, d)
             /\ t.pool = s.pool \o s.process[d].ports
             /\ Keeps(s, t, Devices \ {d})
             /\ Idle(t, d)
<1> DEFINE D == Devices \ {d}
           t == Stop(s, d)
           u == Delete(t, d)
           v == Move(u, d, "reregister", "stale")
<1>1. Harmless(s, t, D) /\ Has(t, d) /\ t.process[d].ports = s.process[d].ports
      /\ t.tasks[d]["register"] = 0
  BY StopHarmless
<1> HIDE DEF t
<1>2. t \in States /\ t.pool = s.pool /\ Keeps(s, t, D)
  BY <1>1 DEF Harmless
<1>3. /\ u \in States /\ ~Has(u, d) /\ u.pool = t.pool \o t.process[d].ports /\ Keeps(t, u, D)
      /\ u.tasks = t.tasks
  BY <1>1, <1>2, DeleteEffect
<1> HIDE DEF u
<1>4. Harmless(u, v, Devices) /\ v.process = u.process /\ v.tasks[d]["register"] = 0
  BY <1>1, <1>3, MoveHarmless DEF Awaits
<1> HIDE DEF v
<1>5. v \in States /\ v.pool = u.pool /\ Keeps(u, v, D) /\ ~Has(v, d)
  BY <1>3, <1>4 DEF Harmless, Keeps, Has
<1>6. Keeps(s, v, D)
  <2>1. Keeps(s, u, D \cap D)
    BY <1>2, <1>3, KeepsTwice
  <2>2. Keeps(s, v, (D \cap D) \cap D)
    BY <2>1, <1>5, KeepsTwice
  <2>3. (D \cap D) \cap D = D
    OBVIOUS
  <2> QED BY <2>2, <2>3
<1>7. v = RemoveDevice(s, d)
  BY DEF RemoveDevice, v, u, t
<1>8. v.pool = s.pool \o s.process[d].ports
  BY <1>1, <1>2, <1>3, <1>5
<1> QED BY <1>4, <1>5, <1>6, <1>7, <1>8 DEF Idle

LEMMA RemovePool ==
  ASSUME NEW s \in States, NEW d \in Devices, Has(s, d), PoolInv(s)
  PROVE  PoolInv(RemoveDevice(s, d))
<1> DEFINE t == RemoveDevice(s, d)
<1>1. ~Has(t, d) /\ t.pool = s.pool \o s.process[d].ports /\ Keeps(s, t, Devices \ {d})
  BY RemoveEffect
<1> HIDE DEF t
<1>2. s.process[d].ports \in Groups /\ s.pool \in Pools /\ Aligned(s.pool)
  BY StateFields DEF PoolInv
<1>3. Aligned(t.pool)
  BY <1>1, <1>2, GiveAligned
<1>4. \A e \in Devices : Has(t, e) => t.process[e].ports \in Groups
  BY <1>1 DEF Keeps, PoolInv
<1>5. PoolInv(t)
  BY <1>3, <1>4 DEF PoolInv
<1> QED BY <1>5 DEF t

-----------------------------------------------------------------------------
(* The removals of a health check, one after the other. *)

\* The function that Removals chooses exists.
LEMMA RemovalsDefined ==
  ASSUME NEW s, NEW order, Len(order) \in Nat
  PROVE  LET after == Removals(s, order)
         IN  /\ after[0] = s
             /\ \A n \in 1..Len(order) : after[n] = RemoveDevice(after[n - 1], order[n])
<1> DEFINE Next1(f, n) == IF n = 0 THEN s ELSE RemoveDevice(f[n - 1], order[n])
           T == {k \in Nat : \E f : f = [n \in 0..k |-> Next1(f, n)]}
           after == Removals(s, order)
<1>1. 0 \in T
  <2> DEFINE f == [n \in 0..0 |-> s]
  <2>1. \A n \in 0..0 : Next1(f, n) = s
    OBVIOUS
  <2> HIDE DEF Next1
  <2>2. f = [n \in 0..0 |-> Next1(f, n)]
    BY <2>1
  <2> HIDE DEF f
  <2> QED BY <2>2
<1>2. ASSUME NEW k \in Nat, k \in T
      PROVE  k + 1 \in T
  <2>1. PICK f : f = [n \in 0..k |-> Next1(f, n)]
    BY <1>2
  <2> DEFINE last == RemoveDevice(f[k], order[k + 1])
             g == [n \in 0..k + 1 |-> IF n <= k THEN f[n] ELSE last]
  <2>2. \A n \in 0..k : f[n] = Next1(f, n)
    <3> HIDE DEF Next1
    <3> QED BY <2>1
  <2>3. ASSUME NEW n \in 0..k + 1
        PROVE  g[n] = Next1(g, n)
    <3> HIDE DEF last
    <3>1. CASE n = 0
      BY <2>2, <3>1
    <3>2. CASE n # 0 /\ n <= k
      <4>1. g[n] = f[n] /\ g[n - 1] = f[n - 1] /\ n \in 0..k
        BY <3>2
      <4> QED BY <2>2, <3>2, <4>1
    <3>3. CASE n = k + 1
      <4>1. g[n] = last /\ g[n - 1] = f[k]
        BY <3>3
      <4> QED BY <3>3, <4>1 DEF last
    <3>4. n = 0 \/ (n # 0 /\ n <= k) \/ n = k + 1
      OBVIOUS
    <3> QED BY <3>1, <3>2, <3>3, <3>4
  <2>4. g = [n \in 0..k + 1 |-> g[n]]
    OBVIOUS
  <2> HIDE DEF g, Next1
  <2>5. g = [n \in 0..k + 1 |-> Next1(g, n)]
    BY <2>3, <2>4
  <2> QED BY <2>5
<1> HIDE DEF T
<1>3. Nat \subseteq T
  BY <1>1, <1>2, NatSetInduction
<1>4. \E f : f = [n \in 0..Len(order) |-> Next1(f, n)]
  BY <1>3 DEF T
<1>5. after = [n \in 0..Len(order) |-> Next1(after, n)]
  <2>1. after = CHOOSE f : f = [n \in 0..Len(order) |-> Next1(f, n)]
    BY DEF Removals
  <2> HIDE DEF Next1, after
  <2> QED BY <1>4, <2>1
<1> HIDE DEF after
<1>6. \A n \in 0..Len(order) : after[n] = Next1(after, n)
  <2> HIDE DEF Next1
  <2> QED BY <1>5
<1>7. after[0] = s /\ \A n \in 1..Len(order) : after[n] = RemoveDevice(after[n - 1], order[n])
  BY <1>6
<1> QED BY <1>7 DEF after

LEMMA RemovalsEffect ==
  ASSUME NEW s \in States, NEW late \in SUBSET Devices, NEW order \in SetToSeqs(late),
         \A e \in late : Has(s, e)
  PROVE  LET t == Removals(s, order)[Len(order)]
         IN  /\ t \in States
             /\ Keeps(s, t, Devices \ late)
             /\ \A e \in late : ~Has(t, e) /\ Idle(t, e)
             /\ PoolInv(s) => PoolInv(t)
             /\ late = {} => t = s
<1> DEFINE N == Cardinality(late)
           after == Removals(s, order)
           done(n) == {order[j] : j \in 1..n}
           Right(n) == /\ after[n] \in States
                       /\ Keeps(s, after[n], Devices \ done(n))
                       /\ \A e \in done(n) : ~Has(after[n], e) /\ Idle(after[n], e)
                       /\ PoolInv(s) => PoolInv(after[n])
           T == {n \in Nat : n <= N => Right(n)}
<1>1. IsFiniteSet(late) /\ N \in Nat /\ (late = {} => N = 0)
  BY ProviderAssumption, FS_Subset, FS_CardinalityType, FS_EmptySet
<1>2. /\ order \in [1..N -> late]
      /\ \A i, j \in 1..N : i # j => order[i] # order[j]
  BY DEF SetToSeqs
<1>3. Len(order) = N
  BY <1>1, <1>2, FunctionIsSeq
<1>4. /\ after[0] = s
      /\ \A n \in 1..N : after[n] = RemoveDevice(after[n - 1], order[n])
  BY <1>1, <1>3, RemovalsDefined
<1>5. done(N) = late
  <2>1. Cardinality(done(N)) = N /\ IsFiniteSet(done(N))
    <3>1. order \in Injection(1..N, done(N)) /\ order \in Surjection(1..N, done(N))
      BY <1>2 DEF Injection, Surjection, IsInjective, Range
    <3>2. order \in Bijection(1..N, done(N))
      BY <3>1 DEF Bijection
    <3>3. IsFiniteSet(1..N) /\ Cardinality(1..N) = N
      BY <1>1, FS_Interval
    <3> HIDE DEF done, N
    <3>4. ExistsBijection(1..N, done(N))
      BY <3>2 DEF ExistsBijection
    <3> QED BY <3>3, <3>4, FS_Bijection
  <2>2. done(N) \subseteq late
    BY <1>2
  <2> QED BY <1>1, <2>1, <2>2, FS_Subset
<1> HIDE DEF N, after
<1>6. Right(0)
  <2>1. done(0) = {}
    OBVIOUS
  <2>2. Keeps(s, after[0], Devices \ done(0))
    BY <1>4 DEF Keeps
  <2> QED BY <1>4, <2>1, <2>2
<1>7. ASSUME NEW n \in Nat, n \in T PROVE n + 1 \in T
  <2> SUFFICES ASSUME n + 1 <= N PROVE Right(n + 1)
    OBVIOUS
  <2> DEFINE a == after[n]
             d == order[n + 1]
             b == RemoveDevice(a, d)
  <2>1. Right(n)
    BY <1>1, <1>7
  <2>2. n + 1 \in 1..N /\ n + 1 - 1 = n
    BY <1>1
  <2>3. after[n + 1] = b
    BY <1>4, <2>2
  <2>4. d \in late /\ d \in Devices /\ d \notin done(n)
    BY <1>1, <1>2, <2>2
  <2>5. a \in States /\ Keeps(s, a, Devices \ done(n)) /\ (PoolInv(s) => PoolInv(a))
        /\ \A e \in done(n) : ~Has(a, e) /\ Idle(a, e)
    BY <2>1
  <2>6. Has(a, d)
    <3> HIDE DEF a, d
    <3> QED BY <2>4, <2>5 DEF Keeps
  <2>7. done(n + 1) = done(n) \cup {d}
    <3>1. 1..n + 1 = 1..n \cup {n + 1}
      OBVIOUS
    <3> QED BY <3>1
  <2> HIDE DEF a, d, done
  <2>8. b \in States /\ ~Has(b, d) /\ Idle(b, d) /\ Keeps(a, b, Devices \ {d})
    BY <2>4, <2>5, <2>6, RemoveEffect
  <2>9. PoolInv(s) => PoolInv(b)
    BY <2>4, <2>5, <2>6, RemovePool
  <2> HIDE DEF b
  <2>10. Keeps(s, b, Devices \ done(n + 1))
    <3>1. Keeps(s, b, (Devices \ done(n)) \cap (Devices \ {d}))
      BY <2>5, <2>8, KeepsTwice
    <3>2. (Devices \ done(n)) \cap (Devices \ {d}) = Devices \ done(n + 1)
      BY <2>7
    <3> QED BY <3>1, <3>2
  <2>11. \A e \in done(n + 1) : ~Has(b, e) /\ Idle(b, e)
    <3> TAKE e \in done(n + 1)
    <3>1. CASE e = d
      BY <2>8, <3>1
    <3>2. CASE e # d
      <4>1. e \in done(n)
        BY <2>7, <3>2
      <4>2. e \in late /\ e \in Devices \ {d}
        <5>1. PICK j \in 1..n : e = order[j]
          BY <4>1 DEF done
        <5>2. j \in 1..N
          BY <1>1, <2>2
        <5> QED BY <1>2, <3>2, <5>1, <5>2
      <4> QED BY <2>5, <2>8, <4>1, <4>2 DEF Keeps
    <3> QED BY <3>1, <3>2
  <2> QED BY <2>3, <2>8, <2>9, <2>10, <2>11
<1> HIDE DEF Right
<1>8. 0 \in T
  BY <1>6
<1> HIDE DEF T
<1>9. N \in T
  BY <1>1, <1>7, <1>8, NatSetInduction
<1>10. Right(N)
  BY <1>1, <1>9 DEF T
<1>11. after[N] = Removals(s, order)[Len(order)]
  BY <1>3 DEF after
<1>12. late = {} => after[N] = s
  BY <1>1, <1>4
<1> QED BY <1>5, <1>10, <1>11, <1>12 DEF Right

-----------------------------------------------------------------------------
(* Ports.                                                                  *)

\* No port has two places, and every port has one.
Partition(s) ==
  /\ IsInjective(s.pool)
  /\ \A e \in Devices : Has(s, e) => /\ IsInjective(s.process[e].ports)
                                     /\ Range(s.pool) \cap Range(s.process[e].ports) = {}
  /\ \A e, f \in Devices :
       Has(s, e) /\ Has(s, f) /\ e # f =>
         Range(s.process[e].ports) \cap Range(s.process[f].ports) = {}
  /\ \A p \in Range(AllPorts) :
       p \in Range(s.pool) \/ \E e \in Devices : Has(s, e) /\ p \in Range(s.process[e].ports)

InTime(s) == \A e \in Devices : Has(s, e) => ~s.process[e].late

LEMMA HarmlessPartition ==
  ASSUME NEW s, NEW t, Harmless(s, t, Devices), Partition(s), InTime(s)
  PROVE  Partition(t) /\ InTime(t)
<1>1. /\ t.pool = s.pool
      /\ \A e \in Devices : /\ Has(t, e) <=> Has(s, e)
                            /\ Has(s, e) => t.process[e].ports = s.process[e].ports
  BY DEF Harmless, Keeps
<1>2. InTime(t)
  BY DEF Harmless, Keeps, InTime
<1>3. Partition(t)
  BY <1>1 DEF Partition
<1> QED BY <1>2, <1>3

\* The first ports of the pool, and the others.
LEMMA Split ==
  ASSUME NEW pool \in Pools, IsInjective(pool), Len(pool) >= ResourceCount
  PROVE  LET group == SubSeq(pool, 1, ResourceCount)
             rest == SubSeq(pool, ResourceCount + 1, Len(pool))
         IN  /\ IsInjective(group) /\ IsInjective(rest)
             /\ Range(group) \cap Range(rest) = {}
             /\ Range(pool) = Range(group) \cup Range(rest)
<1> DEFINE R == ResourceCount
           group == SubSeq(pool, 1, R)
           rest == SubSeq(pool, R + 1, Len(pool))
<1>1. R \in Nat \ {0} /\ Len(pool) \in Nat /\ 0 + 1 = 1 /\ R - 0 = R /\ 0 < R /\ 0 \in Nat
      /\ DOMAIN pool = 1..Len(pool)
  BY PortsType DEF Pools
<1>2. /\ group \in Pools /\ Len(group) = R /\ \A i \in 1..R : group[i] = pool[i]
  <2>1. /\ SubSeq(pool, 0 + 1, R) \in Pools
        /\ Len(SubSeq(pool, 0 + 1, R)) = IF 0 < R THEN R - 0 ELSE 0
        /\ \A i \in 1..R - 0 : SubSeq(pool, 0 + 1, R)[i] = pool[0 + i]
    BY <1>1, Part
  <2> QED BY <1>1, <2>1
<1>3. /\ rest \in Pools /\ Len(rest) = Len(pool) - R
      /\ \A i \in 1..Len(pool) - R : rest[i] = pool[R + i]
  <2>1. /\ rest \in Pools /\ Len(rest) = IF R < Len(pool) THEN Len(pool) - R ELSE 0
        /\ \A i \in 1..Len(pool) - R : rest[i] = pool[R + i]
    BY <1>1, Part
  <2> QED BY <1>1, <2>1
<1> HIDE DEF R, group, rest
<1>4. DOMAIN group = 1..R /\ DOMAIN rest = 1..Len(pool) - R
  BY <1>1, <1>2, <1>3 DEF Pools
<1>5. \A i, j \in 1..Len(pool) : pool[i] = pool[j] => i = j
  BY <1>1 DEF IsInjective
<1>6. IsInjective(group)
  <2>1. \A i \in 1..R : i \in 1..Len(pool)
    BY <1>1 DEF R
  <2> QED BY <1>2, <1>4, <1>5, <2>1 DEF IsInjective
<1>7. IsInjective(rest)
  <2> SUFFICES ASSUME NEW i \in 1..Len(pool) - R, NEW j \in 1..Len(pool) - R, rest[i] = rest[j]
               PROVE  i = j
    BY <1>4 DEF IsInjective
  <2>1. R + i \in 1..Len(pool) /\ R + j \in 1..Len(pool) /\ pool[R + i] = pool[R + j]
    BY <1>1, <1>3
  <2>2. R + i = R + j
    BY <1>5, <2>1
  <2> QED BY <1>1, <2>2
<1>8. Range(group) \cap Range(rest) = {}
  <2> SUFFICES ASSUME NEW i \in 1..R, NEW j \in 1..Len(pool) - R, group[i] = rest[j]
               PROVE  FALSE
    BY <1>4 DEF Range
  <2>1. i \in 1..Len(pool) /\ R + j \in 1..Len(pool) /\ i # R + j
    BY <1>1 DEF R
  <2> QED BY <1>2, <1>3, <1>5, <2>1
<1>9. Range(pool) = Range(group) \cup Range(rest)
  <2>1. ASSUME NEW i \in 1..Len(pool)
        PROVE  pool[i] \in Range(group) \cup Range(rest)
    <3>1. CASE i <= R
      <4>1. i \in 1..R
        BY <1>1, <3>1
      <4> QED BY <1>2, <1>4, <4>1 DEF Range
    <3>2. CASE ~(i <= R)
      <4>1. i - R \in 1..Len(pool) - R /\ R + (i - R) = i
        BY <1>1, <3>2
      <4>2. rest[i - R] = pool[i]
        BY <1>3, <4>1
      <4> QED BY <1>4, <4>1, <4>2 DEF Range
    <3> QED BY <3>1, <3>2
  <2>2. ASSUME NEW i \in 1..R
        PROVE  group[i] \in Range(pool)
    <3>1. i \in 1..Len(pool)
      BY <1>1 DEF R
    <3> QED BY <1>1, <1>2, <3>1 DEF Range
  <2>3. ASSUME NEW i \in 1..Len(pool) - R
        PROVE  rest[i] \in Range(pool)
    <3>1. R + i \in 1..Len(pool)
      BY <1>1
    <3> QED BY <1>1, <1>3, <3>1 DEF Range
  <2> QED BY <2>1, <2>2, <2>3, <1>1, <1>4 DEF Range
<1> QED BY <1>6, <1>7, <1>8, <1>9 DEF group, rest, R

\* Ports that are given back.
LEMMA Join ==
  ASSUME NEW pool \in Pools, NEW group \in Pools, IsInjective(pool), IsInjective(group),
         Range(pool) \cap Range(group) = {}
  PROVE  IsInjective(pool \o group) /\ Range(pool \o group) = Range(pool) \cup Range(group)
<1> DEFINE all == pool \o group
           n == Len(pool)
           m == Len(group)
<1>1. n \in Nat /\ m \in Nat /\ DOMAIN pool = 1..n /\ DOMAIN group = 1..m
  BY DEF Pools
<1>2. /\ all \in Pools /\ Len(all) = n + m
      /\ \A i \in 1..n + m : all[i] = IF i <= n THEN pool[i] ELSE group[i - n]
  BY ConcatProperties DEF Pools
<1>3. DOMAIN all = 1..n + m
  BY <1>2 DEF Pools
<1>4. Range(all) = Range(pool) \cup Range(group)
  BY RangeConcatenation DEF Pools
<1> HIDE DEF all, n, m
<1>5. ASSUME NEW i \in 1..n + m
      PROVE  \/ i \in 1..n /\ all[i] = pool[i] /\ all[i] \in Range(pool)
             \/ i - n \in 1..m /\ all[i] = group[i - n] /\ all[i] \in Range(group) /\ ~(i <= n)
  <2>1. CASE i <= n
    <3>1. i \in 1..n /\ all[i] = pool[i]
      BY <1>1, <1>2, <2>1
    <3> QED BY <1>1, <3>1 DEF Range
  <2>2. CASE ~(i <= n)
    <3>1. i - n \in 1..m /\ all[i] = group[i - n]
      BY <1>1, <1>2, <2>2
    <3> QED BY <1>1, <2>2, <3>1 DEF Range
  <2> QED BY <2>1, <2>2
<1>6. \A i, j \in 1..n : pool[i] = pool[j] => i = j
  BY <1>1 DEF IsInjective
<1>7. \A i, j \in 1..m : group[i] = group[j] => i = j
  BY <1>1 DEF IsInjective
<1>8. ASSUME NEW i \in 1..n + m, NEW j \in 1..n + m, all[i] = all[j]
      PROVE  i = j
  <2>1. CASE i \in 1..n /\ all[i] = pool[i] /\ all[i] \in Range(pool)
    <3>1. j \in 1..n /\ all[j] = pool[j]
      BY <1>5, <1>8, <2>1
    <3> QED BY <1>6, <1>8, <2>1, <3>1
  <2>2. CASE i - n \in 1..m /\ all[i] = group[i - n] /\ all[i] \in Range(group)
    <3>1. j - n \in 1..m /\ all[j] = group[j - n]
      BY <1>5, <1>8, <2>2
    <3>2. i - n = j - n
      BY <1>7, <1>8, <2>2, <3>1
    <3> QED BY <1>1, <3>2
  <2> QED BY <1>5, <2>1, <2>2
<1>9. IsInjective(all)
  BY <1>3, <1>8 DEF IsInjective
<1> QED BY <1>4, <1>9 DEF all

LEMMA CreatePartition ==
  ASSUME NEW s \in States, NEW d \in Devices, PoolInv(s), ~Has(s, d),
         Len(s.pool) >= ResourceCount, Partition(s), InTime(s)
  PROVE  Partition(Create(s, d, "pending")) /\ InTime(Create(s, d, "pending"))
<1> DEFINE t == Create(s, d, "pending")
           group == SubSeq(s.pool, 1, ResourceCount)
           rest == SubSeq(s.pool, ResourceCount + 1, Len(s.pool))
<1>1. /\ Has(t, d) /\ t.process[d].ports = group /\ t.pool = rest /\ ~t.process[d].late
      /\ Keeps(s, t, Devices \ {d})
  BY CreateEffect
<1>2. s.pool \in Pools /\ IsInjective(s.pool)
  BY StateFields DEF Partition
<1>3. /\ IsInjective(group) /\ IsInjective(rest) /\ Range(group) \cap Range(rest) = {}
      /\ Range(s.pool) = Range(group) \cup Range(rest)
  BY <1>2, Split
<1> HIDE DEF t, group, rest
<1>4. \A e \in Devices \ {d} : /\ Has(t, e) <=> Has(s, e)
                               /\ Has(s, e) => t.process[e].ports = s.process[e].ports
                               /\ Has(s, e) /\ ~s.process[e].late => ~t.process[e].late
  BY <1>1 DEF Keeps
<1>5. InTime(t)
  BY <1>1, <1>4 DEF InTime
<1>6. \A e \in Devices \ {d} :
        Has(s, e) => Range(s.process[e].ports) \cap (Range(group) \cup Range(rest)) = {}
  BY <1>3 DEF Partition
<1>7. \A e \in Devices : Has(t, e) => /\ IsInjective(t.process[e].ports)
                                      /\ Range(t.pool) \cap Range(t.process[e].ports) = {}
  BY <1>1, <1>3, <1>4, <1>6 DEF Partition
<1>8. \A e, f \in Devices :
        Has(t, e) /\ Has(t, f) /\ e # f =>
          Range(t.process[e].ports) \cap Range(t.process[f].ports) = {}
  <2> SUFFICES ASSUME NEW e \in Devices, NEW f \in Devices, Has(t, e), Has(t, f), e # f
               PROVE  Range(t.process[e].ports) \cap Range(t.process[f].ports) = {}
    OBVIOUS
  <2>1. CASE e = d
    BY <1>1, <1>4, <1>6, <2>1
  <2>2. CASE f = d
    BY <1>1, <1>4, <1>6, <2>2
  <2>3. CASE e # d /\ f # d
    BY <1>4, <2>3 DEF Partition
  <2> QED BY <2>1, <2>2, <2>3
<1>9. \A p \in Range(AllPorts) :
        p \in Range(t.pool) \/ \E e \in Devices : Has(t, e) /\ p \in Range(t.process[e].ports)
  <2> TAKE p \in Range(AllPorts)
  <2>1. CASE p \in Range(s.pool)
    BY <1>1, <1>3, <2>1
  <2>2. CASE \E e \in Devices : Has(s, e) /\ p \in Range(s.process[e].ports)
    <3>1. PICK e \in Devices : Has(s, e) /\ p \in Range(s.process[e].ports)
      BY <2>2
    <3>2. e \in Devices \ {d}
      BY <3>1
    <3> QED BY <1>4, <3>1, <3>2
  <2> QED BY <2>1, <2>2 DEF Partition
<1>10. Partition(t)
  BY <1>1, <1>3, <1>7, <1>8, <1>9 DEF Partition
<1> QED BY <1>5, <1>10 DEF t

LEMMA RemovePartition ==
  ASSUME NEW s \in States, NEW d \in Devices, Has(s, d), Partition(s), InTime(s)
  PROVE  Partition(RemoveDevice(s, d)) /\ InTime(RemoveDevice(s, d))
<1> DEFINE t == RemoveDevice(s, d)
           ports == s.process[d].ports
<1>1. ~Has(t, d) /\ t.pool = s.pool \o ports /\ Keeps(s, t, Devices \ {d})
  BY RemoveEffect
<1>2. s.pool \in Pools /\ IsInjective(s.pool)
  BY StateFields DEF Partition
<1>3. ports \in Pools /\ IsInjective(ports) /\ Range(s.pool) \cap Range(ports) = {}
  <2>1. s.process[d] \in Entry
    BY EntryFields
  <2>2. ports \in Pools
    BY <2>1, PortsType, FunctionIsSeq DEF Entry, Pools
  <2> QED BY <2>2 DEF Partition
<1> HIDE DEF t
<1>4. IsInjective(t.pool) /\ Range(t.pool) = Range(s.pool) \cup Range(ports)
  <2> HIDE DEF ports
  <2> QED BY <1>1, <1>2, <1>3, Join
<1>5. \A e \in Devices : /\ Has(t, e) <=> e # d /\ Has(s, e)
                         /\ Has(t, e) => t.process[e].ports = s.process[e].ports
                         /\ Has(t, e) /\ ~s.process[e].late => ~t.process[e].late
  BY <1>1 DEF Keeps
<1>6. InTime(t)
  BY <1>5 DEF InTime
<1>7. \A e \in Devices : Has(t, e) => /\ IsInjective(t.process[e].ports)
                                      /\ Range(t.pool) \cap Range(t.process[e].ports) = {}
  <2> SUFFICES ASSUME NEW e \in Devices, Has(t, e)
               PROVE  /\ IsInjective(t.process[e].ports)
                      /\ Range(t.pool) \cap Range(t.process[e].ports) = {}
    OBVIOUS
  <2>1. e # d /\ Has(s, e) /\ t.process[e].ports = s.process[e].ports
    BY <1>5
  <2>2. /\ IsInjective(s.process[e].ports)
        /\ Range(s.pool) \cap Range(s.process[e].ports) = {}
        /\ Range(ports) \cap Range(s.process[e].ports) = {}
    BY <2>1 DEF Partition
  <2> QED BY <1>4, <2>1, <2>2
<1>8. \A e, f \in Devices :
        Has(t, e) /\ Has(t, f) /\ e # f =>
          Range(t.process[e].ports) \cap Range(t.process[f].ports) = {}
  BY <1>5 DEF Partition
<1>9. \A p \in Range(AllPorts) :
        p \in Range(t.pool) \/ \E e \in Devices : Has(t, e) /\ p \in Range(t.process[e].ports)
  <2> TAKE p \in Range(AllPorts)
  <2>1. CASE p \in Range(s.pool)
    BY <1>4, <2>1
  <2>2. CASE \E e \in Devices : Has(s, e) /\ p \in Range(s.process[e].ports)
    <3>1. PICK e \in Devices : Has(s, e) /\ p \in Range(s.process[e].ports)
      BY <2>2
    <3>2. CASE e = d
      BY <1>4, <3>1, <3>2
    <3>3. CASE e # d
      BY <1>5, <3>1, <3>3
    <3> QED BY <3>2, <3>3
  <2> QED BY <2>1, <2>2 DEF Partition
<1>10. Partition(t)
  BY <1>4, <1>7, <1>8, <1>9 DEF Partition
<1> QED BY <1>6, <1>10 DEF t

\* A port that has one place is counted once.
LEMMA PartitionCounts ==
  ASSUME pm \in States, Partition(pm)
  PROVE  PortsPartition
<1> SUFFICES ASSUME NEW p \in Range(AllPorts)
             PROVE  Cardinality({i \in DOMAIN pm.pool : pm.pool[i] = p})
                      + Cardinality({d \in Devices : Has(pm, d) /\ p \in Range(pm.process[d].ports)}) = 1
  BY DEF PortsPartition
<1> DEFINE A == {i \in DOMAIN pm.pool : pm.pool[i] = p}
           B == {d \in Devices : Has(pm, d) /\ p \in Range(pm.process[d].ports)}
<1>1. CASE p \in Range(pm.pool)
  <2>1. PICK i \in DOMAIN pm.pool : pm.pool[i] = p
    BY <1>1 DEF Range
  <2>2. A = {i}
    BY <2>1 DEF Partition, IsInjective
  <2>3. B = {}
    BY <1>1 DEF Partition
  <2> HIDE DEF A, B
  <2>4. Cardinality(A) = 1 /\ Cardinality(B) = 0
    BY <2>2, <2>3, FS_Singleton, FS_EmptySet
  <2> QED BY <2>4 DEF A, B
<1>2. CASE p \notin Range(pm.pool)
  <2>1. PICK d \in Devices : Has(pm, d) /\ p \in Range(pm.process[d].ports)
    BY <1>2 DEF Partition
  <2>2. B = {d}
    BY <2>1 DEF Partition
  <2>3. A = {}
    BY <1>2 DEF Range
  <2> HIDE DEF A, B
  <2>4. Cardinality(A) = 0 /\ Cardinality(B) = 1
    BY <2>2, <2>3, FS_Singleton, FS_EmptySet
  <2> QED BY <2>4 DEF A, B
<1> QED BY <1>1, <1>2

-----------------------------------------------------------------------------
(* The steps. *)

\* What holds of the process manager and the workers.
PmInv(s) ==
  /\ s \in States
  /\ PoolInv(s)
  /\ \A e \in Devices : Idle(s, e)
  /\ "hang" \notin Failures => Partition(s) /\ InTime(s)
  /\ Failures \cap {"signal", "clean"} = {} => \A e \in Devices : Covered(s, e)

\* Step from s to t that creates no entry.
Fewer(s, t) == PmInv(t) /\ \A e \in Devices : Has(t, e) => Has(s, e)

LEMMA FreshPm ==
  LET s == [process |-> [d \in Devices |-> NoProcess], children |-> <<>>, pool |-> AllPorts,
            tasks |-> [d \in Devices |-> NoTasks]]
  IN  PmInv(s) /\ \A e \in Devices : ~Has(s, e)
<1> DEFINE s == [process |-> [d \in Devices |-> NoProcess], children |-> <<>>, pool |-> AllPorts,
                 tasks |-> [d \in Devices |-> NoTasks]]
<1>1. s \in States
  <2>1. AllPorts \in Seq(Range(AllPorts))
    BY PortsType DEF Pools
  <2>2. <<>> \in Seq(Child)
    OBVIOUS
  <2>3. [d \in Devices |-> NoTasks] \in [Devices -> [Awaits -> Nat]]
    BY DEF NoTasks
  <2> QED BY <2>1, <2>2, <2>3 DEF States
<1>2. \A e \in Devices : ~Has(s, e)
  BY DEF Has
<1>3. s.pool = AllPorts /\ \A e \in Devices : Idle(s, e)
  BY DEF NoTasks, Awaits, Idle
<1> HIDE DEF s
<1>4. IsInjective(AllPorts)
  BY ProviderAssumption
<1>5. PmInv(s)
  BY <1>1, <1>2, <1>3, <1>4, AllPortsAligned DEF PmInv, PoolInv, Partition, InTime, Covered
<1> QED BY <1>2, <1>5 DEF s

LEMMA HarmlessPm ==
  ASSUME NEW s, NEW t, PmInv(s), Harmless(s, t, Devices)
  PROVE  Fewer(s, t)
<1>1. t \in States /\ \A e \in Devices : (Has(t, e) => Has(s, e)) /\ Idle(t, e)
  BY DEF Harmless, Keeps, PmInv
<1>2. PoolInv(t)
  BY HarmlessPool DEF PmInv
<1>3. "hang" \notin Failures => Partition(t) /\ InTime(t)
  BY HarmlessPartition DEF PmInv
<1>4. Failures \cap {"signal", "clean"} = {} => \A e \in Devices : Covered(t, e)
  BY DEF PmInv, Harmless, Keeps
<1> QED BY <1>1, <1>2, <1>3, <1>4 DEF PmInv, Fewer

LEMMA RemovePm ==
  ASSUME NEW s, NEW d \in Devices, PmInv(s), Has(s, d)
  PROVE  Fewer(s, RemoveDevice(s, d)) /\ ~Has(RemoveDevice(s, d), d)
<1> DEFINE t == RemoveDevice(s, d)
<1>1. s \in States
  BY DEF PmInv
<1>2. t \in States /\ ~Has(t, d) /\ Keeps(s, t, Devices \ {d}) /\ Idle(t, d)
  BY <1>1, RemoveEffect
<1>3. PoolInv(t)
  BY <1>1, RemovePool DEF PmInv
<1>4. "hang" \notin Failures => Partition(t) /\ InTime(t)
  BY <1>1, RemovePartition DEF PmInv
<1> HIDE DEF t
<1>5. \A e \in Devices : (Has(t, e) => Has(s, e)) /\ Idle(t, e)
  BY <1>2 DEF Keeps, PmInv
<1>6. Failures \cap {"signal", "clean"} = {} => \A e \in Devices : Covered(t, e)
  <2> SUFFICES ASSUME Failures \cap {"signal", "clean"} = {}, NEW e \in Devices
               PROVE  Covered(t, e)
    OBVIOUS
  <2>1. Covered(s, e)
    BY DEF PmInv
  <2>2. CASE e = d
    BY <1>2, <2>2 DEF Covered
  <2>3. CASE e # d
    BY <1>2, <2>1, <2>3 DEF Keeps
  <2> QED BY <2>2, <2>3
<1> QED BY <1>2, <1>3, <1>4, <1>5, <1>6 DEF PmInv, Fewer, t

\* A change of the children that a signal, or a worker that ends with 0, allows.
LEMMA KilledPm ==
  ASSUME NEW s, NEW t \in States, PmInv(s), t.pool = s.pool, t.process = s.process,
         t.tasks = s.tasks, Failures \cap {"signal", "clean"} # {}
  PROVE  Fewer(s, t)
<1>1. \A e \in Devices : (Has(t, e) <=> Has(s, e)) /\ Idle(t, e)
  BY DEF Has, Idle, PmInv
<1>2. PoolInv(t)
  BY <1>1 DEF PmInv, PoolInv
<1>3. "hang" \notin Failures => Partition(t) /\ InTime(t)
  BY <1>1 DEF PmInv, Partition, InTime
<1> QED BY <1>1, <1>2, <1>3 DEF PmInv, Fewer

LEMMA LatePm ==
  ASSUME NEW s, NEW late \in SUBSET Devices, NEW order \in SetToSeqs(late), PmInv(s),
         \A e \in late : Has(s, e), "hang" \notin Failures => late = {}
  PROVE  Fewer(s, Removals(s, order)[Len(order)])
<1> DEFINE t == Removals(s, order)[Len(order)]
<1>1. s \in States
  BY DEF PmInv
<1>2. /\ t \in States /\ Keeps(s, t, Devices \ late)
      /\ \A e \in late : ~Has(t, e) /\ Idle(t, e)
      /\ PoolInv(s) => PoolInv(t)
      /\ late = {} => t = s
  BY <1>1, RemovalsEffect
<1> HIDE DEF t
<1>3. \A e \in Devices : (Has(t, e) => Has(s, e)) /\ Idle(t, e)
  BY <1>2 DEF Keeps, PmInv
<1>4. "hang" \notin Failures => Partition(t) /\ InTime(t)
  BY <1>2 DEF PmInv
<1>5. Failures \cap {"signal", "clean"} = {} => \A e \in Devices : Covered(t, e)
  <2> SUFFICES ASSUME Failures \cap {"signal", "clean"} = {}, NEW e \in Devices
               PROVE  Covered(t, e)
    OBVIOUS
  <2>1. Covered(s, e)
    BY DEF PmInv
  <2>2. CASE e \in late
    BY <1>2, <2>2 DEF Covered
  <2>3. CASE e \notin late
    BY <1>2, <2>1, <2>3 DEF Keeps
  <2> QED BY <2>2, <2>3
<1>6. Fewer(s, t)
  BY <1>2, <1>3, <1>4, <1>5 DEF PmInv, Fewer
<1> QED BY <1>6 DEF t

LEMMA FewerTwice ==
  ASSUME NEW s, NEW t, NEW u, Fewer(s, t), Fewer(t, u)
  PROVE  Fewer(s, u)
BY DEF Fewer

\* The ports of an entry that is late are given back twice: those of a device that
\* hangs, and of no other.
LEMMA ReleasePm ==
  ASSUME NEW s, PmInv(s), NEW g \in Groups, "hang" \in Failures
  PROVE  Fewer(s, Release(s, g))
<1> DEFINE pool == s.pool \o g
           t == Release(s, g)
<1>1. s \in States /\ s.pool \in Pools /\ Aligned(s.pool)
  BY StateFields DEF PmInv, PoolInv
<1>2. pool \in Pools /\ Aligned(pool)
  BY <1>1, GiveAligned
<1>3. t = [s EXCEPT !.pool = pool]
  BY DEF Release
<1> HIDE DEF pool, t
<1>4. /\ t \in States /\ t.pool = pool /\ t.process = s.process /\ t.children = s.children
      /\ t.tasks = s.tasks
  BY <1>1, <1>2, <1>3 DEF States, Pools
<1>5. \A e \in Devices : /\ Has(t, e) <=> Has(s, e)
                         /\ Covered(t, e) <=> Covered(s, e)
                         /\ Idle(t, e) <=> Idle(s, e)
  BY <1>4 DEF Has, Covered, HasWorker, Idle
<1>6. PoolInv(t)
  BY <1>2, <1>4, <1>5 DEF PmInv, PoolInv
<1>7. Fewer(s, t)
  BY <1>4, <1>5, <1>6 DEF PmInv, Fewer
<1> QED BY <1>7 DEF t

\* What holds of the tracker: what it found stuck is there.
TrackerInv ==
  /\ known \in [Devices -> {"gone", "offline", "device"}]
  /\ stuck \in SUBSET Devices
  /\ \A d \in stuck : known[d] # "gone"
  /\ events \in 0..MaxEvents

IInv == TrackerInv /\ PmInv(pm) /\ EntryIsTracked

LEMMA EventCounts ==
  ASSUME IInv, Event
  PROVE  events' \in 0..MaxEvents
BY ProviderAssumption DEF IInv, TrackerInv, Event

\* What a step must do to keep the invariant if it creates no entry.
LEMMA InvFromFewer ==
  ASSUME IInv, Fewer(pm, pm'), TrackerInv',
         \A d \in Devices : Has(pm', d) /\ (known'[d] = "gone" \/ d \in stuck')
                              => known[d] = "gone" \/ d \in stuck
  PROVE  IInv'
BY DEF IInv, Fewer, EntryIsTracked

\* A step of which the tracker sees nothing.
LEMMA InvFromQuiet ==
  ASSUME IInv, Fewer(pm, pm'), UNCHANGED <<known, stuck>>, UNCHANGED events \/ Event
  PROVE  IInv'
<1>1. events' \in 0..MaxEvents
  BY EventCounts DEF IInv, TrackerInv
<1>2. TrackerInv'
  BY <1>1 DEF IInv, TrackerInv
<1> QED BY <1>2, InvFromFewer

LEMMA ConnectInv ==
  ASSUME IInv, NEW d \in Devices, NEW type \in {"device", "offline"}, Connect(d, type)
  PROVE  IInv'
<1> DEFINE t == Create(pm, d, "pending")
<1>1. known[d] = "gone" /\ known' = [known EXCEPT ![d] = type] /\ stuck' = stuck /\ Event
  BY DEF Connect
<1>2. /\ TrackerInv' /\ known'[d] = type /\ d \notin stuck
      /\ \A e \in Devices \ {d} : known'[e] = known[e]
  BY <1>1, EventCounts DEF IInv, TrackerInv
<1>3. ~Has(pm, d) /\ pm \in States /\ PmInv(pm) /\ PoolInv(pm)
  BY <1>1 DEF IInv, EntryIsTracked, PmInv
<1>4. CASE ~Has(t, d)
  <2>1. pm' = pm
    BY <1>4 DEF Connect
  <2>2. Fewer(pm, pm')
    BY <1>3, <2>1 DEF Fewer
  <2> QED BY <1>1, <1>2, <2>2, InvFromFewer
<1>5. CASE Has(t, d)
  <2>1. Len(pm.pool) >= ResourceCount
    <3>1. Len(pm.pool) \in Nat /\ ResourceCount \in Nat
      BY <1>3, StateFields, PortsType DEF Pools
    <3>2. ~(Len(pm.pool) < ResourceCount)
      BY <1>3, <1>5 DEF Create
    <3> QED BY <3>1, <3>2
  <2>2. /\ t \in States /\ PoolInv(t) /\ t.process[d].state = "waiting"
        /\ Keeps(pm, t, Devices \ {d})
    BY <1>3, <2>1, CreateEffect
  <2>3. "hang" \notin Failures => Partition(t) /\ InTime(t)
    BY <1>3, <2>1, CreatePartition DEF PmInv
  <2>4. pm' = IF type = "device" THEN StartDeviceWork(t, d) ELSE t
    BY <1>3, <1>5 DEF Connect
  <2> HIDE DEF t
  <2>5. PmInv(t)
    <3>1. Failures \cap {"signal", "clean"} = {} => \A e \in Devices : Covered(t, e)
      <4> SUFFICES ASSUME Failures \cap {"signal", "clean"} = {}, NEW e \in Devices
                   PROVE  Covered(t, e)
        OBVIOUS
      <4>1. CASE e = d
        BY <2>2, <4>1 DEF Covered
      <4>2. CASE e # d
        BY <1>3, <2>2, <4>2 DEF PmInv, Keeps
      <4> QED BY <4>1, <4>2
    <3>2. \A e \in Devices : Idle(t, e)
      BY <1>3, <1>5, <2>2 DEF PmInv, Keeps, Idle
    <3> QED BY <2>2, <2>3, <3>1, <3>2 DEF PmInv
  <2>6. Fewer(t, StartDeviceWork(t, d))
    BY <1>5, <2>2, <2>5, StartDeviceWorkHarmless, HarmlessPm
  <2>7. PmInv(pm') /\ \A e \in Devices \ {d} : Has(pm', e) => Has(pm, e)
    BY <2>2, <2>4, <2>5, <2>6 DEF Fewer, Keeps
  <2>8. EntryIsTracked'
    BY <1>1, <1>2, <2>7 DEF IInv, EntryIsTracked
  <2> QED BY <1>2, <2>7, <2>8 DEF IInv
<1> QED BY <1>4, <1>5

LEMMA OfflineInv ==
  ASSUME IInv, NEW d \in Devices, Offline(d)
  PROVE  IInv'
<1> DEFINE t == Stop(pm, d)
           u == SetState(t, d, "waiting")
<1>1. pm \in States /\ PmInv(pm)
  BY DEF IInv, PmInv
<1>2. /\ TrackerInv' /\ known'[d] = "offline" /\ stuck' = stuck
      /\ \A e \in Devices \ {d} : known'[e] = known[e]
  BY EventCounts DEF Offline, IInv, TrackerInv
<1>3. CASE ~(Has(pm, d) /\ pm.process[d].state # "waiting")
  <2>1. pm' = pm
    BY <1>3 DEF Offline
  <2>2. Fewer(pm, pm')
    BY <1>1, <2>1 DEF Fewer
  <2> QED BY <1>2, <2>2, InvFromFewer
<1>4. CASE Has(pm, d) /\ pm.process[d].state # "waiting"
  <2>1. pm' = u
    BY <1>4 DEF Offline
  <2>2. /\ Harmless(pm, t, Devices \ {d})
        /\ Has(t, d) /\ t.process[d].ports = pm.process[d].ports
        /\ ~pm.process[d].late => ~t.process[d].late
    BY <1>1, <1>4, StopHarmless
  <2> HIDE DEF t
  <2>3. t \in States
    BY <2>2 DEF Harmless
  <2>4. "waiting" \in EntryState
    BY DEF EntryState
  <2>5. /\ u \in States /\ u.children = t.children /\ u.pool = t.pool /\ u.tasks = t.tasks
        /\ u.process = [t.process EXCEPT ![d] = u.process[d]]
        /\ Has(u, d) /\ u.process[d].state = "waiting" /\ ~u.process[d].late
        /\ u.process[d].ports = t.process[d].ports
    BY <2>2, <2>3, <2>4, SetStateEffect
  <2> HIDE DEF u
  <2>6. \A e \in (Devices \ {d}) \ {d} : HasWorker(t, e) => HasWorker(u, e)
    BY <2>5 DEF HasWorker
  <2>7. \A e \in Devices \ {d} : u.process[e] = t.process[e]
    BY <2>3, <2>5, StateFields
  <2>8. Keeps(t, u, Devices \ {d})
    BY <2>5, <2>7 DEF Keeps, Has, Covered, HasWorker, Idle
  <2>9. Keeps(pm, u, Devices \ {d})
    <3>1. Keeps(pm, u, (Devices \ {d}) \cap (Devices \ {d}))
      BY <2>2, <2>8, KeepsTwice DEF Harmless
    <3> QED BY <3>1
  <2>10. Keeps(pm, u, Devices)
    BY <1>4, <2>2, <2>5, <2>9 DEF Keeps, Covered, Idle
  <2>11. Harmless(pm, u, Devices)
    BY <2>2, <2>5, <2>10 DEF Harmless
  <2>12. Fewer(pm, pm')
    BY <1>1, <2>1, <2>11, HarmlessPm
  <2> QED BY <1>2, <2>12, InvFromFewer
<1> QED BY <1>3, <1>4

LEMMA OnlineInv ==
  ASSUME IInv, NEW d \in Devices, Online(d)
  PROVE  IInv'
<1>1. pm \in States /\ PmInv(pm)
  BY DEF IInv, PmInv
<1>2. /\ TrackerInv' /\ known'[d] = "device" /\ stuck' = stuck \ {d}
      /\ \A e \in Devices \ {d} : known'[e] = known[e]
  BY EventCounts DEF Online, IInv, TrackerInv
<1>3. Harmless(pm, pm', Devices)
  BY <1>1, StartDeviceWorkHarmless, HarmlessSame DEF Online
<1>4. Fewer(pm, pm')
  BY <1>1, <1>3, HarmlessPm
<1> QED BY <1>2, <1>4, InvFromFewer

LEMMA DisconnectInv ==
  ASSUME IInv, NEW d \in Devices, Disconnect(d)
  PROVE  IInv'
<1>1. pm \in States /\ PmInv(pm)
  BY DEF IInv, PmInv
<1>2. /\ TrackerInv' /\ stuck' = stuck \ {d}
      /\ \A e \in Devices \ {d} : known'[e] = known[e]
  BY EventCounts DEF Disconnect, IInv, TrackerInv
<1>3. Fewer(pm, pm') /\ ~Has(pm', d)
  <2>1. CASE Has(pm, d) /\ d \notin stuck
    <3>1. pm' = RemoveDevice(pm, d)
      BY <2>1 DEF Disconnect
    <3> QED BY <1>1, <2>1, <3>1, RemovePm
  <2>2. CASE ~(Has(pm, d) /\ d \notin stuck)
    <3>1. pm' = pm
      BY <2>2 DEF Disconnect
    <3>2. ~Has(pm, d)
      BY <2>2 DEF IInv, EntryIsTracked
    <3> QED BY <1>1, <3>1, <3>2 DEF Fewer
  <2> QED BY <2>1, <2>2
<1> QED BY <1>2, <1>3, InvFromFewer

LEMMA StuckEntries ==
  ASSUME NEW s, PmInv(s)
  PROVE  /\ Stuck(s) \in SUBSET Devices
         /\ \A e \in Stuck(s) : Has(s, e)
         /\ "hang" \notin Failures => Stuck(s) = {}
<1>1. s \in States /\ DOMAIN s.process = Devices
  BY StateFields DEF PmInv
<1>2. "hang" \notin Failures => InTime(s)
  BY DEF PmInv
<1> QED BY <1>1, <1>2 DEF Stuck, InTime

LEMMA UnresponsiveInv ==
  ASSUME IInv, NEW d \in Devices, NEW last \in BOOLEAN, Unresponsive(d, last)
  PROVE  IInv'
<1> DEFINE late == IF last THEN Stuck(pm) ELSE {}
           once == IF Has(pm, d) THEN RemoveDevice(pm, d) ELSE pm
           twice == IF d \in late THEN Release(once, pm.process[d].ports) ELSE once
           others == late \ {d}
<1>1. pm \in States /\ PmInv(pm)
  BY DEF IInv, PmInv
<1>2. TrackerInv' /\ stuck' = stuck \cup {d} /\ known' = known
  BY EventCounts DEF Unresponsive, Fails, IInv, TrackerInv
<1>3. /\ late \in SUBSET Devices
      /\ \A e \in late : Has(pm, e)
      /\ "hang" \notin Failures => late = {}
  BY <1>1, StuckEntries
<1>4. PICK order \in SetToSeqs(others) : pm' = Removals(twice, order)[Len(order)]
  BY DEF Unresponsive, RemoveLate
<1> HIDE DEF late
<1>5. Fewer(pm, once) /\ ~Has(once, d)
  BY <1>1, RemovePm DEF Fewer
<1>6. Fewer(once, twice)
  <2> HIDE DEF once
  <2>1. CASE d \in late
    <3>1. pm.process[d].ports \in Groups /\ "hang" \in Failures
      BY <1>1, <1>3, <2>1 DEF PmInv, PoolInv
    <3> QED BY <1>5, <2>1, <3>1, ReleasePm DEF Fewer
  <2>2. CASE d \notin late
    BY <1>5, <2>2 DEF Fewer
  <2> QED BY <2>1, <2>2
<1>7. \A e \in others : Has(twice, e)
  <2>1. \A e \in Devices \ {d} : Has(once, e) <=> Has(pm, e)
    BY <1>1, RemoveEffect DEF Keeps
  <2>2. twice.process = once.process
    <3> HIDE DEF once
    <3>1. once \in States
      BY <1>5 DEF Fewer, PmInv
    <3>2. \A g : Release(once, g).process = once.process
      BY <3>1 DEF Release, States
    <3> QED BY <3>2
  <2> HIDE DEF once, twice
  <2>3. \A e \in Devices : Has(twice, e) <=> Has(once, e)
    BY <2>2 DEF Has
  <2> QED BY <1>3, <2>1, <2>3
<1> HIDE DEF once, twice
<1>8. others \in SUBSET Devices /\ ("hang" \notin Failures => others = {})
  BY <1>3
<1> HIDE DEF others
<1>9. Fewer(twice, pm')
  BY <1>4, <1>6, <1>7, <1>8, LatePm DEF Fewer
<1>10. Fewer(pm, pm') /\ ~Has(pm', d)
  BY <1>5, <1>6, <1>9 DEF Fewer
<1> QED BY <1>2, <1>10, InvFromFewer

LEMMA HealthCheckInv ==
  ASSUME IInv, HealthCheck
  PROVE  IInv'
<1> DEFINE late == Stuck(pm)
<1>1. PmInv(pm)
  BY DEF IInv
<1>2. /\ late \in SUBSET Devices
      /\ \A e \in late : Has(pm, e)
      /\ "hang" \notin Failures => late = {}
  BY <1>1, StuckEntries
<1>3. PICK order \in SetToSeqs(late) : pm' = Removals(pm, order)[Len(order)]
  BY DEF HealthCheck, RemoveLate
<1> HIDE DEF late
<1>4. Fewer(pm, pm')
  BY <1>1, <1>2, <1>3, LatePm
<1> QED BY <1>4, InvFromQuiet DEF HealthCheck, Quiet

LEMMA RegisteredInv ==
  ASSUME IInv, NEW d \in Devices, Registered(d)
  PROVE  IInv'
<1>1. pm \in States /\ PmInv(pm)
  BY DEF IInv, PmInv
<1>2. Harmless(pm, pm', Devices)
  BY <1>1, ResolveHarmless DEF Registered
<1> QED BY <1>1, <1>2, HarmlessPm, InvFromQuiet DEF Registered, Quiet

Registrations == {"pending", "lost", "resolved", "rejected"}

\* The outcome of a registration is set where there is an entry.
LEMMA SetRegister ==
  ASSUME NEW s \in States, NEW d \in Devices, NEW t, NEW register \in Registrations,
         Harmless(s, t, Devices), Has(s, d)
  PROVE  Harmless(s, [t EXCEPT !.process[d].register = register], Devices)
<1>1. t \in States /\ Has(t, d)
  BY DEF Harmless, Keeps
<1>2. Harmless(t, [t EXCEPT !.process[d].register = register], Devices)
  BY <1>1, RegisterHarmless DEF Registrations
<1> QED BY <1>2, HarmlessTwice

LEMMA RegisterOf ==
  ASSUME NEW s \in States, NEW d \in Devices, Has(s, d)
  PROVE  s.process[d].register \in Registrations
BY EntryFields DEF Entry, Registrations

LEMMA RegisterTimeoutInv ==
  ASSUME IInv, NEW d \in Devices, RegisterTimeout(d)
  PROVE  IInv'
<1> DEFINE t == Move(pm, d, "register", "reregister")
           register == IF t.process[d].register = "pending" THEN "rejected"
                       ELSE t.process[d].register
           u == [t EXCEPT !.process[d].register = register]
<1>1. pm \in States /\ PmInv(pm)
  BY DEF IInv, PmInv
<1>2. pm' = u
  BY DEF RegisterTimeout
<1>3. Harmless(pm, t, Devices) /\ t.process = pm.process
  BY <1>1, MoveHarmless DEF Awaits
<1> HIDE DEF t
<1>4. Has(pm, d)
  <2>1. pm.tasks[d]["register"] > 0 /\ Idle(pm, d)
    BY <1>1 DEF RegisterTimeout, PmInv
  <2> QED BY <2>1 DEF Idle
<1>5. t \in States /\ Has(t, d)
  BY <1>3, <1>4 DEF Harmless, Keeps
<1>6. register \in Registrations
  BY <1>5, RegisterOf DEF Registrations
<1> HIDE DEF register
<1>7. Harmless(pm, pm', Devices)
  BY <1>1, <1>2, <1>3, <1>4, <1>6, SetRegister
<1> QED BY <1>1, <1>7, HarmlessPm, InvFromQuiet DEF RegisterTimeout, Fails

LEMMA ResetInv ==
  ASSUME IInv, Reset, UNCHANGED events \/ Event
  PROVE  IInv'
<1>1. PmInv(pm') /\ \A e \in Devices : ~Has(pm', e)
  BY FreshPm DEF Reset
<1>2. events' \in 0..MaxEvents
  BY EventCounts DEF IInv, TrackerInv
<1>3. TrackerInv'
  BY <1>2 DEF Reset, TrackerInv
<1> QED BY <1>1, <1>3 DEF IInv, EntryIsTracked

\* A coroutine that awaits something else than the registration goes on or ends.
LEMMA LessHarmless ==
  ASSUME NEW s \in States, NEW d \in Devices, NEW a \in Awaits, s.tasks[d][a] > 0, a # "register"
  PROVE  LET t == [s EXCEPT !.tasks[d][a] = @ - 1]
         IN  Harmless(s, t, Devices) /\ t.process = s.process
<1> DEFINE tasks == [s.tasks EXCEPT ![d][a] = @ - 1]
           t == [s EXCEPT !.tasks[d][a] = @ - 1]
<1>1. s.tasks[d][a] \in Nat /\ s.tasks[d][a] - 1 \in Nat
  BY StateFields
<1>2. tasks \in TaskCounts
  BY <1>1, StateFields DEF TaskCounts
<1>3. t = [s EXCEPT !.tasks = tasks]
  BY DEF States
<1>4. \A e \in Devices : tasks[e]["register"] = s.tasks[e]["register"]
  <2>1. \A e \in Devices \ {d} : tasks[e] = s.tasks[e]
    BY StateFields
  <2>2. tasks[d]["register"] = s.tasks[d]["register"]
    BY StateFields DEF Awaits
  <2> QED BY <2>1, <2>2
<1> HIDE DEF tasks, t
<1>5. \A e \in Devices : Idle(s, e) => Has(s, e) \/ tasks[e]["register"] = 0
  BY <1>4 DEF Idle
<1>6. Harmless(s, t, Devices) /\ t.process = s.process
  BY <1>2, <1>3, <1>5, TasksHarmless
<1> QED BY <1>6 DEF t

LEMMA LostTimeoutInv ==
  ASSUME IInv, NEW d \in Devices, LostTimeout(d)
  PROVE  IInv'
<1> DEFINE less == [pm EXCEPT !.tasks[d]["lost"] = @ - 1]
           t == [pm EXCEPT !.tasks[d]["lost"] = @ - 1, !.tasks[d]["reregister"] = @ + 1]
           counts == [pm.tasks[d] EXCEPT !["lost"] = @ - 1, !["reregister"] = @ + 1]
           tasks == [pm.tasks EXCEPT ![d] = counts]
<1>1. pm \in States /\ PmInv(pm) /\ pm.tasks[d]["lost"] > 0
  BY DEF IInv, PmInv, LostTimeout
<1>2. Harmless(pm, less, Devices)
  BY <1>1, LessHarmless DEF Awaits
<1>3. Harmless(pm, t, Devices)
  <2>1. pm.tasks[d]["lost"] - 1 \in Nat /\ pm.tasks[d]["reregister"] \in Nat
    BY <1>1, StateFields DEF Awaits
  <2>2. tasks \in TaskCounts
    <3>1. pm.tasks \in [Devices -> [Awaits -> Nat]] /\ pm.tasks[d] \in [Awaits -> Nat]
      BY <1>1, StateFields
    <3>2. counts \in [Awaits -> Nat]
      BY <2>1, <3>1 DEF Awaits
    <3> HIDE DEF counts
    <3> QED BY <3>1, <3>2 DEF TaskCounts
  <2>3. t = [pm EXCEPT !.tasks = tasks]
    <3>1. pm.tasks \in [Devices -> [Awaits -> Nat]] /\ pm.tasks[d] \in [Awaits -> Nat]
      BY <1>1, StateFields
    <3>2. [pm.tasks EXCEPT ![d]["lost"] = @ - 1, ![d]["reregister"] = @ + 1] = tasks
      BY <3>1 DEF Awaits
    <3>3. t = [pm EXCEPT !.tasks = [pm.tasks EXCEPT ![d]["lost"] = @ - 1, ![d]["reregister"] = @ + 1]]
      BY <1>1 DEF States
    <3> QED BY <3>2, <3>3
  <2>4. \A e \in Devices : tasks[e]["register"] = pm.tasks[e]["register"]
    <3>1. \A e \in Devices \ {d} : tasks[e] = pm.tasks[e]
      BY <1>1, StateFields
    <3>2. tasks[d]["register"] = pm.tasks[d]["register"]
      BY <1>1, StateFields DEF Awaits
    <3> QED BY <3>1, <3>2
  <2> HIDE DEF tasks, t
  <2>5. \A e \in Devices : Idle(pm, e) => Has(pm, e) \/ tasks[e]["register"] = 0
    BY <2>4 DEF Idle
  <2> QED BY <1>1, <2>2, <2>3, <2>5, TasksHarmless
<1>4. \/ pm' = less
      \/ pm' = t
      \/ Has(pm, d) /\ pm' = [t EXCEPT !.process[d].register = "rejected"]
  BY DEF LostTimeout
<1> HIDE DEF less, t
<1>5. Harmless(pm, pm', Devices)
  <2>1. CASE pm' = less
    BY <1>2, <2>1
  <2>2. CASE pm' = t
    BY <1>3, <2>2
  <2>3. CASE Has(pm, d) /\ pm' = [t EXCEPT !.process[d].register = "rejected"]
    <3>1. "rejected" \in Registrations
      BY DEF Registrations
    <3> QED BY <1>1, <1>3, <2>3, <3>1, SetRegister
  <2> QED BY <1>4, <2>1, <2>2, <2>3
<1> QED BY <1>1, <1>5, HarmlessPm, InvFromQuiet DEF LostTimeout, Quiet

LEMMA ReregisterInv ==
  ASSUME IInv, NEW d \in Devices, NEW a \in {"reregister", "stale"}, Reregister(d, a)
  PROVE  IInv'
<1> DEFINE s == [pm EXCEPT !.tasks[d][a] = @ - 1]
           m == Move(s, d, "register", "lost")
           t == Await(m, d, "register")
           register == IF a = "reregister" THEN "pending"
                       ELSE IF t.process[d].register = "pending" THEN "lost"
                       ELSE t.process[d].register
<1>1. pm \in States /\ PmInv(pm) /\ pm.tasks[d][a] > 0 /\ a \in Awaits
  BY DEF IInv, PmInv, Reregister, Awaits
<1>2. pm' = IF ~Has(pm, d) THEN s ELSE [t EXCEPT !.process[d].register = register]
  BY DEF Reregister
<1>3. Harmless(pm, s, Devices)
  BY <1>1, LessHarmless
<1> HIDE DEF s
<1>4. CASE ~Has(pm, d)
  BY <1>1, <1>2, <1>3, <1>4, HarmlessPm, InvFromQuiet DEF Reregister, Quiet
<1>5. CASE Has(pm, d)
  <2>1. Harmless(s, m, Devices) /\ Has(s, d)
    BY <1>3, <1>5, MoveHarmless DEF Awaits, Harmless, Keeps
  <2> HIDE DEF m
  <2>2. Harmless(m, t, Devices)
    BY <2>1, AwaitHarmless DEF Awaits, Harmless, Keeps
  <2> HIDE DEF t
  <2>3. Harmless(pm, t, Devices)
    <3>1. Harmless(pm, m, Devices)
      BY <1>3, <2>1, HarmlessTwice
    <3> QED BY <2>2, <3>1, HarmlessTwice
  <2>4. t \in States /\ Has(t, d)
    BY <1>5, <2>3 DEF Harmless, Keeps
  <2>5. register \in Registrations
    BY <2>4, RegisterOf DEF Registrations
  <2> HIDE DEF register
  <2>6. Harmless(pm, pm', Devices)
    BY <1>1, <1>2, <1>5, <2>3, <2>5, SetRegister
  <2> QED BY <1>1, <2>6, HarmlessPm, InvFromQuiet DEF Reregister, Quiet
<1> QED BY <1>4, <1>5

LEMMA StartAgainInv ==
  ASSUME IInv, NEW d \in Devices, StartAgain(d)
  PROVE  IInv'
<1> DEFINE s == [pm EXCEPT !.tasks[d]["restart"] = @ - 1]
<1>1. pm \in States /\ PmInv(pm) /\ pm.tasks[d]["restart"] > 0
  BY DEF IInv, PmInv, StartAgain
<1>2. Harmless(pm, s, Devices)
  BY <1>1, LessHarmless DEF Awaits
<1>3. pm' = Launch(s, d, 1)
  BY DEF StartAgain
<1> HIDE DEF s
<1>4. Harmless(s, pm', Devices)
  BY <1>2, <1>3, LaunchHarmless DEF Harmless
<1>5. Harmless(pm, pm', Devices)
  BY <1>2, <1>4, HarmlessTwice
<1> QED BY <1>1, <1>5, HarmlessPm, InvFromQuiet DEF StartAgain, Quiet

LEMMA StartsLateInv ==
  ASSUME IInv, NEW d \in Devices, StartsLate(d)
  PROVE  IInv'
<1>1. pm \in States /\ PmInv(pm) /\ Has(pm, d) /\ "hang" \in Failures
  BY DEF IInv, PmInv, StartsLate, Fails
<1>2. pm.process[d] \in Entry
  BY <1>1, EntryFields
<1> DEFINE e == [pm.process[d] EXCEPT !.late = TRUE]
<1>3. /\ e \in Entry /\ e # NoProcess
      /\ e.ports = pm.process[d].ports /\ e.state = pm.process[d].state
  BY <1>2, EntryAssumption DEF Entry
<1>4. pm' = [pm EXCEPT !.process = [pm.process EXCEPT ![d] = e]]
  BY <1>1 DEF StartsLate, States
<1> HIDE DEF e
<1>5. /\ pm' \in States /\ pm'.pool = pm.pool /\ pm'.children = pm.children
      /\ pm'.tasks = pm.tasks /\ pm'.process = [pm.process EXCEPT ![d] = e]
  BY <1>1, <1>3, <1>4 DEF States
<1>6. \A f \in Devices : /\ Has(pm', f) <=> Has(pm, f)
                         /\ pm'.process[f].ports = pm.process[f].ports
                         /\ pm'.process[f].state = pm.process[f].state
  BY <1>1, <1>3, <1>5, StateFields DEF Has
<1>7. PoolInv(pm')
  BY <1>1, <1>5, <1>6 DEF PmInv, PoolInv
<1>8. \A f \in Devices : Idle(pm', f) /\ (Covered(pm, f) => Covered(pm', f))
  BY <1>1, <1>5, <1>6 DEF PmInv, Idle, Covered, HasWorker
<1>9. Fewer(pm, pm')
  BY <1>1, <1>5, <1>6, <1>7, <1>8 DEF PmInv, Fewer
<1> QED BY <1>9, InvFromQuiet DEF StartsLate, Fails

LEMMA WorkerReadyInv ==
  ASSUME IInv, NEW i \in DOMAIN pm.children, WorkerReady(i)
  PROVE  IInv'
<1>1. pm \in States /\ PmInv(pm)
  BY DEF IInv, PmInv
<1>2. Harmless(pm, pm', Devices)
  BY <1>1, ReadyHarmless DEF WorkerReady
<1> QED BY <1>1, <1>2, HarmlessPm, InvFromQuiet DEF WorkerReady, Quiet

LEMMA WorkerExitsInv ==
  ASSUME IInv, NEW i \in DOMAIN pm.children, WorkerExits(i)
  PROVE  IInv'
<1>1. pm \in States /\ PmInv(pm)
  BY DEF IInv, PmInv
<1>2. Harmless(pm, pm', Devices)
  BY <1>1, RetryHarmless DEF WorkerExits
<1> QED BY <1>1, <1>2, HarmlessPm, InvFromQuiet DEF WorkerExits, Fails

LEMMA WorkerKilledInv ==
  ASSUME IInv, NEW i \in DOMAIN pm.children, WorkerKilled(i)
  PROVE  IInv'
<1> DEFINE t == Drop(pm, i)
           d == pm.children[i].device
<1>1. pm \in States /\ PmInv(pm) /\ "signal" \in Failures /\ d \in Devices
  BY ChildFields DEF IInv, PmInv, WorkerKilled, Fails, Child
<1>2. t \in States /\ t.pool = pm.pool /\ t.tasks = pm.tasks /\ t.process = pm.process
  BY <1>1, DropEffect
<1>3. pm' = t \/ pm' = StartLater(t, d)
  BY DEF WorkerKilled
<1> HIDE DEF t, d
<1>4. Fewer(pm, t)
  BY <1>1, <1>2, KilledPm
<1>5. Fewer(pm, pm')
  <2>1. CASE pm' = t
    BY <1>4, <2>1
  <2>2. CASE pm' # t
    <3>1. Has(t, d) /\ pm' = Await(t, d, "restart")
      BY <1>3, <2>2 DEF StartLater
    <3>2. "restart" \in Awaits
      BY DEF Awaits
    <3>3. Harmless(t, pm', Devices)
      BY <1>1, <1>2, <3>1, <3>2, AwaitHarmless
    <3>4. Fewer(t, pm')
      BY <1>4, <3>3, HarmlessPm DEF Fewer
    <3> QED BY <1>4, <3>4, FewerTwice
  <2> QED BY <2>1, <2>2
<1> QED BY <1>5, InvFromQuiet DEF WorkerKilled, Fails

LEMMA WorkerStopsInv ==
  ASSUME IInv, NEW i \in DOMAIN pm.children, WorkerStops(i)
  PROVE  IInv'
<1> DEFINE t == Drop(pm, i)
<1>1. pm \in States /\ PmInv(pm) /\ "clean" \in Failures
  BY DEF IInv, PmInv, WorkerStops, Fails
<1>2. t \in States /\ t.pool = pm.pool /\ t.tasks = pm.tasks /\ t.process = pm.process
  BY <1>1, DropEffect
<1>3. pm' = t
  BY DEF WorkerStops
<1> HIDE DEF t
<1>4. Fewer(pm, pm')
  BY <1>1, <1>2, <1>3, KilledPm
<1> QED BY <1>4, InvFromQuiet DEF WorkerStops, Fails

LEMMA WorkerRestartsInv ==
  ASSUME IInv, NEW i \in DOMAIN pm.children, WorkerRestarts(i)
  PROVE  IInv'
<1>1. pm \in States /\ PmInv(pm)
  BY DEF IInv, PmInv
<1>2. Harmless(pm, pm', Devices)
  BY <1>1, RestartHarmless DEF WorkerRestarts
<1> QED BY <1>1, <1>2, HarmlessPm, InvFromQuiet DEF WorkerRestarts, Quiet

LEMMA WorkerDiesInv ==
  ASSUME IInv, NEW i \in DOMAIN pm.children, WorkerDies(i)
  PROVE  IInv'
<1>1. pm \in States /\ PmInv(pm)
  BY DEF IInv, PmInv
<1>2. Harmless(pm, pm', Devices)
  BY <1>1, DropHarmless DEF WorkerDies
<1> QED BY <1>1, <1>2, HarmlessPm, InvFromQuiet DEF WorkerDies, Quiet

-----------------------------------------------------------------------------
(* The theorems. *)

LEMMA InitInv == Init => IInv
<1> SUFFICES ASSUME Init PROVE IInv
  OBVIOUS
<1>1. PmInv(pm) /\ \A e \in Devices : ~Has(pm, e)
  BY FreshPm DEF Init
<1>2. TrackerInv
  BY ProviderAssumption DEF Init, TrackerInv
<1> QED BY <1>1, <1>2 DEF IInv, EntryIsTracked

LEMMA NextInv == IInv /\ [Next]_vars => IInv'
<1> SUFFICES ASSUME IInv, [Next]_vars PROVE IInv'
  OBVIOUS
<1>1. CASE UNCHANGED vars
  BY <1>1 DEF IInv, TrackerInv, EntryIsTracked, vars
<1>2. ASSUME NEW d \in Devices, NEW type \in {"device", "offline"}, Connect(d, type) PROVE IInv'
  BY <1>2, ConnectInv
<1>3. ASSUME NEW d \in Devices, Offline(d) \/ Online(d) \/ Disconnect(d) PROVE IInv'
  BY <1>3, OfflineInv, OnlineInv, DisconnectInv
<1>4. ASSUME NEW d \in Devices, NEW last \in BOOLEAN, Unresponsive(d, last) PROVE IInv'
  BY <1>4, UnresponsiveInv
<1>5. ASSUME NEW d \in Devices, Registered(d) \/ RegisterTimeout(d) \/ LostTimeout(d) PROVE IInv'
  BY <1>5, RegisteredInv, RegisterTimeoutInv, LostTimeoutInv
<1>6. ASSUME NEW d \in Devices, UnhandledTimeout(d) PROVE IInv'
  BY <1>6, ResetInv DEF UnhandledTimeout, Fails
<1>7. ASSUME NEW d \in Devices, NEW a \in {"reregister", "stale"}, Reregister(d, a) PROVE IInv'
  BY <1>7, ReregisterInv
<1>8. ASSUME NEW d \in Devices, StartAgain(d) \/ StartsLate(d) PROVE IInv'
  BY <1>8, StartAgainInv, StartsLateInv
<1>9. ASSUME NEW i \in DOMAIN pm.children,
             WorkerReady(i) \/ WorkerExits(i) \/ WorkerKilled(i) \/ WorkerStops(i)
      PROVE  IInv'
  BY <1>9, WorkerReadyInv, WorkerExitsInv, WorkerKilledInv, WorkerStopsInv
<1>10. ASSUME NEW i \in DOMAIN pm.children, WorkerRestarts(i) \/ WorkerDies(i) PROVE IInv'
  BY <1>10, WorkerRestartsInv, WorkerDiesInv
<1>11. CASE HealthCheck
  BY <1>11, HealthCheckInv
<1>12. CASE Shutdown
  BY <1>12, ResetInv DEF Shutdown
<1> QED BY <1>1, <1>2, <1>3, <1>4, <1>5, <1>6, <1>7, <1>8, <1>9, <1>10, <1>11, <1>12 DEF Next

LEMMA Invariance == Spec => []IInv
BY InitInv, NextInv, PTL DEF Spec

\* The provider keeps its types: among them, that the ports of the pool and of every entry
\* are ports it was given, and that no count of coroutines becomes negative.
THEOREM TypeCorrect == Spec => []TypeOK
<1>1. IInv => TypeOK
  BY DEF IInv, TrackerInv, PmInv, TypeOK
<1> QED BY <1>1, Invariance, PTL

\* Whatever fails: no entry, and no ports, are kept for a device that is gone or stuck.
THEOREM EntriesTracked == Spec => []EntryIsTracked
<1>1. IInv => EntryIsTracked
  BY DEF IInv
<1> QED BY <1>1, Invariance, PTL

\* Whatever fails, a hanging worker that makes the provider release ports twice included: the
\* ports of a device are one of the groups options.ports is made of.
THEOREM FixedGroups == Spec => []PortsInFixedGroups
<1>1. IInv => PortsInFixedGroups
  <2> SUFFICES ASSUME IInv, NEW d \in Devices, Has(pm, d)
               PROVE  \E k \in 0..Len(AllPorts) \div ResourceCount - 1 : pm.process[d].ports = Group(k)
    BY DEF PortsInFixedGroups, Group
  <2>1. pm.process[d].ports \in Groups
    BY DEF IInv, PmInv, PoolInv
  <2> QED BY <2>1 DEF Groups
<1> QED BY <1>1, Invariance, PTL

\* Unless a worker hangs, every port is in the pool once or belongs to one device.  A device
\* that hangs when the tracker finds it stuck is removed twice, and its ports released twice.
THEOREM Ports ==
  ASSUME "hang" \notin Failures
  PROVE  Spec => []PortsPartition
<1>1. IInv => PortsPartition
  BY PartitionCounts DEF IInv, PmInv
<1> QED BY <1>1, Invariance, PTL

\* Unless a worker is killed by a signal or exits with code 0, an entry in state "running" has
\* a worker, or one that is started again in two seconds.
THEOREM Crashed ==
  ASSUME Failures \cap {"signal", "clean"} = {}
  PROVE  Spec => []CrashedWorkerRestarts
<1>1. IInv => CrashedWorkerRestarts
  BY DEF IInv, PmInv, Covered, HasWorker, CrashedWorkerRestarts
<1> QED BY <1>1, Invariance, PTL
=============================================================================
