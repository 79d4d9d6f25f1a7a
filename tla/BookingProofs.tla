---------------------------- MODULE BookingProofs ----------------------------
(***************************************************************************)
(* What holds of Booking for any sets of groups, devices and requests, any *)
(* windows and quotas, and any bounds.                                     *)
(*                                                                         *)
(* The first part is about handlers that interleave as they like: TypeInv  *)
(* says what a handler has in its hands at each of its steps.  The second  *)
(* is about handlers that run alone: AloneInv says that what the one that  *)
(* is under way has read is still true, and what it owes, PlacedInv where  *)
(* the devices are.                                                        *)
(***************************************************************************)
EXTENDS Booking, FiniteSetTheorems, SequenceTheorems, TLAPS

\* What a handler has read and computed when it comes to a step: both documents, one, none.
Both == {"load", "charge", "check", "storeAdded", "current", "uncharge", "storeRemoved",
         "returnRemoved", "unsubscribe", "release", "refund", "returnDeleted", "conflicts",
         "chargeUpdate", "storeUpdate"}
GoodCall(c) ==
  /\ c.pc \notin {"reserve", "insert"} => c.group \in Groups
  /\ c.pc \in {"reserve", "insert"} => c.new \in Group
  /\ c.pc \in Both => c.snap \in Group /\ c.new \in Group
  /\ c.pc \in {"activate", "activateDevices"} => c.snap \in Group
  /\ c.pc = "deleteOne" => c.snap = NoGroup \/ (c.snap \in Group /\ c.new \in Group)
GoodCalls == {c \in Calls : GoodCall(c)}
Handlers == [Procs -> GoodCalls \cup {Idle}]
Scheds == [reload : BOOLEAN, queue : Seq(Tasks), timer : Tasks \cup {NoTask}]
DataOK ==
  /\ groups \in [Groups -> Group \cup {NoGroup}]
  /\ used \subseteq Groups
  /\ user \in User
  /\ current \in [Devices -> Groups \cup {Origin}]
ClockOK == now \in Times /\ requests \in 0..MaxRequests /\ crashes \in 0..MaxCrashes
TypeInv == DataOK /\ ClockOK /\ calls \in Handlers /\ sched \in Scheds

-----------------------------------------------------------------------------
(* Numbers, documents, tasks.                                              *)

LEMMA MinOfTwo ==
  ASSUME NEW a \in Int, NEW b \in Int
  PROVE  Min({a, b}) = IF a <= b THEN a ELSE b
BY DEF Min

LEMMA MaxOfTwo ==
  ASSUME NEW a \in Int, NEW b \in Int
  PROVE  Max({a, b}) = IF a >= b THEN a ELSE b
BY DEF Max

\* The update of the consumed duration keeps the rest of the user, and the quota.
LEMMA ChargedKeeps ==
  ASSUME NEW u \in User, NEW old \in Int, NEW new \in Int
  PROVE  /\ Charged(u, old, new) \in User
         /\ Charged(u, old, new).number = u.number
         /\ u.duration <= AllocatedDuration => Charged(u, old, new).duration <= AllocatedDuration
<1>1. CASE u.duration + new - old <= AllocatedDuration
  <2> DEFINE r == [u EXCEPT !.duration = @ + new - old]
  <2>1. r \in User /\ r.number = u.number /\ r.duration = u.duration + new - old
    BY DEF User
  <2> QED BY <1>1, <2>1 DEF Charged
<1>2. CASE ~(u.duration + new - old <= AllocatedDuration)
  BY <1>2 DEF Charged
<1> QED BY <1>1, <1>2

\* A group's duration is a number, whatever of its devices is counted.
LEMMA DurationType ==
  ASSUME NEW doc \in Group, NEW devices \in SUBSET Devices
  PROVE  ComputeDuration(doc, devices) \in Int
<1>1. Cardinality(devices) \in Nat
  BY BookingAssumption, FS_Subset, FS_CardinalityType
<1>2. doc.start \in Int /\ doc.stop \in Int
  BY BookingAssumption DEF Group, Times
<1> QED BY <1>1, <1>2 DEF ComputeDuration

\* The documents a request makes, and those it computes from one it has read.
LEMMA DatedDocs ==
  ASSUME NEW w \in Windows, NEW state \in {"pending", "ready"}
  PROVE  /\ [start |-> w[1], stop |-> w[2], devices |-> {}, duration |-> 0,
             state |-> state, isActive |-> FALSE] \in Group
         /\ \A doc \in Group : [doc EXCEPT !.start = w[1], !.stop = w[2], !.state = state,
                                            !.isActive = FALSE] \in Group
<1>1. w[1] \in Times /\ w[2] \in Times
  BY BookingAssumption DEF Times
<1>2. [start |-> w[1], stop |-> w[2], devices |-> {}, duration |-> 0,
       state |-> state, isActive |-> FALSE] \in Group
  BY <1>1 DEF Group
<1>3. ASSUME NEW doc \in Group
      PROVE  [doc EXCEPT !.start = w[1], !.stop = w[2], !.state = state,
                         !.isActive = FALSE] \in Group
  BY <1>1 DEF Group
<1> QED BY <1>2, <1>3

LEMMA ChangedDocs ==
  ASSUME NEW doc \in Group, NEW devices \in SUBSET Devices, NEW d \in Int
  PROVE  /\ [doc EXCEPT !.devices = devices, !.duration = d] \in Group
         /\ [doc EXCEPT !.devices = devices] \in Group
         /\ [doc EXCEPT !.isActive = TRUE] \in Group
         /\ [doc EXCEPT !.duration = d] \in Group
BY DEF Group

\* The tasks of a group.
LEMMA TasksForType ==
  ASSUME NEW g \in Groups, NEW doc \in Group, NEW t
  PROVE  TasksFor(g, doc, t) \subseteq Tasks
BY DEF TasksFor, TaskOf, Tasks, Types, Group

LEMMA NextTaskType ==
  ASSUME NEW s \in Scheds
  PROVE  NextTask(s) \in Scheds
<1>1. CASE s.queue = <<>>
  BY <1>1 DEF NextTask, Scheds
<1>2. CASE s.queue # <<>>
  <2>1. s.queue \in Seq(Tasks)
    BY DEF Scheds
  <2>2. Head(s.queue) \in Tasks /\ Tail(s.queue) \in Seq(Tasks)
    BY <1>2, <2>1
  <2> QED BY <1>2, <2>2 DEF NextTask, Scheds
<1> QED BY <1>1, <1>2

LEMMA TouchedType ==
  ASSUME NEW touched, sched \in Scheds
  PROVE  Touched(touched) \in Scheds /\ NextTask(Touched(touched)) \in Scheds
<1>1. Touched(touched) \in Scheds
  BY DEF Touched, Scheds
<1> QED BY <1>1, NextTaskType

-----------------------------------------------------------------------------
(* Types.                                                                  *)

\* The handler p comes to hold c and the others hold what they held.
LEMMA Becomes ==
  ASSUME calls \in Handlers, NEW p \in Procs, NEW c \in GoodCalls \cup {Idle},
         calls' = [calls EXCEPT ![p] = c]
  PROVE  calls' \in Handlers
BY DEF Handlers

LEMMA GotoType ==
  ASSUME calls \in Handlers, NEW p \in Procs, calls[p] # Idle, NEW pc \in Pcs, Goto(p, pc),
         calls[p] \in GoodCalls => GoodCall([calls[p] EXCEPT !.pc = pc])
  PROVE  calls' \in Handlers
<1> DEFINE c == [calls[p] EXCEPT !.pc = pc]
<1>1. calls[p] \in GoodCalls
  BY DEF Handlers
<1>2. c \in GoodCalls
  BY <1>1 DEF GoodCalls, Calls
<1>3. calls' = [calls EXCEPT ![p] = c]
  BY DEF Goto, Handlers
<1> HIDE DEF c
<1> QED BY <1>2, <1>3, Becomes

LEMMA FinishType ==
  ASSUME calls \in Handlers, sched \in Scheds, NEW p \in Procs, NEW touched, Finish(p, touched)
  PROVE  calls' \in Handlers /\ sched' \in Scheds
<1>1. calls' \in Handlers
  BY Becomes DEF Finish
<1> QED BY <1>1, TouchedType DEF Finish

\* What is known of a handler at a step.
LEMMA Holds ==
  ASSUME TypeInv, NEW p \in Procs, calls[p] # Idle
  PROVE  calls[p] \in Calls /\ GoodCall(calls[p]) /\ calls[p] \in GoodCalls
BY DEF TypeInv, Handlers, GoodCalls

LEMMA TypeInvOK == TypeInv => TypeOK
<1>1. calls \in Handlers => calls \in [Procs -> Calls \cup {Idle}]
  BY DEF Handlers, GoodCalls
<1> QED BY <1>1 DEF TypeInv, TypeOK, DataOK, ClockOK, Scheds

LEMMA InitType == Init => TypeInv
<1> SUFFICES ASSUME Init PROVE TypeInv
  OBVIOUS
<1>1. DataOK /\ ClockOK
  BY BookingAssumption DEF Init, DataOK, ClockOK, User, Times
<1>2. calls \in Handlers /\ sched \in Scheds
  BY DEF Init, Handlers, Scheds
<1> QED BY <1>1, <1>2 DEF TypeInv

\* A request begins.
LEMMA BeginType ==
  ASSUME TypeInv, NEW p \in Requests, NEW c \in GoodCalls, Begin(p, c)
  PROVE  TypeInv'
<1>1. p \in Procs
  BY DEF Procs
<1>2. DataOK' /\ ClockOK'
  BY BookingAssumption DEF TypeInv, Begin, db, DataOK, ClockOK
<1>3. calls' \in Handlers /\ sched' \in Scheds
  BY <1>1, Becomes DEF TypeInv, Begin
<1> QED BY <1>2, <1>3 DEF TypeInv

LEMMA RequestType ==
  ASSUME TypeInv, NEW p \in Requests,
         \/ \E w \in Windows, state \in {"pending", "ready"} :
              CreateGroup(p, w, state) \/ \E g \in Groups : UpdateGroup(p, g, w, state)
         \/ \E g \in Groups, serials \in SUBSET Devices :
              AddGroupDevices(p, g, serials) \/ RemoveGroupDevices(p, g, serials)
         \/ \E g \in Groups : DeleteGroup(p, g)
  PROVE  TypeInv'
<1> USE DEF Call
<1>0. user \in User /\ \A g \in Groups : groups[g] \in Group \cup {NoGroup}
  BY DEF TypeInv, DataOK
<1>1. ASSUME NEW w \in Windows, NEW state \in {"pending", "ready"},
             CreateGroup(p, w, state)
      PROVE  TypeInv'
  <2> DEFINE new == [start |-> w[1], stop |-> w[2], devices |-> {}, duration |-> 0,
                     state |-> state, isActive |-> FALSE]
             c == Call("reserve", NoId, NoGroup, new, user)
  <2>2. new \in Group
    BY DatedDocs
  <2> HIDE DEF new
  <2>3. c \in GoodCalls
    BY <1>0, <2>2 DEF GoodCalls, GoodCall, Calls, Pcs, Both
  <2> QED BY <1>1, <2>3, BeginType DEF CreateGroup, new
<1>2. ASSUME NEW g \in Groups, NEW w \in Windows, NEW state \in {"pending", "ready"},
             UpdateGroup(p, g, w, state)
      PROVE  TypeInv'
  <2> DEFINE dates == [groups[g] EXCEPT !.start = w[1], !.stop = w[2], !.state = state,
                                        !.isActive = FALSE]
             new == [dates EXCEPT !.duration = ComputeDuration(dates, dates.devices)]
             conflicts == Call("conflicts", g, groups[g], new, NoUser)
             charge == Call("chargeUpdate", g, groups[g], new, NoUser)
  <2>1. groups[g] \in Group
    BY <1>0, <1>2 DEF UpdateGroup, Exists
  <2>2. dates \in Group
    BY <2>1, DatedDocs
  <2> HIDE DEF dates
  <2>3. ComputeDuration(dates, dates.devices) \in Int
    BY <2>2, DurationType DEF Group
  <2>4. new \in Group
    BY <2>2, <2>3, ChangedDocs DEF Group
  <2> HIDE DEF new
  <2>5. conflicts \in GoodCalls /\ charge \in GoodCalls
    BY <2>1, <2>4 DEF GoodCalls, GoodCall, Calls, Pcs, Both
  <2>6. Begin(p, conflicts) \/ Begin(p, charge)
    BY <1>2 DEF UpdateGroup, dates, new
  <2> QED BY <2>5, <2>6, BeginType
<1>3. ASSUME NEW g \in Groups, NEW serials \in SUBSET Devices, AddGroupDevices(p, g, serials)
      PROVE  TypeInv'
  <2> DEFINE devices == groups[g].devices \cup serials
             new == [groups[g] EXCEPT !.devices = devices,
                                      !.duration = ComputeDuration(groups[g], devices)]
             go == Call("current", g, groups[g], groups[g], NoUser)
             load == Call("load", g, groups[g], new, NoUser)
  <2>1. groups[g] \in Group
    BY <1>0, <1>3 DEF AddGroupDevices, Exists
  <2>2. devices \in SUBSET Devices
    BY <2>1 DEF Group
  <2> HIDE DEF devices
  <2>3. new \in Group
    BY <2>1, <2>2, DurationType, ChangedDocs
  <2> HIDE DEF new
  <2>4. go \in GoodCalls /\ load \in GoodCalls
    BY <2>1, <2>3 DEF GoodCalls, GoodCall, Calls, Pcs, Both
  <2>5. Begin(p, go) \/ Begin(p, load)
    BY <1>3 DEF AddGroupDevices, devices, new
  <2> QED BY <2>4, <2>5, BeginType
<1>4. ASSUME NEW g \in Groups, NEW serials \in SUBSET Devices, RemoveGroupDevices(p, g, serials)
      PROVE  TypeInv'
  <2> DEFINE devices == groups[g].devices \ serials
             new == [groups[g] EXCEPT !.devices = devices,
                                      !.duration = ComputeDuration(groups[g], devices)]
             c == Call("uncharge", g, groups[g], new, NoUser)
  <2>1. groups[g] \in Group
    BY <1>0, <1>4 DEF RemoveGroupDevices, Exists
  <2>2. devices \in SUBSET Devices
    BY <2>1 DEF Group
  <2> HIDE DEF devices
  <2>3. new \in Group
    BY <2>1, <2>2, DurationType, ChangedDocs
  <2> HIDE DEF new
  <2>4. c \in GoodCalls
    BY <2>1, <2>3 DEF GoodCalls, GoodCall, Calls, Pcs, Both
  <2>5. Begin(p, c)
    BY <1>4 DEF RemoveGroupDevices, devices, new
  <2> QED BY <2>4, <2>5, BeginType
<1>5. ASSUME NEW g \in Groups, DeleteGroup(p, g)
      PROVE  TypeInv'
  <2>1. Call("delete", g, NoGroup, NoGroup, NoUser) \in GoodCalls
    BY DEF GoodCalls, GoodCall, Calls, Pcs, Both
  <2> QED BY <1>5, <2>1, BeginType DEF DeleteGroup
<1> QED BY <1>1, <1>2, <1>3, <1>4, <1>5

\* The steps of a creation.
LEMMA CreateType ==
  ASSUME TypeInv, NEW p \in Procs, Reserve(p) \/ Insert(p) \/ Subscribe(p)
  PROVE  TypeInv'
<1>0. DataOK /\ ClockOK /\ calls \in Handlers /\ sched \in Scheds
  BY DEF TypeInv
<1>1. CASE Reserve(p)
  <2>1. calls[p] \in GoodCalls /\ calls[p] # Idle
    BY <1>1, Holds DEF Reserve, At
  <2>2. DataOK' /\ ClockOK'
    <3>1. user.number \in Nat /\ AllocatedNumber \in Nat
      BY <1>0, BookingAssumption DEF DataOK, User
    <3> DEFINE m == Min({user.number + 1, AllocatedNumber})
    <3>2. m \in 0..AllocatedNumber
      BY <3>1, MinOfTwo
    <3>4. user' = [user EXCEPT !.number = m]
      BY <1>1 DEF Reserve
    <3> HIDE DEF m
    <3>3. user' \in User
      BY <1>0, <3>2, <3>4 DEF DataOK, User
    <3> QED BY <1>0, <1>1, <3>3 DEF Reserve, DataOK, ClockOK, clock
  <2>3. CASE Goto(p, "insert") /\ UNCHANGED sched
    <3>1. GoodCall([calls[p] EXCEPT !.pc = "insert"])
      BY <1>1, <2>1 DEF Reserve, At, GoodCalls, GoodCall, Calls, Both
    <3>2. calls' \in Handlers
      BY <1>0, <2>1, <2>3, <3>1, GotoType DEF Pcs
    <3> QED BY <1>0, <2>2, <2>3, <3>2 DEF TypeInv
  <2>4. CASE Finish(p, FALSE)
    BY <1>0, <2>2, <2>4, FinishType DEF TypeInv
  <2> QED BY <1>1, <2>3, <2>4 DEF Reserve
<1>2. CASE Insert(p)
  <2>1. calls[p] \in GoodCalls /\ calls[p] # Idle /\ calls[p].new \in Group
    BY <1>2, Holds DEF Insert, At, GoodCall
  <2>2. PICK g \in Groups \ used :
          /\ groups' = [groups EXCEPT ![g] = calls[p].new]
          /\ used' = used \cup {g}
          /\ calls' = [calls EXCEPT ![p].pc = "subscribe", ![p].group = g]
    BY <1>2 DEF Insert
  <2> DEFINE c == [calls[p] EXCEPT !.pc = "subscribe", !.group = g]
  <2>3. c \in GoodCalls
    BY <2>1 DEF GoodCalls, GoodCall, Calls, Pcs, Both
  <2>4. calls' = [calls EXCEPT ![p] = c]
    BY <1>0, <2>2 DEF Handlers
  <2> HIDE DEF c
  <2>5. calls' \in Handlers
    BY <1>0, <2>3, <2>4, Becomes
  <2>6. DataOK' /\ ClockOK'
    BY <1>0, <1>2, <2>1, <2>2 DEF Insert, DataOK, ClockOK, clock
  <2>7. sched' \in Scheds
    BY <1>0, <1>2, TouchedType DEF Insert
  <2> QED BY <2>5, <2>6, <2>7 DEF TypeInv
<1>3. CASE Subscribe(p)
  <2>1. calls[p].group \in Groups
    BY <1>3, Holds DEF Subscribe, At, GoodCall
  <2>2. user' \in User
    BY <1>0, <1>3, <2>1 DEF Subscribe, DataOK, User
  <2>3. DataOK' /\ ClockOK'
    BY <1>0, <1>3, <2>2 DEF Subscribe, DataOK, ClockOK, clock
  <2> QED BY <1>0, <1>3, <2>3, FinishType DEF Subscribe, TypeInv
<1> QED BY <1>1, <1>2, <1>3

\* The steps that charge and give back, and those that look at the user or the groups.
LEMMA ChargeType ==
  ASSUME TypeInv, NEW p \in Procs,
         LoadOwner(p) \/ Charge(p) \/ Uncharge(p) \/ ChargeUpdate(p) \/ Refund(p)
  PROVE  TypeInv'
<1>0. DataOK /\ ClockOK /\ calls \in Handlers /\ sched \in Scheds
  BY DEF TypeInv
<1>1. /\ calls[p] \in GoodCalls /\ calls[p] # Idle
      /\ calls[p].snap \in Group /\ calls[p].new \in Group /\ calls[p].pc \in Both
  BY Holds DEF LoadOwner, Charge, Uncharge, ChargeUpdate, Refund, At, GoodCall, Both
<1>2. \A pc \in Both \cup {"find"} : GoodCall([calls[p] EXCEPT !.pc = pc])
  BY <1>1 DEF GoodCalls, GoodCall, Calls, Both
<1>3. /\ user \in User
      /\ calls[p].snap.duration \in Int /\ calls[p].new.duration \in Int /\ 0 \in Int
  BY <1>0, <1>1 DEF DataOK, Group
<1>4. CASE LoadOwner(p)
  <2> DEFINE c == [calls[p] EXCEPT !.pc = "charge", !.read = user]
  <2>1. c \in GoodCalls
    BY <1>1, <1>3 DEF GoodCalls, GoodCall, Calls, Pcs, Both
  <2>2. calls' = [calls EXCEPT ![p] = c]
    BY <1>0, <1>4 DEF LoadOwner, Handlers
  <2> HIDE DEF c
  <2>3. calls' \in Handlers
    BY <1>0, <2>1, <2>2, Becomes
  <2>4. DataOK' /\ ClockOK' /\ sched' \in Scheds
    BY <1>0, <1>4 DEF LoadOwner, DataOK, ClockOK, clock, db
  <2> QED BY <2>3, <2>4 DEF TypeInv
<1>5. ASSUME user' \in User, UNCHANGED <<groups, used, current, clock>>,
             \/ Finish(p, FALSE)
             \/ \E pc \in (Both \cup {"find"}) \cap Pcs : Goto(p, pc) /\ UNCHANGED sched
      PROVE  TypeInv'
  <2>1. DataOK' /\ ClockOK'
    BY <1>0, <1>5 DEF DataOK, ClockOK, clock
  <2>2. CASE Finish(p, FALSE)
    BY <1>0, <2>1, <2>2, FinishType DEF TypeInv
  <2>3. CASE \E pc \in (Both \cup {"find"}) \cap Pcs : Goto(p, pc) /\ UNCHANGED sched
    <3>1. PICK pc \in (Both \cup {"find"}) \cap Pcs : Goto(p, pc) /\ UNCHANGED sched
      BY <2>3
    <3>2. calls' \in Handlers
      BY <1>0, <1>1, <1>2, <3>1, GotoType
    <3> QED BY <1>0, <2>1, <3>1, <3>2 DEF TypeInv
  <2> QED BY <1>5, <2>2, <2>3
<1>6. CASE Charge(p)
  <2>1. user' \in User
    BY <1>3, <1>6, ChargedKeeps DEF Charge
  <2> QED BY <1>5, <1>6, <2>1 DEF Charge, Both, Pcs
<1>7. CASE Uncharge(p)
  <2>1. user' \in User
    BY <1>3, <1>7, ChargedKeeps DEF Uncharge
  <2> QED BY <1>5, <1>7, <2>1 DEF Uncharge, Both, Pcs
<1>8. CASE ChargeUpdate(p)
  <2>1. user' \in User
    BY <1>3, <1>8, ChargedKeeps DEF ChargeUpdate
  <2> QED BY <1>5, <1>8, <2>1 DEF ChargeUpdate, Both, Pcs
<1>9. CASE Refund(p)
  <2>1. user' \in User
    BY <1>3, <1>9, ChargedKeeps DEF Refund
  <2> QED BY <1>5, <1>9, <2>1 DEF Refund, Both, Pcs
<1> QED BY <1>4, <1>6, <1>7, <1>8, <1>9

\* The steps that write documents of groups, and those that look at them.
LEMMA GroupStepType ==
  ASSUME TypeInv, NEW p \in Procs,
         \/ CheckOverlaps(p) \/ StoreDevices(p) \/ CheckConflicts(p) \/ StoreUpdate(p)
         \/ Find(p) \/ DeleteRead(p) \/ DeleteOne(p) \/ ProcessTask(p) \/ ActivateFlag(p)
  PROVE  TypeInv'
<1>0. DataOK /\ ClockOK /\ calls \in Handlers /\ sched \in Scheds
  BY DEF TypeInv
<1>1. calls[p] \in GoodCalls /\ calls[p] # Idle /\ calls[p].group \in Groups
  BY Holds DEF CheckOverlaps, StoreDevices, CheckConflicts, StoreUpdate, Find, DeleteRead,
               DeleteOne, ProcessTask, ActivateFlag, At, GoodCall, Activate, Expire
<1>2. /\ groups \in [Groups -> Group \cup {NoGroup}]
      /\ groups[calls[p].group] \in Group \cup {NoGroup}
  BY <1>0, <1>1 DEF DataOK
<1>3. ASSUME groups' \in [Groups -> Group \cup {NoGroup}],
             UNCHANGED <<used, user, current, clock>>,
             \/ \E touched : Finish(p, touched)
             \/ calls' \in Handlers /\ sched' \in Scheds
      PROVE  TypeInv'
  <2>1. DataOK' /\ ClockOK'
    BY <1>0, <1>3 DEF DataOK, ClockOK, clock
  <2>2. calls' \in Handlers /\ sched' \in Scheds
    BY <1>0, <1>3, FinishType
  <2> QED BY <2>1, <2>2 DEF TypeInv
<1>4. ASSUME NEW pc \in Pcs, Goto(p, pc), UNCHANGED sched,
             GoodCall([calls[p] EXCEPT !.pc = pc])
      PROVE  calls' \in Handlers /\ sched' \in Scheds
  BY <1>0, <1>1, <1>4, GotoType
<1>5. CASE CheckOverlaps(p)
  <2>1. GoodCall([calls[p] EXCEPT !.pc = "storeAdded"])
    BY <1>1, <1>5 DEF CheckOverlaps, At, GoodCalls, GoodCall, Calls, Both
  <2> QED BY <1>2, <1>3, <1>4, <1>5, <2>1 DEF CheckOverlaps, db, Pcs
<1>6. CASE CheckConflicts(p)
  <2>1. GoodCall([calls[p] EXCEPT !.pc = "chargeUpdate"])
    BY <1>1, <1>6 DEF CheckConflicts, At, GoodCalls, GoodCall, Calls, Both
  <2> QED BY <1>2, <1>3, <1>4, <1>6, <2>1 DEF CheckConflicts, db, Pcs
<1>7. CASE Find(p)
  <2>1. GoodCall([calls[p] EXCEPT !.pc = "delete"])
    BY <1>1, <1>7 DEF Find, At, GoodCalls, GoodCall, Calls, Both
  <2> QED BY <1>2, <1>3, <1>4, <1>7, <2>1 DEF Find, db, Pcs
<1>8. CASE StoreDevices(p)
  <2>1. calls[p].snap \in Group /\ calls[p].new \in Group
    BY <1>1, <1>8 DEF StoreDevices, At, GoodCalls, GoodCall, Both
  <2> DEFINE g == calls[p].group
             doc == [groups[g] EXCEPT !.devices = calls[p].new.devices,
                                      !.duration = calls[p].new.duration]
             added == Call("current", g, calls[p].snap, doc, NoUser)
             removed == Call("returnRemoved", g, calls[p].snap, calls[p].new, NoUser)
  <2>2. CASE ~Exists(g)
    BY <1>2, <1>3, <1>8, <2>2 DEF StoreDevices
  <2>3. CASE Exists(g)
    <3>1. doc \in Group
      <4>1. groups[g] \in Group
        BY <1>2, <2>3 DEF Exists
      <4>2. calls[p].new.devices \in SUBSET Devices /\ calls[p].new.duration \in Int
        BY <2>1 DEF Group
      <4> QED BY <4>1, <4>2, ChangedDocs
    <3>2. /\ groups' = [groups EXCEPT ![g] = doc]
          /\ calls' = [calls EXCEPT ![p] = added] \/ calls' = [calls EXCEPT ![p] = removed]
          /\ sched' = Touched(TRUE)
          /\ UNCHANGED <<used, user, current, clock>>
      BY <1>0, <1>8, <2>3 DEF StoreDevices, Handlers
    <3> HIDE DEF doc
    <3>3. added \in GoodCalls /\ removed \in GoodCalls
      BY <1>1, <2>1, <3>1 DEF Call, GoodCalls, GoodCall, Calls, Pcs, Both
    <3>4. groups' \in [Groups -> Group \cup {NoGroup}]
      BY <1>1, <1>2, <3>1, <3>2
    <3> HIDE DEF added, removed
    <3>5. calls' \in Handlers /\ sched' \in Scheds
      BY <1>0, <3>2, <3>3, Becomes, TouchedType
    <3> QED BY <1>3, <3>2, <3>4, <3>5
  <2> QED BY <2>2, <2>3
<1>9. CASE StoreUpdate(p)
  <2>1. calls[p].new \in Group
    BY <1>1, <1>9 DEF StoreUpdate, At, GoodCalls, GoodCall, Both
  <2>2. Exists(calls[p].group) => groups[calls[p].group].devices \in SUBSET Devices
    BY <1>2 DEF Exists, Group
  <2>3. Exists(calls[p].group)
          => [calls[p].new EXCEPT !.devices = groups[calls[p].group].devices] \in Group
    BY <2>1, <2>2 DEF Group
  <2>4. groups' \in [Groups -> Group \cup {NoGroup}]
    BY <1>1, <1>2, <1>9, <2>3 DEF StoreUpdate
  <2> QED BY <1>3, <1>9, <2>4 DEF StoreUpdate
<1>10. CASE DeleteRead(p)
  <2> DEFINE doc == groups[calls[p].group]
             empty == IF doc = NoGroup THEN NoGroup
                      ELSE [doc EXCEPT !.devices = {}, !.duration = 0]
             c == [calls[p] EXCEPT !.pc = "deleteOne", !.snap = doc, !.new = empty]
  <2>1. ASSUME doc # NoGroup PROVE doc \in Group /\ empty \in Group
    <3>1. doc \in Group
      BY <1>2, <2>1
    <3> HIDE DEF doc
    <3>2. [doc EXCEPT !.devices = {}, !.duration = 0] \in Group
      <4>1. {} \in SUBSET Devices /\ 0 \in Int
        OBVIOUS
      <4> QED BY <3>1, <4>1, ChangedDocs
    <3> QED BY <2>1, <3>1, <3>2
  <2>2. doc = NoGroup => empty = NoGroup
    OBVIOUS
  <2>3. calls' = [calls EXCEPT ![p] = c] /\ UNCHANGED <<db, sched, clock>>
    BY <1>0, <1>10 DEF DeleteRead, Handlers
  <2> HIDE DEF doc, empty
  <2>4. c \in GoodCalls
    BY <1>1, <2>1, <2>2 DEF GoodCalls, GoodCall, Calls, Pcs, Both
  <2> HIDE DEF c
  <2>5. calls' \in Handlers
    BY <1>0, <2>3, <2>4, Becomes
  <2> QED BY <1>0, <1>2, <1>3, <2>3, <2>5 DEF db
<1>11. CASE DeleteOne(p)
  <2>1. groups' \in [Groups -> Group \cup {NoGroup}]
    BY <1>2, <1>11 DEF DeleteOne
  <2>2. calls[p].snap # NoGroup => GoodCall([calls[p] EXCEPT !.pc = "unsubscribe"])
    BY <1>1, <1>11 DEF DeleteOne, At, GoodCalls, GoodCall, Calls, Both
  <2> QED BY <1>3, <1>4, <1>11, <2>1, <2>2 DEF DeleteOne, Pcs
<1>12. CASE ProcessTask(p)
  <2> DEFINE doc == groups[calls[p].group]
             c == [calls[p] EXCEPT !.pc = IF At(p, Activate) THEN "activate" ELSE "delete",
                                   !.snap = doc]
  <2>1. CASE ~Exists(calls[p].group)
    BY <1>2, <1>3, <1>12, <2>1 DEF ProcessTask, db
  <2>2. CASE Exists(calls[p].group)
    <3>1. doc \in Group
      BY <1>2, <2>2 DEF Exists
    <3>2. calls' = [calls EXCEPT ![p] = c] /\ UNCHANGED <<db, sched, clock>>
      BY <1>0, <1>12, <2>2 DEF ProcessTask, Handlers
    <3> HIDE DEF doc
    <3>3. c \in GoodCalls
      <4>1. calls[p] \in Calls /\ calls[p].group \in Groups
        BY <1>1, <1>12 DEF GoodCalls, GoodCall, ProcessTask, Activate, Expire
      <4>2. \A pc \in {"activate", "delete"} :
              [calls[p] EXCEPT !.pc = pc, !.snap = doc] \in GoodCalls
        BY <3>1, <4>1 DEF GoodCalls, GoodCall, Calls, Pcs, Both
      <4> QED BY <4>2
    <3> HIDE DEF c
    <3>4. calls' \in Handlers
      BY <1>0, <3>2, <3>3, Becomes
    <3> QED BY <1>0, <1>2, <1>3, <3>2, <3>4 DEF db
  <2> QED BY <2>1, <2>2
<1>13. CASE ActivateFlag(p)
  <2>1. Exists(calls[p].group) => [groups[calls[p].group] EXCEPT !.isActive = TRUE] \in Group
    BY <1>2 DEF Exists, Group
  <2>2. groups' \in [Groups -> Group \cup {NoGroup}]
    BY <1>2, <1>13, <2>1 DEF ActivateFlag
  <2>3. GoodCall([calls[p] EXCEPT !.pc = "activateDevices"])
    BY <1>1, <1>13 DEF ActivateFlag, At, GoodCalls, GoodCall, Calls, Both
  <2> QED BY <1>3, <1>4, <1>13, <2>2, <2>3 DEF ActivateFlag, Pcs
<1> QED BY <1>5, <1>6, <1>7, <1>8, <1>9, <1>10, <1>11, <1>12, <1>13

\* The steps that move devices, and the end of a deletion.
LEMMA DeviceStepType ==
  ASSUME TypeInv, NEW p \in Procs,
         \/ MoveToCurrent(p) \/ ReturnToOrigin(p) \/ ActivateDevices(p)
         \/ Unsubscribe(p) \/ Release(p)
  PROVE  TypeInv'
<1>0. DataOK /\ ClockOK /\ calls \in Handlers /\ sched \in Scheds
  BY DEF TypeInv
<1>1. calls[p] \in GoodCalls /\ calls[p] # Idle /\ calls[p].group \in Groups
  BY Holds DEF MoveToCurrent, ReturnToOrigin, ActivateDevices, Unsubscribe, Release, At, GoodCall
<1>2. CASE MoveToCurrent(p) \/ ReturnToOrigin(p) \/ ActivateDevices(p)
  <2>1. current' \in [Devices -> Groups \cup {Origin}]
    BY <1>0, <1>1, <1>2 DEF MoveToCurrent, ReturnToOrigin, ActivateDevices, DataOK
  <2>2. UNCHANGED <<groups, used, user, clock>> /\ \E touched : Finish(p, touched)
    BY <1>2 DEF MoveToCurrent, ReturnToOrigin, ActivateDevices
  <2>3. DataOK' /\ ClockOK'
    BY <1>0, <2>1, <2>2 DEF DataOK, ClockOK, clock
  <2>4. calls' \in Handlers /\ sched' \in Scheds
    BY <1>0, <2>2, FinishType
  <2> QED BY <2>3, <2>4 DEF TypeInv
<1>3. CASE Unsubscribe(p)
  <2>1. user' \in User
    BY <1>0, <1>3 DEF Unsubscribe, DataOK, User
  <2>2. GoodCall([calls[p] EXCEPT !.pc = "release"])
    BY <1>1, <1>3 DEF Unsubscribe, At, GoodCalls, GoodCall, Calls, Both
  <2>3. calls' \in Handlers
    BY <1>0, <1>1, <1>3, <2>2, GotoType DEF Unsubscribe, Pcs
  <2>4. DataOK' /\ ClockOK' /\ sched' \in Scheds
    BY <1>0, <1>3, <2>1 DEF Unsubscribe, DataOK, ClockOK, clock
  <2> QED BY <2>3, <2>4 DEF TypeInv
<1>4. CASE Release(p)
  <2> DEFINE m == Max({user.number - 1, 0})
  <2>1. m \in 0..AllocatedNumber
    <3>1. user.number - 1 \in Int /\ user.number - 1 <= AllocatedNumber /\ AllocatedNumber \in Nat
      BY <1>0, BookingAssumption DEF DataOK, User
    <3> QED BY <3>1, MaxOfTwo
  <2>2. user' = [user EXCEPT !.number = m]
    BY <1>4 DEF Release
  <2> HIDE DEF m
  <2>3. user' \in User
    BY <1>0, <2>1, <2>2 DEF DataOK, User
  <2>4. GoodCall([calls[p] EXCEPT !.pc = "refund"])
    BY <1>1, <1>4 DEF Release, At, GoodCalls, GoodCall, Calls, Both
  <2>5. calls' \in Handlers
    BY <1>0, <1>1, <1>4, <2>4, GotoType DEF Release, Pcs
  <2>6. DataOK' /\ ClockOK' /\ sched' \in Scheds
    BY <1>0, <1>4, <2>3 DEF Release, DataOK, ClockOK, clock
  <2> QED BY <2>5, <2>6 DEF TypeInv
<1> QED BY <1>2, <1>3, <1>4

LEMMA StepType ==
  ASSUME TypeInv, NEW p \in Procs, Step(p)
  PROVE  TypeInv'
BY CreateType, ChargeType, GroupStepType, DeviceStepType DEF Step

\* The handler of a task of the scheduler.
LEMMA TaskGood ==
  ASSUME NEW task \in Tasks
  PROVE  Task(task) \in GoodCalls
BY DEF Task, Call, Tasks, Types, Activate, Expire, GoodCalls, GoodCall, Calls, Both

\* The queue the scheduler builds is a sequence of tasks.
LEMMA RebuiltType ==
  ASSUME NEW order, ToSet(order) \subseteq {g \in Groups : groups[g] \in Group},
         sched \in Scheds, NEW t, Rebuilt(sched, t, groups, order, now)
  PROVE  t \in Scheds
<1> DEFINE all == UNION {TasksFor(g, groups[g], now) : g \in ToSet(order)}
<1>1. PICK queue \in SetToSeqs(all) : t = NextTask([sched EXCEPT !.reload = FALSE, !.queue = queue])
  BY DEF Rebuilt
<1>2. all \subseteq Tasks
  BY TasksForType
<1>3. IsFiniteSet(all)
  <2> DEFINE places == Groups \X Types
             pair == [task \in all |-> <<task.group, task.type>>]
  <2>1. IsFiniteSet(Types)
    <3>1. IsFiniteSet({Activate}) /\ IsFiniteSet({Expire})
      BY FS_Singleton
    <3>2. Types = {Activate} \cup {Expire}
      BY DEF Types
    <3> QED BY <3>1, <3>2, FS_Union
  <2>2. IsFiniteSet(places)
    BY <2>1, BookingAssumption, FS_Product
  <2>3. pair \in Injection(all, places)
    <3>1. pair \in [all -> places]
      BY <1>2 DEF Tasks
    <3>2. ASSUME NEW a \in all, NEW b \in all, pair[a] = pair[b] PROVE a = b
      <4>1. PICK g \in ToSet(order) : a \in TasksFor(g, groups[g], now)
        OBVIOUS
      <4>2. PICK h \in ToSet(order) : b \in TasksFor(h, groups[h], now)
        OBVIOUS
      <4>3. a.group = g /\ b.group = h /\ a.group = b.group /\ a.type = b.type
        BY <3>2, <4>1, <4>2 DEF TasksFor, TaskOf
      <4>4. /\ a = TaskOf(g, Activate, groups[g].start) \/ a = TaskOf(g, Expire, groups[g].stop)
            /\ b = TaskOf(g, Activate, groups[g].start) \/ b = TaskOf(g, Expire, groups[g].stop)
        BY <4>1, <4>2, <4>3 DEF TasksFor
      <4>5. TaskOf(g, Activate, groups[g].start).type # TaskOf(g, Expire, groups[g].stop).type
        BY DEF TaskOf, Activate, Expire
      <4> QED BY <4>3, <4>4, <4>5
    <3> HIDE DEF pair
    <3> QED BY <3>1, <3>2 DEF Injection, IsInjective
  <2> QED BY <2>2, <2>3, FS_Injection
<1>4. queue \in Seq(Tasks)
  <2>1. Cardinality(all) \in Nat
    BY <1>3, FS_CardinalityType
  <2>2. queue \in [1..Cardinality(all) -> all]
    BY <1>1 DEF SetToSeqs
  <2> HIDE DEF all
  <2>3. queue \in [1..Cardinality(all) -> Tasks]
    BY <1>2, <2>2
  <2> QED BY <2>1, <2>3
<1>5. [sched EXCEPT !.reload = FALSE, !.queue = queue] \in Scheds
  BY <1>4 DEF Scheds
<1> QED BY <1>1, <1>5, NextTaskType

\* The scheduler, the clock and the end of the process.
LEMMA OtherType ==
  ASSUME TypeInv, Reload \/ TimerFires \/ Crash \/ Tick
  PROVE  TypeInv'
<1>0. DataOK /\ ClockOK /\ calls \in Handlers /\ sched \in Scheds
  BY DEF TypeInv
<1>1. CASE Reload
  <2>1. PICK order \in SetToSeqs(Ready) : Rebuilt(sched, sched', groups, order, now)
    BY <1>1 DEF Reload
  <2>2. ToSet(order) \subseteq {g \in Groups : groups[g] \in Group}
    <3>1. Ready \subseteq {g \in Groups : groups[g] \in Group}
      BY <1>0 DEF Ready, Exists, DataOK
    <3>2. order \in [1..Cardinality(Ready) -> Ready]
      BY <2>1 DEF SetToSeqs
    <3> QED BY <3>1, <3>2 DEF ToSet
  <2>3. sched' \in Scheds
    BY <1>0, <2>1, <2>2, RebuiltType
  <2>4. \A p \in Ready : DueFor(p, groups[p], now) # {}
          => Task(CHOOSE task \in DueFor(p, groups[p], now) : TRUE) \in GoodCalls
    <3>1. ASSUME NEW p \in Ready PROVE DueFor(p, groups[p], now) \subseteq Tasks
      <4>1. p \in Groups /\ groups[p] \in Group
        BY <1>0 DEF Ready, Exists, DataOK
      <4> QED BY <4>1, TasksForType DEF DueFor
    <3> QED BY <3>1, TaskGood
  <2>5. calls' \in Handlers
    BY <1>0, <1>1, <2>4 DEF Reload, Handlers
  <2>6. DataOK' /\ ClockOK'
    BY <1>0, <1>1 DEF Reload, db, clock, DataOK, ClockOK
  <2> QED BY <2>3, <2>5, <2>6 DEF TypeInv
<1>2. CASE TimerFires
  <2>1. sched.timer \in Tasks
    BY <1>0, <1>2 DEF TimerFires, Scheds
  <2>2. Timer \in Procs /\ Task(sched.timer) \in GoodCalls
    BY <2>1, TaskGood DEF Procs
  <2>3. calls' \in Handlers
    BY <1>0, <1>2, <2>2, Becomes DEF TimerFires
  <2>4. DataOK' /\ ClockOK' /\ sched' \in Scheds
    BY <1>0, <1>2 DEF TimerFires, db, clock, DataOK, ClockOK, Scheds
  <2> QED BY <2>3, <2>4 DEF TypeInv
<1>3. CASE Crash
  <2>1. calls' \in Handlers /\ sched' \in Scheds
    BY <1>3 DEF Crash, Handlers, Scheds
  <2>2. DataOK' /\ ClockOK'
    BY <1>0, <1>3, BookingAssumption DEF Crash, db, DataOK, ClockOK
  <2> QED BY <2>1, <2>2 DEF TypeInv
<1>4. CASE Tick
  <2>1. DataOK' /\ ClockOK'
    BY <1>0, <1>4, BookingAssumption DEF Tick, db, DataOK, ClockOK, Times
  <2>2. calls' \in Handlers /\ sched' \in Scheds
    BY <1>0, <1>4 DEF Tick
  <2> QED BY <2>1, <2>2 DEF TypeInv
<1> QED BY <1>1, <1>2, <1>3, <1>4

LEMMA NextType == TypeInv /\ [Next]_vars => TypeInv'
<1> SUFFICES ASSUME TypeInv, [Next]_vars PROVE TypeInv'
  OBVIOUS
<1>1. ASSUME NEW p \in Requests, NEW w \in Windows, NEW state \in {"pending", "ready"},
             \/ CreateGroup(p, w, state)
             \/ \E g \in Groups : UpdateGroup(p, g, w, state)
      PROVE  TypeInv'
  BY <1>1, RequestType
<1>2. ASSUME NEW p \in Requests, NEW g \in Groups,
             \/ \E serials \in SUBSET Devices \ {{}} :
                  AddGroupDevices(p, g, serials) \/ RemoveGroupDevices(p, g, serials)
             \/ DeleteGroup(p, g)
      PROVE  TypeInv'
  BY <1>2, RequestType
<1>3. ASSUME NEW p \in Procs, Step(p) PROVE TypeInv'
  BY <1>3, StepType
<1>4. CASE UNCHANGED vars
  BY <1>4 DEF vars, db, clock, TypeInv, DataOK, ClockOK
<1> QED BY <1>1, <1>2, <1>3, <1>4, OtherType DEF Next

\* TypeOK: every variable keeps its type, however the handlers interleave.
THEOREM TypeCorrect == Spec => []TypeOK
<1>1. Spec => []TypeInv
  BY InitType, NextType, PTL DEF Spec
<1> QED BY <1>1, TypeInvOK, PTL

-----------------------------------------------------------------------------
(* The quota.                                                              *)

\* A step leaves what is consumed, or charges it within what is allocated.
LEMMA StepQuota ==
  ASSUME TypeInv, NEW p \in Procs, Step(p), user.duration <= AllocatedDuration
  PROVE  user'.duration <= AllocatedDuration
<1>0. user \in User /\ calls \in Handlers
  BY DEF TypeInv, DataOK
<1>1. CASE Charge(p) \/ Uncharge(p) \/ ChargeUpdate(p) \/ Refund(p)
  <2>1. calls[p].snap \in Group /\ calls[p].new \in Group
    BY <1>1, Holds DEF Charge, Uncharge, ChargeUpdate, Refund, At, GoodCall, Both
  <2>2. calls[p].snap.duration \in Int /\ calls[p].new.duration \in Int /\ 0 \in Int
    BY <2>1 DEF Group
  <2>3. \/ user' = Charged(user, calls[p].snap.duration, calls[p].new.duration)
        \/ user' = Charged(user, calls[p].snap.duration, 0)
    BY <1>1 DEF Charge, Uncharge, ChargeUpdate, Refund
  <2> QED BY <1>0, <2>2, <2>3, ChargedKeeps
<1>2. CASE Reserve(p) \/ Release(p) \/ Subscribe(p) \/ Unsubscribe(p)
  <2> DEFINE min == Min({user.number + 1, AllocatedNumber})
             max == Max({user.number - 1, 0})
             g == calls[p].group
  <2>1. \/ user' = [user EXCEPT !.number = min] \/ user' = [user EXCEPT !.number = max]
        \/ user' = [user EXCEPT !.subscribed = @ \cup {g}]
        \/ user' = [user EXCEPT !.subscribed = @ \ {g}]
    BY <1>2 DEF Reserve, Release, Subscribe, Unsubscribe
  <2> HIDE DEF min, max, g
  <2>2. \A m, S : /\ [user EXCEPT !.number = m].duration = user.duration
                  /\ [user EXCEPT !.subscribed = S].duration = user.duration
    BY <1>0 DEF User
  <2> QED BY <2>1, <2>2
<1>3. CASE ~(\/ Charge(p) \/ Uncharge(p) \/ ChargeUpdate(p) \/ Refund(p)
             \/ Reserve(p) \/ Release(p) \/ Subscribe(p) \/ Unsubscribe(p))
  BY <1>3 DEF Step, Insert, LoadOwner, CheckOverlaps, StoreDevices, MoveToCurrent, ReturnToOrigin,
              Find, DeleteRead, DeleteOne, CheckConflicts, StoreUpdate, ProcessTask,
              ActivateFlag, ActivateDevices, db
<1> QED BY <1>1, <1>2, <1>3

\* ConsumedWithinQuota: what the owner has consumed never passes what is allocated, however
\* the handlers interleave and wherever the process ends.
THEOREM ConsumedWithinQuotaAlways == Spec => []ConsumedWithinQuota
<1> DEFINE Inv == TypeInv /\ user.duration <= AllocatedDuration
<1>1. Init => Inv
  BY InitType, BookingAssumption DEF Init
<1>2. Inv /\ [Next]_vars => Inv'
  <2> SUFFICES ASSUME Inv, [Next]_vars PROVE user'.duration <= AllocatedDuration
    BY NextType
  <2>1. ASSUME NEW p \in Procs, Step(p) PROVE user'.duration <= AllocatedDuration
    BY <2>1, StepQuota
  <2>2. ASSUME NEW p \in Requests, NEW c, Begin(p, c) PROVE user' = user
    BY <2>2 DEF Begin, db
  <2>3. ASSUME NEW p \in Requests, NEW w \in Windows, NEW state \in {"pending", "ready"},
               CreateGroup(p, w, state) \/ \E g \in Groups : UpdateGroup(p, g, w, state)
        PROVE  user' = user
    BY <2>2, <2>3 DEF CreateGroup, UpdateGroup
  <2>4. ASSUME NEW p \in Requests, NEW g \in Groups,
               \/ DeleteGroup(p, g)
               \/ \E serials \in SUBSET Devices \ {{}} :
                    AddGroupDevices(p, g, serials) \/ RemoveGroupDevices(p, g, serials)
        PROVE  user' = user
    BY <2>2, <2>4 DEF AddGroupDevices, RemoveGroupDevices, DeleteGroup
  <2>5. Reload \/ TimerFires \/ Crash \/ Tick \/ UNCHANGED vars => user' = user
    BY DEF Reload, TimerFires, Crash, Tick, vars, db
  <2> QED BY <2>1, <2>3, <2>4, <2>5 DEF Next
<1>3. Inv => ConsumedWithinQuota
  BY DEF TypeInv, DataOK, User, ConsumedWithinQuota
<1> QED BY <1>1, <1>2, <1>3, PTL DEF Spec

-----------------------------------------------------------------------------
(* Handlers that run alone.                                                *)

\* What the handler c has read and computed is true: nobody has changed it.
Held == {"load", "charge", "check", "storeAdded", "uncharge", "storeRemoved", "conflicts",
         "chargeUpdate", "storeUpdate", "deleteOne"}
Consistent(c) ==
  /\ c.pc = "reserve" => c.read = user
  /\ c.pc \in {"reserve", "insert"} => c.new.devices = {} /\ c.new.duration = 0
  /\ c.pc \in Held => c.snap = groups[c.group]
  /\ c.pc \in {"load", "charge", "check", "storeAdded", "uncharge", "storeRemoved"} =>
       c.new.duration = ComputeDuration(c.snap, c.new.devices)
  /\ c.pc \in {"uncharge", "storeRemoved"} => c.new.devices \subseteq c.snap.devices
  /\ c.pc = "storeAdded" => ~Taken(c.snap, c.new.devices \ c.snap.devices, Groups)
  /\ c.pc \in {"conflicts", "chargeUpdate", "storeUpdate"} =>
       c.new.devices = c.snap.devices /\ c.new.duration = ComputeDuration(c.new, c.new.devices)
  /\ c.pc \in {"chargeUpdate", "storeUpdate"} => ~Taken(c.new, c.new.devices, Groups \ {c.group})
One == \A p, q \in Procs : Started(p) /\ Started(q) => p = q
AllConsistent == \A p \in Procs : calls[p] # Idle => Consistent(calls[p])

\* The documents: windows that overlap share no device, ids are used once, durations are right.
Apart ==
  \A g, h \in Groups :
    g # h /\ Exists(g) /\ Exists(h) /\ DatesOverlap(groups[g], groups[h])
      => groups[g].devices \cap groups[h].devices = {}
Exact ==
  \A g \in Groups :
    Exists(g) => g \in used /\ groups[g].duration = ComputeDuration(groups[g], groups[g].devices)

\* A handler that has paid for a group that is not there yet, or no more, and what there
\* is with it.
Owes(p) == calls[p] # Idle /\ calls[p].pc \in {"insert", "unsubscribe", "release"}
Debt(p) == Cardinality(Existing) + IF Owes(p) THEN 1 ELSE 0
Paid ==
  /\ \A p \in Procs : Debt(p) <= user.number
  /\ crashes = 0 /\ (\A p \in Procs : ~Owes(p)) => Cardinality(Existing) = user.number
  /\ crashes = 0 => \A p \in Procs : Owes(p) => Debt(p) = user.number

AloneInv == One /\ AllConsistent /\ Apart /\ Exact /\ Paid

LEMMA CountType ==
  ASSUME TypeInv, NEW p \in Procs
  PROVE  Cardinality(Existing) \in Nat /\ Debt(p) \in Nat /\ user.number \in Nat
<1>1. IsFiniteSet(Existing)
  BY BookingAssumption, FS_Subset DEF Existing
<1>2. Cardinality(Existing) \in Nat
  BY <1>1, FS_CardinalityType
<1> QED BY <1>2, BookingAssumption DEF Debt, TypeInv, DataOK, User

\* The same groups exist, or one more, or one less.
LEMMA Counting ==
  ASSUME TypeInv, NEW g \in Groups, NEW doc, groups' = [groups EXCEPT ![g] = doc]
  PROVE  /\ (doc # NoGroup <=> Exists(g)) => Existing' = Existing
         /\ doc # NoGroup /\ ~Exists(g) => Cardinality(Existing') = Cardinality(Existing) + 1
         /\ doc = NoGroup /\ Exists(g) => Cardinality(Existing') = Cardinality(Existing) - 1
<1>0. groups \in [Groups -> Group \cup {NoGroup}]
  BY DEF TypeInv, DataOK
<1>1. IsFiniteSet(Existing)
  BY BookingAssumption, FS_Subset DEF Existing
<1>2. ASSUME doc # NoGroup <=> Exists(g) PROVE Existing' = Existing
  BY <1>0, <1>2 DEF Existing, Exists
<1>3. ASSUME doc # NoGroup, ~Exists(g)
      PROVE  Cardinality(Existing') = Cardinality(Existing) + 1
  <2>1. Existing' = Existing \cup {g} /\ g \notin Existing
    BY <1>0, <1>3 DEF Existing, Exists
  <2> QED BY <1>1, <2>1, FS_AddElement
<1>4. ASSUME doc = NoGroup, Exists(g)
      PROVE  Cardinality(Existing') = Cardinality(Existing) - 1
  <2>1. Existing' = Existing \ {g} /\ g \in Existing
    BY <1>0, <1>4 DEF Existing, Exists
  <2> QED BY <1>1, <2>1, FS_RemoveElement
<1> QED BY <1>2, <1>3, <1>4

\* A step of the one handler that runs: the others have nothing to lose.
LEMMA Solo ==
  ASSUME TypeInv, TypeInv', AloneInv, NEW p \in Procs, UNCHANGED crashes,
         \A q \in Procs \ {p} : ~Started(q) /\ calls'[q] = calls[q],
         (calls[p] # Idle => Consistent(calls[p]))',
         Apart', Exact', user'.number - Debt(p)' = user.number - Debt(p)
  PROVE  AloneInv'
<1>1. \A q \in Procs \ {p} : ~Started(q)'
  BY DEF Started
<1>2. One'
  BY <1>1 DEF One
<1>3. ASSUME NEW q \in Procs \ {p}, calls'[q] # Idle PROVE Consistent(calls[q])'
  <2>1. calls'[q].pc \in {Activate, Expire}
    BY <1>1, <1>3 DEF Started
  <2> QED BY <2>1 DEF Consistent, Held, Activate, Expire
<1>4. AllConsistent'
  BY <1>3 DEF AllConsistent
<1>5. \A q \in Procs \ {p} : ~Owes(q) /\ ~Owes(q)'
  BY <1>1 DEF Owes, Started, Activate, Expire
<1>6. /\ Debt(p) \in Nat /\ user.number \in Nat /\ Cardinality(Existing) \in Nat
      /\ Debt(p)' \in Nat /\ user'.number \in Nat /\ Cardinality(Existing') \in Nat
  <2>1. TypeInv => Debt(p) \in Nat /\ user.number \in Nat /\ Cardinality(Existing) \in Nat
    BY CountType
  <2>2. IsFiniteSet(Existing')
    BY BookingAssumption, FS_Subset DEF Existing
  <2>3. Cardinality(Existing') \in Nat
    BY <2>2, FS_CardinalityType
  <2> QED BY <2>1, <2>3, BookingAssumption DEF Debt, TypeInv, DataOK, User
<1>7. \A q \in Procs \ {p} : Debt(q)' <= Debt(p)'
  BY <1>5, <1>6 DEF Debt
<1>8. Debt(p) <= user.number /\ (crashes = 0 => Debt(p) = user.number)
  BY <1>5, <1>6 DEF AloneInv, Paid, Debt
<1>9. Debt(p)' <= user'.number /\ (crashes = 0 => Debt(p)' = user'.number)
  BY <1>6, <1>8
<1>10. Paid'
  <2>1. \A q \in Procs : Debt(q)' <= user'.number
    <3>1. \A q \in Procs \ {p} : Debt(q)' \in Nat
      BY <1>6 DEF Debt
    <3> QED BY <1>6, <1>7, <1>9, <3>1
  <2>2. (\A q \in Procs : ~Owes(q)') => Debt(p)' = Cardinality(Existing')
    BY <1>6 DEF Debt
  <2> QED BY <1>5, <1>9, <2>1, <2>2 DEF Paid
<1> QED BY <1>2, <1>4, <1>10 DEF AloneInv

LEMMA SameDocs ==
  ASSUME AloneInv, UNCHANGED <<groups, used>>
  PROVE  Apart' /\ Exact' /\ Existing' = Existing
BY DEF AloneInv, Apart, Exact, Existing, Exists

\* A step that changes no group and no number, and pays for none.
LEMMA Quiet ==
  ASSUME TypeInv, TypeInv', AloneInv, NEW p \in Procs, UNCHANGED <<groups, used, crashes>>,
         \A q \in Procs \ {p} : ~Started(q) /\ calls'[q] = calls[q],
         (calls[p] # Idle => Consistent(calls[p]))',
         user'.number = user.number, ~Owes(p), ~Owes(p)'
  PROVE  AloneInv'
<1>1. Apart' /\ Exact' /\ Existing' = Existing
  BY SameDocs
<1>2. Debt(p)' = Debt(p)
  BY <1>1 DEF Debt
<1>3. user'.number - Debt(p)' = user.number - Debt(p)
  BY <1>2
<1> QED BY <1>1, <1>3, Solo

\* When p runs, nobody else has started; after its step the others hold what they held.
LEMMA OneRuns ==
  ASSUME TypeInv, AloneInv, NEW p \in Procs, Started(p)
  PROVE  \A q \in Procs \ {p} : ~Started(q)
BY DEF AloneInv, One

LEMMA OthersWait ==
  ASSUME TypeInv, NEW p \in Procs, NEW touched, NEW pc,
         Goto(p, pc) \/ Finish(p, touched)
  PROVE  /\ \A q \in Procs \ {p} : calls'[q] = calls[q]
         /\ calls'[p] # Idle => calls'[p] = [calls[p] EXCEPT !.pc = pc]
BY DEF TypeInv, Handlers, Goto, Finish

\* The steps of a handler that change neither a group nor the number of groups.
LEMMA QuietSteps ==
  ASSUME TypeInv, TypeInv', AloneInv, NEW p \in Procs,
         \/ Charge(p) \/ Uncharge(p) \/ ChargeUpdate(p) \/ Refund(p) \/ Find(p)
         \/ CheckOverlaps(p) \/ CheckConflicts(p)
  PROVE  AloneInv'
<1>0. calls \in Handlers /\ user \in User
  BY DEF TypeInv, DataOK
<1>1. /\ calls[p] # Idle /\ calls[p] \in Calls /\ Consistent(calls[p])
      /\ calls[p].pc \in {"charge", "uncharge", "chargeUpdate", "refund", "find", "check",
                          "conflicts"}
  BY Holds DEF AloneInv, AllConsistent, Charge, Uncharge, ChargeUpdate, Refund, Find,
               CheckOverlaps, CheckConflicts, At
<1>2. \A q \in Procs \ {p} : ~Started(q)
  <2>1. Started(p)
    BY <1>1 DEF Started, Activate, Expire
  <2> QED BY <2>1, OneRuns
<1>3. user'.number = user.number
  <2>1. CASE Charge(p) \/ Uncharge(p) \/ ChargeUpdate(p) \/ Refund(p)
    <3>1. calls[p].snap \in Group /\ calls[p].new \in Group
      BY <2>1, Holds DEF Charge, Uncharge, ChargeUpdate, Refund, At, GoodCall, Both
    <3>2. calls[p].snap.duration \in Int /\ calls[p].new.duration \in Int /\ 0 \in Int
      BY <3>1 DEF Group
    <3>3. \/ user' = Charged(user, calls[p].snap.duration, calls[p].new.duration)
          \/ user' = Charged(user, calls[p].snap.duration, 0)
      BY <2>1 DEF Charge, Uncharge, ChargeUpdate, Refund
    <3> QED BY <1>0, <3>2, <3>3, ChargedKeeps
  <2>2. CASE Find(p) \/ CheckOverlaps(p) \/ CheckConflicts(p)
    BY <2>2 DEF Find, CheckOverlaps, CheckConflicts, db
  <2> QED BY <2>1, <2>2
<1>4. UNCHANGED <<groups, used, crashes>>
  BY DEF Charge, Uncharge, ChargeUpdate, Refund, Find, CheckOverlaps, CheckConflicts, db, clock
<1>5. PICK pc \in {"check", "find", "storeRemoved", "storeUpdate", "returnDeleted", "delete",
                   "storeAdded", "chargeUpdate"} :
        /\ Goto(p, pc) \/ Finish(p, FALSE)
        /\ pc = "check" => calls[p].pc = "charge"
        /\ pc = "storeRemoved" => calls[p].pc = "uncharge"
        /\ pc = "storeUpdate" => calls[p].pc = "chargeUpdate"
        /\ pc = "storeAdded" => calls[p].pc = "check" /\ (Goto(p, pc) =>
             ~Taken(calls[p].snap, calls[p].new.devices \ calls[p].snap.devices, Groups))
        /\ pc = "chargeUpdate" => calls[p].pc = "conflicts" /\ (Goto(p, pc) =>
             ~Taken(calls[p].new, calls[p].new.devices, Groups \ {calls[p].group}))
  BY <1>1 DEF Charge, Uncharge, ChargeUpdate, Refund, Find, CheckOverlaps, CheckConflicts, At
<1>6. /\ \A q \in Procs \ {p} : calls'[q] = calls[q]
      /\ calls'[p] # Idle => Goto(p, pc) /\ calls'[p] = [calls[p] EXCEPT !.pc = pc]
  BY <1>0, <1>5, OthersWait DEF Finish, Handlers
<1>7. ~Owes(p) /\ ~Owes(p)'
  BY <1>1, <1>5, <1>6 DEF Owes, Calls
<1>8. ASSUME calls'[p] # Idle PROVE Consistent(calls[p])'
  <2> DEFINE c == calls[p]
             d == calls'[p]
  <2>1. /\ d.pc = pc /\ d.group = c.group /\ d.snap = c.snap /\ d.new = c.new
        /\ c.pc \notin {"reserve", "insert", "deleteOne"}
    BY <1>1, <1>6, <1>8 DEF Calls
  <2>2. c.pc \in Held => c.snap = groups'[c.group]
    BY <1>1, <1>4 DEF Consistent
  <2>3. pc \in Held => c.pc \in Held
    BY <1>5 DEF Held
  <2>4. pc \in {"storeRemoved"} => c.new.devices \subseteq c.snap.devices
    BY <1>1, <1>5 DEF Consistent
  <2>5. pc \in {"check", "storeAdded", "storeRemoved"} =>
          c.new.duration = ComputeDuration(c.snap, c.new.devices)
    BY <1>1, <1>5 DEF Consistent
  <2>6. pc \in {"chargeUpdate", "storeUpdate"} =>
          /\ c.new.devices = c.snap.devices
          /\ c.new.duration = ComputeDuration(c.new, c.new.devices)
          /\ ~Taken(c.new, c.new.devices, Groups \ {c.group})
    BY <1>1, <1>5, <1>6, <1>8 DEF Consistent
  <2>7. pc = "storeAdded" => ~Taken(c.snap, c.new.devices \ c.snap.devices, Groups)
    BY <1>5, <1>6, <1>8
  <2>8. \A doc, devices, among : Taken(doc, devices, among)' <=> Taken(doc, devices, among)
    BY <1>4 DEF Taken, Exists
  <2>9. pc \notin {"reserve", "insert", "load", "charge", "uncharge", "conflicts"}
    BY <1>5
  <2> HIDE DEF c
  <2> QED BY <2>1, <2>2, <2>3, <2>4, <2>5, <2>6, <2>7, <2>8, <2>9 DEF Consistent
<1> QED BY <1>2, <1>3, <1>4, <1>6, <1>7, <1>8, Quiet

\* Those after which the handler has ended, or has nothing in its hands.
LEMMA LastSteps ==
  ASSUME TypeInv, TypeInv', AloneInv, Overlap = FALSE, NEW p \in Procs,
         \/ Subscribe(p) \/ MoveToCurrent(p) \/ ReturnToOrigin(p) \/ ActivateDevices(p)
         \/ ProcessTask(p)
  PROVE  AloneInv'
<1>0. calls \in Handlers /\ user \in User
  BY DEF TypeInv, DataOK
<1>1. \A q \in Procs \ {p} : ~Started(q)
  <2>1. CASE ProcessTask(p)
    BY <2>1 DEF ProcessTask, Alone
  <2>2. CASE ~ProcessTask(p)
    <3>1. Started(p)
      BY <2>2 DEF Subscribe, MoveToCurrent, ReturnToOrigin, ActivateDevices, At, Started,
                  Activate, Expire
    <3> QED BY <3>1, OneRuns
  <2> QED BY <2>1, <2>2
<1>2. UNCHANGED <<groups, used, crashes>> /\ user'.number = user.number
  <2>1. UNCHANGED <<groups, used, crashes>>
    BY DEF Subscribe, MoveToCurrent, ReturnToOrigin, ActivateDevices, ProcessTask, db, clock
  <2>2. user' = user \/ \E S : user' = [user EXCEPT !.subscribed = S]
    BY DEF Subscribe, MoveToCurrent, ReturnToOrigin, ActivateDevices, ProcessTask, db
  <2> QED BY <1>0, <2>1, <2>2 DEF User
<1>3. /\ \A q \in Procs \ {p} : calls'[q] = calls[q]
      /\ calls'[p] # Idle => calls'[p].pc \in {"activate", "delete"}
  <2>1. CASE \E touched : Finish(p, touched)
    BY <1>0, <2>1 DEF Finish, Handlers
  <2>2. CASE ProcessTask(p) /\ Exists(calls[p].group)
    <3>1. calls[p] \in GoodCalls
      BY <2>2, Holds DEF ProcessTask
    <3> QED BY <1>0, <2>2, <3>1 DEF ProcessTask, Handlers, GoodCalls, Calls
  <2> QED BY <2>1, <2>2 DEF Subscribe, MoveToCurrent, ReturnToOrigin, ActivateDevices, ProcessTask
<1>4. ~Owes(p) /\ ~Owes(p)'
  BY <1>3 DEF Owes, Subscribe, MoveToCurrent, ReturnToOrigin, ActivateDevices, ProcessTask, At,
              Activate, Expire
<1>5. (calls[p] # Idle => Consistent(calls[p]))'
  BY <1>3 DEF Consistent, Held
<1> QED BY <1>1, <1>2, <1>3, <1>4, <1>5, Quiet

\* Those that read the owner or the group.
LEMMA ReadSteps ==
  ASSUME TypeInv, TypeInv', AloneInv, NEW p \in Procs, LoadOwner(p) \/ DeleteRead(p)
  PROVE  AloneInv'
<1>0. calls \in Handlers
  BY DEF TypeInv
<1>1. calls[p] # Idle /\ calls[p] \in Calls /\ Consistent(calls[p])
  BY Holds DEF AloneInv, AllConsistent, LoadOwner, DeleteRead, At
<1>2. \A q \in Procs \ {p} : ~Started(q)
  <2>1. Started(p)
    BY DEF LoadOwner, DeleteRead, At, Started, Activate, Expire
  <2> QED BY <2>1, OneRuns
<1>3. UNCHANGED <<groups, used, user, crashes>>
  BY DEF LoadOwner, DeleteRead, db, clock
<1>4. CASE LoadOwner(p)
  <2>1. /\ calls' = [calls EXCEPT ![p].pc = "charge", ![p].read = user]
        /\ calls[p].pc = "load"
    BY <1>4 DEF LoadOwner, At
  <2>2. /\ \A q \in Procs \ {p} : calls'[q] = calls[q]
        /\ calls'[p].pc = "charge" /\ calls'[p].group = calls[p].group
        /\ calls'[p].snap = calls[p].snap /\ calls'[p].new = calls[p].new
    BY <1>0, <1>1, <2>1 DEF Handlers, Calls
  <2>3. ~Owes(p) /\ ~Owes(p)'
    BY <2>1, <2>2 DEF Owes
  <2>4. /\ calls[p].snap = groups[calls[p].group]
        /\ calls[p].new.duration = ComputeDuration(calls[p].snap, calls[p].new.devices)
    BY <1>1, <2>1 DEF Consistent, Held
  <2>5. Consistent(calls[p])'
    BY <1>3, <2>2, <2>4 DEF Consistent, Held
  <2> QED BY <1>2, <1>3, <2>2, <2>3, <2>5, Quiet
<1>5. CASE DeleteRead(p)
  <2> DEFINE doc == groups[calls[p].group]
             empty == IF doc = NoGroup THEN NoGroup
                      ELSE [doc EXCEPT !.devices = {}, !.duration = 0]
  <2>1. calls' = [calls EXCEPT ![p].pc = "deleteOne", ![p].snap = doc, ![p].new = empty]
    BY <1>5 DEF DeleteRead
  <2> HIDE DEF empty
  <2>2. /\ \A q \in Procs \ {p} : calls'[q] = calls[q]
        /\ calls'[p].pc = "deleteOne" /\ calls'[p].group = calls[p].group
        /\ calls'[p].snap = groups[calls[p].group]
    BY <1>0, <1>1, <2>1 DEF Handlers, Calls
  <2>3. ~Owes(p) /\ ~Owes(p)'
    BY <1>5, <2>2 DEF Owes, DeleteRead, At
  <2>4. Consistent(calls[p])'
    BY <1>3, <2>2 DEF Consistent, Held
  <2> QED BY <1>2, <1>3, <2>2, <2>3, <2>4, Quiet
<1> QED BY <1>4, <1>5

\* A handler that goes on is still there.
LEMMA GotoStarted ==
  ASSUME TypeInv, NEW p \in Procs, NEW pc \in Pcs, calls[p] # Idle, Goto(p, pc)
  PROVE  /\ calls'[p] # Idle
         /\ calls'[p] = [calls[p] EXCEPT !.pc = pc] /\ calls'[p].pc = pc
         /\ \A q \in Procs \ {p} : calls'[q] = calls[q]
<1>1. calls[p] \in Calls
  BY Holds
<1>2. calls' = [calls EXCEPT ![p] = [calls[p] EXCEPT !.pc = pc]]
  BY DEF Goto, TypeInv, Handlers
<1>3. [calls[p] EXCEPT !.pc = pc] \in Calls /\ [calls[p] EXCEPT !.pc = pc].pc = pc
  BY <1>1 DEF Calls
<1> QED BY <1>2, <1>3, DocumentAssumption DEF TypeInv, Handlers

\* The steps that count groups: one is paid for before it is there, and until it is gone.
LEMMA CountSteps ==
  ASSUME TypeInv, TypeInv', AloneInv, NEW p \in Procs, Reserve(p) \/ Unsubscribe(p) \/ Release(p)
  PROVE  AloneInv'
<1>0. calls \in Handlers /\ user \in User
  BY DEF TypeInv, DataOK
<1>1. calls[p] # Idle /\ calls[p] \in Calls /\ Consistent(calls[p])
  BY Holds DEF AloneInv, AllConsistent, Reserve, Unsubscribe, Release, At
<1>2. \A q \in Procs \ {p} : ~Started(q)
  <2>1. Started(p)
    BY DEF Reserve, Unsubscribe, Release, At, Started, Activate, Expire
  <2> QED BY <2>1, OneRuns
<1>3. UNCHANGED <<groups, used, crashes>> /\ Apart' /\ Exact' /\ Existing' = Existing
  <2>1. UNCHANGED <<groups, used, crashes>>
    BY DEF Reserve, Unsubscribe, Release, clock
  <2> QED BY <2>1, SameDocs
<1>4. Cardinality(Existing) \in Nat /\ user.number \in 0..AllocatedNumber /\ AllocatedNumber \in Nat
  BY <1>0, CountType, BookingAssumption DEF User
<1>5. CASE Reserve(p)
  <2> DEFINE m == Min({user.number + 1, AllocatedNumber})
  <2>1. user' = [user EXCEPT !.number = m] /\ calls[p].pc = "reserve"
    BY <1>5 DEF Reserve, At
  <2>2. m = user.number \/ m = user.number + 1
    BY <1>4, MinOfTwo
  <2> HIDE DEF m
  <2>3. calls[p].read = user /\ calls[p].new.devices = {} /\ calls[p].new.duration = 0
    BY <1>1, <2>1 DEF Consistent
  <2>4. CASE user' = calls[p].read
    <3>1. Finish(p, FALSE) /\ user' = user
      BY <1>5, <2>3, <2>4 DEF Reserve
    <3>2. calls'[p] = Idle /\ \A q \in Procs \ {p} : calls'[q] = calls[q]
      BY <1>0, <3>1 DEF Finish, Handlers
    <3>3. ~Owes(p) /\ ~Owes(p)'
      BY <2>1, <3>2 DEF Owes
    <3> QED BY <1>2, <1>3, <3>1, <3>2, <3>3, Quiet
  <2>5. CASE user' # calls[p].read
    <3>1. Goto(p, "insert")
      BY <1>5, <2>5 DEF Reserve
    <3>2. m # user.number
      BY <1>0, <2>1, <2>3, <2>5 DEF User
    <3>3. user'.number = user.number + 1
      BY <1>0, <2>1, <2>2, <3>2 DEF User
    <3>4. /\ \A q \in Procs \ {p} : calls'[q] = calls[q]
          /\ calls'[p].pc = "insert" /\ calls'[p].new = calls[p].new
      BY <1>0, <1>1, <3>1 DEF Goto, Handlers, Calls
    <3>5. Consistent(calls[p])'
      BY <2>3, <3>4 DEF Consistent, Held
    <3>6. ~Owes(p) /\ (calls'[p] # Idle => Owes(p)')
      BY <2>1, <3>4 DEF Owes
    <3>7. calls'[p] # Idle
      BY <1>1, <3>1, GotoStarted DEF Pcs
    <3>8. Debt(p) = Cardinality(Existing) /\ Debt(p)' = Cardinality(Existing) + 1
      BY <1>3, <1>4, <3>6, <3>7 DEF Debt
    <3> QED BY <1>2, <1>3, <1>4, <3>3, <3>4, <3>5, <3>8, Solo
  <2> QED BY <2>4, <2>5
<1>6. CASE Unsubscribe(p)
  <2>1. Goto(p, "release") /\ calls[p].pc = "unsubscribe"
    BY <1>6 DEF Unsubscribe, At
  <2>2. /\ calls'[p] # Idle /\ \A q \in Procs \ {p} : calls'[q] = calls[q]
        /\ calls'[p].pc = "release"
    BY <1>1, <2>1, GotoStarted DEF Pcs
  <2>3. user'.number = user.number
    BY <1>0, <1>6 DEF Unsubscribe, User
  <2>4. Debt(p)' = Debt(p)
    BY <1>1, <1>3, <2>1, <2>2 DEF Debt, Owes
  <2>5. Consistent(calls[p])'
    BY <2>2 DEF Consistent, Held
  <2> QED BY <1>2, <1>3, <2>2, <2>3, <2>4, <2>5, Solo
<1>7. CASE Release(p)
  <2> DEFINE m == Max({user.number - 1, 0})
  <2>1. user' = [user EXCEPT !.number = m] /\ Goto(p, "refund") /\ calls[p].pc = "release"
    BY <1>7 DEF Release, At
  <2>2. /\ calls'[p] # Idle /\ \A q \in Procs \ {p} : calls'[q] = calls[q]
        /\ calls'[p].pc = "refund"
    BY <1>1, <2>1, GotoStarted DEF Pcs
  <2>3. Debt(p) = Cardinality(Existing) + 1 /\ Debt(p)' = Cardinality(Existing)
    BY <1>1, <1>3, <1>4, <2>1, <2>2 DEF Debt, Owes
  <2>4. m = user.number - 1
    <3>1. Debt(p) <= user.number
      BY DEF AloneInv, Paid
    <3> QED BY <1>4, <2>3, <3>1, MaxOfTwo
  <2> HIDE DEF m
  <2>5. user'.number = user.number - 1
    BY <1>0, <2>1, <2>4 DEF User
  <2>6. Consistent(calls[p])'
    BY <2>2 DEF Consistent, Held
  <2> QED BY <1>2, <1>3, <1>4, <2>2, <2>3, <2>5, <2>6, Solo
<1> QED BY <1>5, <1>6, <1>7

\* One document is written that is paid for and apart from the others, or one is deleted.
LEMMA OneDoc ==
  ASSUME TypeInv, Apart, Exact, NEW g \in Groups, NEW doc \in Group,
         groups' = [groups EXCEPT ![g] = doc], g \in used', used \subseteq used',
         doc.duration = ComputeDuration(doc, doc.devices),
         \A h \in Groups \ {g} :
           Exists(h) /\ DatesOverlap(doc, groups[h]) => doc.devices \cap groups[h].devices = {}
  PROVE  Apart' /\ Exact'
<1>1. groups'[g] = doc /\ \A h \in Groups \ {g} : groups'[h] = groups[h]
  BY DEF TypeInv, DataOK
<1>2. \A h \in Groups \ {g} : Exists(h)' <=> Exists(h)
  BY <1>1 DEF Exists
<1>3. Exact'
  BY <1>1, <1>2 DEF Exact, Exists
<1>4. ASSUME NEW h \in Groups \ {g}, Exists(h), DatesOverlap(doc, groups[h])
      PROVE  doc.devices \cap groups[h].devices = {}
  BY <1>4
<1>5. \A h \in Groups : DatesOverlap(doc, groups[h]) <=> DatesOverlap(groups[h], doc)
  BY DEF DatesOverlap
<1>6. ASSUME NEW a \in Groups, NEW b \in Groups, a # b, Exists(a)', Exists(b)',
             DatesOverlap(groups'[a], groups'[b])
      PROVE  groups'[a].devices \cap groups'[b].devices = {}
  <2>1. CASE a = g
    BY <1>1, <1>2, <1>4, <1>6, <2>1
  <2>2. CASE b = g
    BY <1>1, <1>2, <1>4, <1>5, <1>6, <2>2
  <2>3. CASE a # g /\ b # g
    BY <1>1, <1>2, <1>6, <2>3 DEF Apart
  <2> QED BY <2>1, <2>2, <2>3
<1>7. Apart'
  BY <1>6 DEF Apart, DatesOverlap
<1> QED BY <1>3, <1>7

LEMMA NoDoc ==
  ASSUME TypeInv, Apart, Exact, NEW g \in Groups, groups' = [groups EXCEPT ![g] = NoGroup],
         used' = used
  PROVE  Apart' /\ Exact'
<1>1. groups'[g] = NoGroup /\ \A h \in Groups \ {g} : groups'[h] = groups[h]
  BY DEF TypeInv, DataOK
<1> QED BY <1>1 DEF Apart, Exact, Exists

\* A group is inserted under an id that no group has.
LEMMA InsertStep ==
  ASSUME TypeInv, TypeInv', AloneInv, NEW p \in Procs, Insert(p)
  PROVE  AloneInv'
<1> DEFINE new == calls[p].new
<1>0. /\ calls[p] # Idle /\ calls[p] \in Calls /\ calls[p].pc = "insert"
      /\ new \in Group /\ new.devices = {} /\ new.duration = 0
  BY Holds DEF Insert, At, GoodCall, AloneInv, AllConsistent, Consistent
<1>1. PICK g \in Groups \ used :
        /\ groups' = [groups EXCEPT ![g] = new] /\ used' = used \cup {g}
        /\ calls' = [calls EXCEPT ![p].pc = "subscribe", ![p].group = g]
  BY DEF Insert
<1>2. \A q \in Procs \ {p} : ~Started(q)
  <2>1. Started(p)
    BY <1>0 DEF Started, Activate, Expire
  <2> QED BY <2>1, OneRuns
<1> DEFINE c == [calls[p] EXCEPT !.pc = "subscribe", !.group = g]
<1>3. c \in Calls /\ c.pc = "subscribe"
  BY <1>0 DEF Calls, Pcs
<1>4. calls' = [calls EXCEPT ![p] = c]
  BY <1>1 DEF TypeInv, Handlers
<1> HIDE DEF new, c
<1>5. calls'[p] = c /\ \A q \in Procs \ {p} : calls'[q] = calls[q]
  BY <1>4 DEF TypeInv, Handlers
<1>6. new.duration = ComputeDuration(new, new.devices)
  <2>1. Cardinality({}) = 0 /\ new.start \in Int /\ new.stop \in Int
    BY <1>0, FS_EmptySet, BookingAssumption DEF Group, Times
  <2> QED BY <1>0, <2>1 DEF ComputeDuration
<1>7. Apart' /\ Exact'
  BY <1>0, <1>1, <1>6, OneDoc DEF AloneInv
<1>8. ~Exists(g) /\ new # NoGroup
  BY <1>0, <1>1, DocumentAssumption DEF AloneInv, Exact
<1>9. Cardinality(Existing') = Cardinality(Existing) + 1
  BY <1>1, <1>8, Counting
<1>10. Owes(p) /\ ~Owes(p)'
  BY <1>0, <1>3, <1>5 DEF Owes
<1>11. Cardinality(Existing) \in Nat
  BY CountType
<1>12. Debt(p)' = Debt(p)
  BY <1>9, <1>10, <1>11 DEF Debt
<1>13. Consistent(calls[p])'
  BY <1>3, <1>5 DEF Consistent, Held
<1>14. UNCHANGED <<user, crashes>>
  BY DEF Insert, clock
<1> QED BY <1>2, <1>5, <1>7, <1>12, <1>13, <1>14, Solo

\* A group is deleted that is still there, as the handler has just read it.
LEMMA DeleteStep ==
  ASSUME TypeInv, TypeInv', AloneInv, NEW p \in Procs, DeleteOne(p)
  PROVE  AloneInv'
<1> DEFINE g == calls[p].group
<1>0. /\ calls[p] # Idle /\ calls[p] \in Calls /\ calls[p].pc = "deleteOne"
      /\ g \in Groups /\ calls[p].snap = groups[g]
  BY Holds DEF DeleteOne, At, GoodCall, AloneInv, AllConsistent, Consistent, Held
<1>1. \A q \in Procs \ {p} : ~Started(q)
  <2>1. Started(p)
    BY <1>0 DEF Started, Activate, Expire
  <2> QED BY <2>1, OneRuns
<1>2. groups' = [groups EXCEPT ![g] = NoGroup] /\ UNCHANGED <<used, user, crashes>>
  BY DEF DeleteOne, clock
<1> HIDE DEF g
<1>3. Apart' /\ Exact'
  BY <1>0, <1>2, NoDoc DEF AloneInv
<1>4. Cardinality(Existing) \in Nat
  BY CountType
<1>5. CASE calls[p].snap = NoGroup
  <2>1. calls'[p] = Idle /\ \A q \in Procs \ {p} : calls'[q] = calls[q]
    BY <1>5 DEF DeleteOne, Finish, TypeInv, Handlers
  <2>2. Existing' = Existing
    BY <1>0, <1>2, <1>5, Counting DEF Exists
  <2>3. Debt(p)' = Debt(p)
    BY <1>0, <2>1, <2>2 DEF Debt, Owes
  <2> QED BY <1>1, <1>2, <1>3, <2>1, <2>3, Solo
<1>6. CASE calls[p].snap # NoGroup
  <2>1. Goto(p, "unsubscribe")
    BY <1>6 DEF DeleteOne
  <2>2. /\ calls'[p] # Idle /\ \A q \in Procs \ {p} : calls'[q] = calls[q]
        /\ calls'[p].pc = "unsubscribe"
    BY <1>0, <2>1, GotoStarted DEF Pcs
  <2>3. Cardinality(Existing') = Cardinality(Existing) - 1
    BY <1>0, <1>2, <1>6, Counting DEF Exists
  <2>4. Debt(p)' = Debt(p)
    BY <1>0, <1>4, <2>2, <2>3 DEF Debt, Owes
  <2>5. Consistent(calls[p])'
    BY <2>2 DEF Consistent, Held
  <2> QED BY <1>1, <1>2, <1>3, <2>2, <2>4, <2>5, Solo
<1> QED BY <1>5, <1>6

\* A group that is there is written again.
LEMMA WriteOver ==
  ASSUME TypeInv, TypeInv', AloneInv, NEW p \in Procs, NEW g \in Groups, NEW doc \in Group,
         Exists(g), groups' = [groups EXCEPT ![g] = doc], UNCHANGED <<used, user, crashes>>,
         \A q \in Procs \ {p} : ~Started(q) /\ calls'[q] = calls[q],
         (calls[p] # Idle => Consistent(calls[p]))', ~Owes(p), ~Owes(p)',
         doc.duration = ComputeDuration(doc, doc.devices),
         \A h \in Groups \ {g} :
           Exists(h) /\ DatesOverlap(doc, groups[h]) => doc.devices \cap groups[h].devices = {}
  PROVE  AloneInv'
<1>1. g \in used' /\ used \subseteq used'
  BY DEF AloneInv, Exact
<1>2. Apart' /\ Exact'
  BY <1>1, OneDoc DEF AloneInv
<1>3. Existing' = Existing
  BY Counting, DocumentAssumption
<1>4. Debt(p)' = Debt(p)
  BY <1>3 DEF Debt
<1> QED BY <1>2, <1>4, Solo

\* The devices that a handler adds were not taken when it looked, and are not taken now.
LEMMA StoreDevicesStep ==
  ASSUME TypeInv, TypeInv', AloneInv, NEW p \in Procs, StoreDevices(p)
  PROVE  AloneInv'
<1> DEFINE g == calls[p].group
           snap == calls[p].snap
           new == calls[p].new
           doc == [groups[g] EXCEPT !.devices = new.devices, !.duration = new.duration]
<1>0. /\ calls[p] # Idle /\ calls[p] \in Calls /\ GoodCall(calls[p]) /\ Consistent(calls[p])
      /\ calls[p].pc \in {"storeAdded", "storeRemoved"}
  BY Holds DEF StoreDevices, At, AloneInv, AllConsistent
<1>1. g \in Groups /\ snap \in Group /\ new \in Group /\ snap = groups[g]
  BY <1>0 DEF GoodCall, Both, Consistent, Held
<1>2. /\ new.duration = ComputeDuration(snap, new.devices)
      /\ calls[p].pc = "storeRemoved" => new.devices \subseteq snap.devices
      /\ calls[p].pc = "storeAdded" => ~Taken(snap, new.devices \ snap.devices, Groups)
  BY <1>0 DEF Consistent
<1>3. Exists(g)
  BY <1>1, DocumentAssumption DEF Exists
<1>4. \A q \in Procs \ {p} : ~Started(q)
  <2>1. Started(p)
    BY <1>0 DEF Started, Activate, Expire
  <2> QED BY <2>1, OneRuns
<1>5. /\ groups' = [groups EXCEPT ![g] = doc] /\ UNCHANGED <<used, user, crashes>>
      /\ calls' = [calls EXCEPT
           ![p] = IF At(p, "storeAdded") THEN Call("current", g, snap, doc, NoUser)
                  ELSE Call("returnRemoved", g, snap, new, NoUser)]
  BY <1>3 DEF StoreDevices, clock, TypeInv, Handlers
<1>6. /\ doc \in Group /\ doc.devices = new.devices /\ doc.duration = new.duration
      /\ doc.start = snap.start /\ doc.stop = snap.stop
  <2>1. /\ groups[g] \in Group /\ groups[g] = snap
        /\ new.devices \in SUBSET Devices /\ new.duration \in Int
    BY <1>1 DEF Group
  <2>2. doc \in Group
    BY <2>1, ChangedDocs
  <2> QED BY <2>1, <2>2 DEF Group
<1> HIDE DEF g, snap, new, doc
<1>7. /\ \A q \in Procs \ {p} : calls'[q] = calls[q]
      /\ calls'[p].pc \in {"current", "returnRemoved"}
  BY <1>5 DEF Call, TypeInv, Handlers
<1>8. doc.duration = ComputeDuration(doc, doc.devices)
  BY <1>2, <1>6 DEF ComputeDuration
<1>9. ASSUME NEW h \in Groups \ {g}, Exists(h), DatesOverlap(doc, groups[h])
      PROVE  doc.devices \cap groups[h].devices = {}
  <2>1. DatesOverlap(snap, groups[h])
    BY <1>6, <1>9 DEF DatesOverlap
  <2>2. snap.devices \cap groups[h].devices = {}
    BY <1>1, <1>3, <1>9, <2>1 DEF AloneInv, Apart
  <2>3. CASE calls[p].pc = "storeRemoved"
    BY <1>2, <1>6, <2>2, <2>3
  <2>4. CASE calls[p].pc = "storeAdded"
    <3>1. groups[h].devices \cap (new.devices \ snap.devices) = {}
      BY <1>2, <1>9, <2>1, <2>4 DEF Taken
    <3> QED BY <1>6, <2>2, <3>1
  <2> QED BY <1>0, <2>3, <2>4
<1>10. ~Owes(p) /\ ~Owes(p)'
  BY <1>0, <1>7 DEF Owes
<1>11. (calls[p] # Idle => Consistent(calls[p]))'
  BY <1>7 DEF Consistent, Held
<1>12. groups' = [groups EXCEPT ![g] = doc] /\ UNCHANGED <<used, user, crashes>>
  BY <1>5
<1>13. \A q \in Procs \ {p} : ~Started(q) /\ calls'[q] = calls[q]
  BY <1>4, <1>7
<1>14. g \in Groups /\ doc \in Group
  BY <1>1, <1>6
<1> QED BY <1>3, <1>8, <1>9, <1>10, <1>11, <1>12, <1>13, <1>14, WriteOver

\* The window that a handler writes was free when it looked, and is free now.
LEMMA StoreUpdateStep ==
  ASSUME TypeInv, TypeInv', AloneInv, NEW p \in Procs, StoreUpdate(p)
  PROVE  AloneInv'
<1> DEFINE g == calls[p].group
           snap == calls[p].snap
           new == calls[p].new
           doc == [new EXCEPT !.devices = groups[g].devices]
<1>0. /\ calls[p] # Idle /\ calls[p] \in Calls /\ GoodCall(calls[p]) /\ Consistent(calls[p])
      /\ calls[p].pc = "storeUpdate"
  BY Holds DEF StoreUpdate, At, AloneInv, AllConsistent
<1>1. g \in Groups /\ snap \in Group /\ new \in Group /\ snap = groups[g]
  BY <1>0 DEF GoodCall, Both, Consistent, Held
<1>2. /\ new.devices = snap.devices /\ new.duration = ComputeDuration(new, new.devices)
      /\ ~Taken(new, new.devices, Groups \ {g})
  BY <1>0 DEF Consistent
<1>3. Exists(g)
  BY <1>1, DocumentAssumption DEF Exists
<1>4. \A q \in Procs \ {p} : ~Started(q)
  <2>1. Started(p)
    BY <1>0 DEF Started, Activate, Expire
  <2> QED BY <2>1, OneRuns
<1>5. groups' = [groups EXCEPT ![g] = doc] /\ UNCHANGED <<used, user, crashes>>
  BY <1>3 DEF StoreUpdate, clock
<1>6. doc = new
  BY <1>1, <1>2 DEF Group
<1>7. calls'[p] = Idle /\ \A q \in Procs \ {p} : calls'[q] = calls[q]
  BY DEF StoreUpdate, Finish, TypeInv, Handlers
<1>8. ~Owes(p) /\ ~Owes(p)'
  BY <1>0, <1>7 DEF Owes
<1> HIDE DEF g, snap, new, doc
<1>9. \A h \in Groups \ {g} :
        Exists(h) /\ DatesOverlap(new, groups[h]) => new.devices \cap groups[h].devices = {}
  BY <1>2 DEF Taken
<1>10. (calls[p] # Idle => Consistent(calls[p]))'
  BY <1>7
<1> QED BY <1>1, <1>2, <1>3, <1>4, <1>5, <1>6, <1>7, <1>8, <1>9, <1>10, WriteOver

LEMMA ActivateStep ==
  ASSUME TypeInv, TypeInv', AloneInv, NEW p \in Procs, ActivateFlag(p)
  PROVE  AloneInv'
<1> DEFINE g == calls[p].group
           doc == [groups[g] EXCEPT !.isActive = TRUE]
<1>0. calls[p] # Idle /\ calls[p] \in Calls /\ calls[p].pc = "activate" /\ g \in Groups
  BY Holds DEF ActivateFlag, At, GoodCall
<1>1. \A q \in Procs \ {p} : ~Started(q)
  <2>1. Started(p)
    BY <1>0 DEF Started, Activate, Expire
  <2> QED BY <2>1, OneRuns
<1>2. Goto(p, "activateDevices") /\ UNCHANGED <<used, user, crashes>>
  BY DEF ActivateFlag, clock
<1>3. /\ calls'[p] # Idle /\ \A q \in Procs \ {p} : calls'[q] = calls[q]
      /\ calls'[p].pc = "activateDevices"
  BY <1>0, <1>2, GotoStarted DEF Pcs
<1>4. ~Owes(p) /\ ~Owes(p)'
  BY <1>0, <1>3 DEF Owes
<1>5. (calls[p] # Idle => Consistent(calls[p]))'
  BY <1>3 DEF Consistent, Held
<1>6. CASE Exists(g)
  <2>1. groups[g] \in Group
    BY <1>0, <1>6 DEF Exists, TypeInv, DataOK
  <2>2. groups' = [groups EXCEPT ![g] = doc]
    BY <1>0, <1>6, <2>1 DEF ActivateFlag, TypeInv, DataOK
  <2>3. /\ doc \in Group /\ doc.devices = groups[g].devices /\ doc.duration = groups[g].duration
        /\ doc.start = groups[g].start /\ doc.stop = groups[g].stop
    BY <2>1 DEF Group
  <2> HIDE DEF g, doc
  <2>4. doc.duration = ComputeDuration(doc, doc.devices)
    BY <1>0, <1>6, <2>3 DEF AloneInv, Exact, ComputeDuration
  <2>5. \A h \in Groups \ {g} :
          Exists(h) /\ DatesOverlap(doc, groups[h]) => doc.devices \cap groups[h].devices = {}
    BY <1>0, <1>6, <2>3 DEF AloneInv, Apart, DatesOverlap
  <2>6. \A q \in Procs \ {p} : ~Started(q) /\ calls'[q] = calls[q]
    BY <1>1, <1>3
  <2> QED BY <1>0, <1>2, <1>4, <1>5, <1>6, <2>2, <2>3, <2>4, <2>5, <2>6, WriteOver
<1>7. CASE ~Exists(g)
  <2>1. groups' = groups
    BY <1>7 DEF ActivateFlag
  <2> QED BY <1>1, <1>2, <1>3, <1>4, <1>5, <2>1, Quiet
<1> QED BY <1>6, <1>7

\* A request begins with what it has read.
LEMMA BeginAlone ==
  ASSUME TypeInv, TypeInv', AloneInv, Overlap = FALSE, NEW p \in Requests, NEW c \in Calls,
         Begin(p, c), Consistent(c), c.pc \notin {"insert", "unsubscribe", "release"}
  PROVE  AloneInv'
<1>0. p \in Procs
  BY DEF Procs
<1>1. \A q \in Procs \ {p} : ~Started(q)
  BY <1>0 DEF Begin, Alone
<1>2. calls[p] = Idle /\ calls' = [calls EXCEPT ![p] = c] /\ UNCHANGED <<groups, used, user, crashes>>
  BY DEF Begin, db
<1>3. calls'[p] = c /\ \A q \in Procs \ {p} : calls'[q] = calls[q]
  BY <1>0, <1>2 DEF TypeInv, Handlers
<1>4. \A q \in Procs \ {p} : ~Started(q) /\ calls'[q] = calls[q]
  BY <1>1, <1>3
<1>5. Consistent(calls[p])'
  BY <1>2, <1>3 DEF Consistent, Taken, Exists
<1>6. ~Owes(p) /\ ~Owes(p)'
  BY <1>2, <1>3 DEF Owes
<1> QED BY <1>0, <1>2, <1>4, <1>5, <1>6, Quiet

LEMMA CreateAlone ==
  ASSUME TypeInv, TypeInv', AloneInv, Overlap = FALSE, NEW p \in Requests, NEW w \in Windows,
         NEW state \in {"pending", "ready"}, CreateGroup(p, w, state)
  PROVE  AloneInv'
<1> USE DEF Call
<1> DEFINE new == [start |-> w[1], stop |-> w[2], devices |-> {}, duration |-> 0,
                   state |-> state, isActive |-> FALSE]
           c == Call("reserve", NoId, NoGroup, new, user)
<1>1. new \in Group /\ new.devices = {} /\ new.duration = 0
  BY DatedDocs
<1>2. Begin(p, c)
  BY DEF CreateGroup
<1> HIDE DEF new
<1>3. c \in Calls
  BY <1>1 DEF Calls, Pcs, TypeInv, DataOK
<1>4. Consistent(c)
  BY <1>1 DEF Consistent, Held
<1>5. c.pc = "reserve"
  OBVIOUS
<1> HIDE DEF c
<1> QED BY <1>2, <1>3, <1>4, <1>5, BeginAlone

LEMMA UpdateAlone ==
  ASSUME TypeInv, TypeInv', AloneInv, Overlap = FALSE, NEW p \in Requests, NEW g \in Groups,
         NEW w \in Windows, NEW state \in {"pending", "ready"}, UpdateGroup(p, g, w, state)
  PROVE  AloneInv'
<1> USE DEF Call
<1> DEFINE old == groups[g]
           dates == [old EXCEPT !.start = w[1], !.stop = w[2], !.state = state,
                                !.isActive = FALSE]
           new == [dates EXCEPT !.duration = ComputeDuration(dates, dates.devices)]
           wider == new.start < old.start \/ new.stop > old.stop
           conflicts == Call("conflicts", g, old, new, NoUser)
           charge == Call("chargeUpdate", g, old, new, NoUser)
<1>1. old \in Group /\ Exists(g)
  BY DEF UpdateGroup, Exists, TypeInv, DataOK
<1>2. dates \in Group /\ dates.devices = old.devices
  BY <1>1, DatedDocs DEF Group
<1>3. \/ wider /\ Begin(p, conflicts)
      \/ ~wider /\ Begin(p, charge)
  BY DEF UpdateGroup
<1> HIDE DEF dates
<1>4. /\ new \in Group /\ new.devices = dates.devices
      /\ new.start = dates.start /\ new.stop = dates.stop
      /\ new.duration = ComputeDuration(dates, dates.devices)
  BY <1>2, DurationType, ChangedDocs DEF Group
<1> HIDE DEF new
<1>5. new.devices = old.devices /\ new.duration = ComputeDuration(new, new.devices)
  BY <1>2, <1>4 DEF ComputeDuration
<1>6. conflicts \in Calls /\ charge \in Calls
  BY <1>1, <1>4 DEF Calls, Pcs
<1>7. Consistent(conflicts)
  BY <1>5 DEF Consistent, Held
<1>8. ASSUME ~wider PROVE Consistent(charge)
  <2>1. ASSUME NEW h \in Groups \ {g}, Exists(h), DatesOverlap(new, groups[h])
        PROVE  groups[h].devices \cap new.devices = {}
    <3>1. groups[h] \in Group
      BY <2>1 DEF Exists, TypeInv, DataOK
    <3>2. /\ new.start \in Int /\ new.stop \in Int /\ old.start \in Int /\ old.stop \in Int
          /\ groups[h].start \in Int /\ groups[h].stop \in Int
      BY <1>1, <1>4, <3>1, BookingAssumption DEF Group, Times
    <3>3. DatesOverlap(old, groups[h])
      BY <1>8, <2>1, <3>2 DEF DatesOverlap
    <3>4. old.devices \cap groups[h].devices = {}
      BY <1>1, <2>1, <3>3 DEF AloneInv, Apart
    <3> QED BY <1>5, <3>4
  <2>2. ~Taken(new, new.devices, Groups \ {g})
    BY <2>1 DEF Taken
  <2> QED BY <1>5, <2>2 DEF Consistent, Held
<1>9. conflicts.pc = "conflicts" /\ charge.pc = "chargeUpdate"
  OBVIOUS
<1> HIDE DEF wider, conflicts, charge
<1> QED BY <1>3, <1>6, <1>7, <1>8, <1>9, BeginAlone

LEMMA DevicesAlone ==
  ASSUME TypeInv, TypeInv', AloneInv, Overlap = FALSE, NEW p \in Requests, NEW g \in Groups,
         NEW serials \in SUBSET Devices,
         AddGroupDevices(p, g, serials) \/ RemoveGroupDevices(p, g, serials)
  PROVE  AloneInv'
<1> USE DEF Call
<1> DEFINE old == groups[g]
           doc(devices) == [old EXCEPT !.devices = devices,
                                       !.duration = ComputeDuration(old, devices)]
           more == doc(old.devices \cup serials)
           less == doc(old.devices \ serials)
           go == Call("current", g, old, old, NoUser)
           load == Call("load", g, old, more, NoUser)
           uncharge == Call("uncharge", g, old, less, NoUser)
<1>1. old \in Group
  BY DEF AddGroupDevices, RemoveGroupDevices, Exists, TypeInv, DataOK
<1>2. Begin(p, go) \/ Begin(p, load) \/ Begin(p, uncharge)
  BY DEF AddGroupDevices, RemoveGroupDevices
<1>3. ASSUME NEW devices \in SUBSET Devices
      PROVE  /\ doc(devices) \in Group /\ doc(devices).devices = devices
             /\ doc(devices).duration = ComputeDuration(old, devices)
  BY <1>1, DurationType, ChangedDocs DEF Group
<1>4. old.devices \cup serials \in SUBSET Devices /\ old.devices \ serials \in SUBSET Devices
  BY <1>1 DEF Group
<1> HIDE DEF doc
<1>5. /\ more \in Group /\ more.duration = ComputeDuration(old, more.devices)
      /\ less \in Group /\ less.duration = ComputeDuration(old, less.devices)
      /\ less.devices \subseteq old.devices
  BY <1>3, <1>4
<1> HIDE DEF more, less
<1>6. go \in Calls /\ load \in Calls /\ uncharge \in Calls
  BY <1>1, <1>5 DEF Calls, Pcs
<1>7. Consistent(go) /\ Consistent(load) /\ Consistent(uncharge)
  BY <1>5 DEF Consistent, Held
<1>8. go.pc = "current" /\ load.pc = "load" /\ uncharge.pc = "uncharge"
  OBVIOUS
<1> HIDE DEF go, load, uncharge
<1> QED BY <1>2, <1>6, <1>7, <1>8, BeginAlone

LEMMA DeleteAlone ==
  ASSUME TypeInv, TypeInv', AloneInv, Overlap = FALSE, NEW p \in Requests, NEW g \in Groups,
         DeleteGroup(p, g)
  PROVE  AloneInv'
<1> DEFINE c == Call("delete", g, NoGroup, NoGroup, NoUser)
<1>1. c \in Calls /\ c.pc = "delete"
  BY DEF Call, Calls, Pcs
<1>2. Begin(p, c)
  BY DEF DeleteGroup
<1> HIDE DEF c
<1>3. Consistent(c)
  BY <1>1 DEF Consistent, Held
<1> QED BY <1>1, <1>2, <1>3, BeginAlone

\* Tasks become due, time passes: nothing that has started moves.
LEMMA Waiting ==
  ASSUME AloneInv, UNCHANGED <<groups, used, user, crashes>>,
         \A q \in Procs : \/ calls'[q] = calls[q]
                          \/ ~Started(q) /\ calls'[q] # Idle /\ calls'[q].pc \in Types
  PROVE  AloneInv'
<1>1. Apart' /\ Exact' /\ Existing' = Existing
  BY SameDocs
<1>2. \A q \in Procs : (Started(q)' <=> Started(q)) /\ (Owes(q)' <=> Owes(q))
  BY DEF Started, Owes, Types, Activate, Expire
<1>3. One'
  BY <1>2 DEF AloneInv, One
<1>4. ASSUME NEW q \in Procs, calls'[q] # Idle PROVE Consistent(calls[q])'
  <2>1. CASE calls'[q] = calls[q]
    <3>1. Consistent(calls[q])
      BY <1>4, <2>1 DEF AloneInv, AllConsistent
    <3> QED BY <2>1, <3>1 DEF Consistent, Taken, Exists
  <2>2. CASE calls'[q].pc \in Types
    BY <2>2 DEF Consistent, Held, Types, Activate, Expire
  <2> QED BY <2>1, <2>2
<1>5. AllConsistent'
  BY <1>4 DEF AllConsistent
<1>6. \A q \in Procs : Debt(q)' = Debt(q)
  BY <1>1, <1>2 DEF Debt
<1>7. Paid'
  BY <1>1, <1>2, <1>6 DEF AloneInv, Paid
<1> QED BY <1>1, <1>3, <1>5, <1>7 DEF AloneInv

LEMMA Waits ==
  ASSUME TypeInv, Reload \/ TimerFires \/ Tick
  PROVE  /\ UNCHANGED <<groups, used, user, current, crashes>>
         /\ \A q \in Procs : \/ calls'[q] = calls[q]
                             \/ ~Started(q) /\ calls'[q] # Idle /\ calls'[q].pc \in Types
<1>0. calls \in Handlers /\ \A task \in Tasks : Task(task) # Idle /\ Task(task).pc \in Types
  <2>1. \A task \in Tasks : Task(task) \in Calls
    BY TaskGood DEF GoodCalls
  <2> QED BY <2>1, DocumentAssumption DEF TypeInv, Task, Call, Tasks
<1>1. CASE Reload
  <2>1. ASSUME NEW q \in Procs, calls'[q] # calls[q]
        PROVE  ~Started(q) /\ calls'[q] # Idle /\ calls'[q].pc \in Types
    <3> DEFINE task == CHOOSE task \in DueFor(q, groups[q], now) : TRUE
    <3>1. q \in Ready /\ DueFor(q, groups[q], now) # {} /\ calls'[q] = Task(task)
      BY <1>1, <2>1 DEF Reload
    <3>2. groups[q] \in Group /\ q \in Groups
      BY <3>1 DEF Ready, Exists, TypeInv, DataOK
    <3>3. task \in Tasks
      BY <3>1, <3>2, TasksForType DEF DueFor
    <3> HIDE DEF task
    <3> QED BY <1>0, <1>1, <3>1, <3>2, <3>3 DEF Reload, Started
  <2> QED BY <1>1, <2>1 DEF Reload, db, clock
<1>2. CASE TimerFires
  <2>1. sched.timer \in Tasks
    BY <1>2 DEF TimerFires, TypeInv, Scheds
  <2>2. \A q \in Procs :
          \/ calls'[q] = calls[q]
          \/ ~Started(q) /\ calls'[q] # Idle /\ calls'[q].pc \in Types
    BY <1>0, <1>2, <2>1 DEF TimerFires, Handlers, Started
  <2> QED BY <1>2, <2>2 DEF TimerFires, db, clock
<1>3. CASE Tick
  BY <1>3 DEF Tick, db
<1> QED BY <1>1, <1>2, <1>3

LEMMA CrashAlone == ASSUME TypeInv, AloneInv, Crash PROVE AloneInv'
<1>1. /\ UNCHANGED <<groups, used, user>> /\ crashes' # 0
      /\ \A q \in Procs : calls'[q] = Idle
  BY DEF Crash, db, TypeInv, ClockOK
<1>2. Apart' /\ Exact' /\ Existing' = Existing
  BY <1>1, SameDocs DEF AloneInv
<1>3. One' /\ AllConsistent'
  BY <1>1 DEF One, AllConsistent, Started
<1>4. \A q \in Procs : Debt(q)' <= user'.number
  <2>1. ASSUME NEW q \in Procs PROVE Debt(q)' <= user'.number
    <3>1. Cardinality(Existing) \in Nat /\ Debt(q) \in Nat /\ user.number \in Nat
      BY CountType
    <3>2. Debt(q) <= user.number
      BY DEF AloneInv, Paid
    <3>3. Debt(q)' = Cardinality(Existing) /\ Cardinality(Existing) <= Debt(q)
      BY <1>1, <1>2, <3>1 DEF Debt, Owes
    <3> QED BY <1>1, <3>1, <3>2, <3>3
  <2> QED BY <2>1
<1>5. Paid'
  BY <1>1, <1>4 DEF Paid
<1> QED BY <1>2, <1>3, <1>5 DEF AloneInv

LEMMA InitAlone == Init => AloneInv
<1> SUFFICES ASSUME Init PROVE AloneInv
  OBVIOUS
<1>1. \A p \in Procs : calls[p] = Idle
  BY DEF Init
<1>2. \A g \in Groups : ~Exists(g)
  BY DEF Init, Exists
<1>3. Cardinality(Existing) = 0
  BY <1>2, FS_EmptySet DEF Existing
<1>4. One /\ AllConsistent /\ Apart /\ Exact
  BY <1>1, <1>2 DEF One, AllConsistent, Apart, Exact, Started
<1>5. Paid
  BY <1>1, <1>3 DEF Paid, Debt, Owes, Init
<1> QED BY <1>4, <1>5 DEF AloneInv

LEMMA NextAlone ==
  ASSUME TypeInv, AloneInv, Overlap = FALSE, [Next]_vars
  PROVE  AloneInv'
<1>0. TypeInv'
  BY NextType
<1>1. ASSUME NEW p \in Requests, NEW w \in Windows, NEW state \in {"pending", "ready"},
             \/ CreateGroup(p, w, state)
             \/ \E g \in Groups : UpdateGroup(p, g, w, state)
      PROVE  AloneInv'
  BY <1>0, <1>1, CreateAlone, UpdateAlone
<1>2. ASSUME NEW p \in Requests, NEW g \in Groups,
             \/ \E serials \in SUBSET Devices \ {{}} :
                  AddGroupDevices(p, g, serials) \/ RemoveGroupDevices(p, g, serials)
             \/ DeleteGroup(p, g)
      PROVE  AloneInv'
  BY <1>0, <1>2, DevicesAlone, DeleteAlone
<1>3. ASSUME NEW p \in Procs, Step(p) PROVE AloneInv'
  BY <1>0, <1>3, QuietSteps, LastSteps, ReadSteps, CountSteps, InsertStep, DeleteStep,
     StoreDevicesStep, StoreUpdateStep, ActivateStep DEF Step
<1>4. CASE Reload \/ TimerFires \/ Tick
  BY <1>4, Waits, Waiting
<1>5. CASE UNCHANGED vars
  BY <1>5, Waiting DEF vars, db, clock
<1> QED BY <1>1, <1>2, <1>3, <1>4, <1>5, CrashAlone DEF Next

LEMMA AlwaysAlone == ASSUME Overlap = FALSE PROVE Spec => [](TypeInv /\ AloneInv)
<1>1. Init => TypeInv /\ AloneInv
  BY InitType, InitAlone
<1>2. TypeInv /\ AloneInv /\ [Next]_vars => TypeInv' /\ AloneInv'
  BY NextType, NextAlone
<1> QED BY <1>1, <1>2, PTL DEF Spec

\* GroupsArePaid: the groups that exist are at most as many as the owner is charged for,
\* wherever the process ends, if no two handlers overlap.
THEOREM GroupsArePaidAlone == ASSUME Overlap = FALSE PROVE Spec => []GroupsArePaid
<1>1. TypeInv /\ AloneInv => GroupsArePaid
  <2> SUFFICES ASSUME TypeInv, AloneInv PROVE GroupsArePaid
    OBVIOUS
  <2>1. Timer \in Procs
    BY DEF Procs
  <2>2. Cardinality(Existing) \in Nat /\ Debt(Timer) \in Nat /\ user.number \in Nat
    BY <2>1, CountType
  <2>3. Cardinality(Existing) <= Debt(Timer)
    BY <2>2 DEF Debt
  <2>4. Debt(Timer) <= user.number
    BY <2>1 DEF AloneInv, Paid
  <2> QED BY <2>2, <2>3, <2>4 DEF GroupsArePaid
<1> QED BY <1>1, AlwaysAlone, PTL

\* NumberExact: when no handler is under way and the process has not ended, the owner is
\* charged for the groups that exist, if no two handlers overlap.
THEOREM NumberExactAlone == ASSUME Overlap = FALSE PROVE Spec => []NumberExact
<1>1. TypeInv /\ AloneInv => NumberExact
  BY DEF AloneInv, Paid, Owes, NumberExact, AtRest
<1> QED BY <1>1, AlwaysAlone, PTL

\* GroupDurationExact: the duration of a group, which is what its deletion gives back, is
\* that of its devices in its window, if no two handlers overlap.
THEOREM GroupDurationExactAlone == ASSUME Overlap = FALSE PROVE Spec => []GroupDurationExact
<1>1. TypeInv /\ AloneInv => GroupDurationExact
  BY DEF AloneInv, Exact, GroupDurationExact, Existing
<1> QED BY <1>1, AlwaysAlone, PTL

\* NoDoubleBooking: at no moment have two groups reserved the same device, if no two
\* handlers overlap.
THEOREM NoDoubleBookingAlone == ASSUME Overlap = FALSE PROVE Spec => []NoDoubleBooking
<1>1. TypeInv /\ AloneInv => NoDoubleBooking
  <2> SUFFICES ASSUME TypeInv, AloneInv, NEW t \in Times, NEW g \in Existing, NEW h \in Existing,
                      g # h, groups[g].start <= t, t < groups[g].stop,
                      groups[h].start <= t, t < groups[h].stop
               PROVE  groups[g].devices \cap groups[h].devices = {}
    BY DEF NoDoubleBooking
  <2>1. groups[g] \in Group /\ groups[h] \in Group
    BY DEF Existing, Exists, TypeInv, DataOK
  <2>2. DatesOverlap(groups[g], groups[h])
    BY <2>1, BookingAssumption DEF DatesOverlap, Group, Times
  <2> QED BY <2>2 DEF AloneInv, Apart, Existing
<1> QED BY <1>1, AlwaysAlone, PTL

-----------------------------------------------------------------------------
(* Where the devices are.                                                  *)

\* The documents a handler moves devices by are those of the groups, and what it is
\* going to return are the devices its group has had.
Fresh(c) ==
  /\ c.pc = "current" => Exists(c.group) /\ c.new.devices = groups[c.group].devices
  /\ c.pc \in {"activate", "activateDevices"} =>
       Exists(c.group) /\ c.snap.devices = groups[c.group].devices
  /\ c.pc \in {"load", "charge", "check", "storeAdded"} => c.snap.devices \subseteq c.new.devices
  /\ c.pc = "deleteOne" => c.snap = NoGroup \/ c.new.devices = {}
AllFresh == \A p \in Procs : calls[p] # Idle => Fresh(calls[p])
Leaving == {"unsubscribe", "release", "refund", "returnDeleted", "returnRemoved"}
Leaves(p) == IF calls[p] # Idle /\ calls[p].pc \in Leaving
             THEN calls[p].snap.devices \ calls[p].new.devices ELSE {}
Here(d) == Exists(current[d]) /\ d \in groups[current[d]].devices
Placed == \A d \in Devices : current[d] # Origin => Here(d) \/ \E p \in Procs : d \in Leaves(p)
PlacedInv == AllFresh /\ (crashes = 0 => Placed)

\* A step of the one handler that runs leaves every device here, or about to leave.
LEMMA PlacedStep ==
  ASSUME PlacedInv, NEW p \in Procs, UNCHANGED crashes,
         \A q \in Procs \ {p} : ~Started(q) /\ calls'[q] = calls[q],
         (calls[p] # Idle => Fresh(calls[p]))',
         (\A d \in Devices : current[d] # Origin => Here(d) \/ d \in Leaves(p))
           => (\A d \in Devices : current[d] # Origin => Here(d) \/ d \in Leaves(p))'
  PROVE  PlacedInv'
<1>1. ASSUME NEW q \in Procs \ {p} PROVE Leaves(q) = {}
  BY DEF Leaves, Leaving, Started, Activate, Expire
<1>2. ASSUME NEW q \in Procs \ {p}, calls'[q] # Idle PROVE Fresh(calls[q])'
  <2>1. calls'[q].pc \in {Activate, Expire}
    BY <1>2 DEF Started
  <2> QED BY <2>1 DEF Fresh, Activate, Expire
<1>3. AllFresh'
  BY <1>2 DEF AllFresh
<1>4. ASSUME crashes = 0 PROVE Placed'
  <2>1. \A d \in Devices : current[d] # Origin => Here(d) \/ d \in Leaves(p)
    BY <1>1, <1>4 DEF PlacedInv, Placed
  <2> QED BY <2>1 DEF Placed
<1> QED BY <1>3, <1>4 DEF PlacedInv

\* What is known of the one handler that runs.
LEMMA Runs ==
  ASSUME TypeInv, AloneInv, PlacedInv, NEW p \in Procs, calls[p] # Idle,
         calls[p].pc \notin {Activate, Expire}
  PROVE  /\ calls[p] \in Calls /\ GoodCall(calls[p]) /\ Consistent(calls[p]) /\ Fresh(calls[p])
         /\ \A q \in Procs \ {p} : ~Started(q)
<1>1. Started(p)
  BY DEF Started
<1> QED BY <1>1, Holds, OneRuns DEF AloneInv, AllConsistent, PlacedInv, AllFresh

\* Steps that move no device and change no group.
LEMMA StillStep ==
  ASSUME PlacedInv, NEW p \in Procs, UNCHANGED <<groups, current, crashes>>,
         \A q \in Procs \ {p} : ~Started(q) /\ calls'[q] = calls[q],
         (calls[p] # Idle => Fresh(calls[p]))', Leaves(p) \subseteq Leaves(p)'
  PROVE  PlacedInv'
<1>1. \A d : Here(d)' <=> Here(d)
  BY DEF Here, Exists
<1>2. (\A d \in Devices : current[d] # Origin => Here(d) \/ d \in Leaves(p))
        => (\A d \in Devices : current[d] # Origin => Here(d) \/ d \in Leaves(p))'
  BY <1>1
<1> QED BY <1>2, PlacedStep

LEMMA StillSteps ==
  ASSUME TypeInv, AloneInv, PlacedInv, NEW p \in Procs,
         \/ Reserve(p) \/ Subscribe(p) \/ Charge(p) \/ Uncharge(p) \/ ChargeUpdate(p)
         \/ Find(p) \/ CheckOverlaps(p) \/ CheckConflicts(p)
         \/ Unsubscribe(p) \/ Release(p) \/ Refund(p)
  PROVE  PlacedInv'
<1> DEFINE from == calls[p].pc
<1>0. calls \in Handlers /\ calls[p] # Idle
  BY DEF TypeInv, Reserve, Subscribe, Charge, Uncharge, ChargeUpdate, Find, CheckOverlaps,
         CheckConflicts, Unsubscribe, Release, Refund, At
<1>1. PICK pc \in {"insert", "check", "find", "storeRemoved", "storeUpdate", "delete",
                   "storeAdded", "chargeUpdate", "release", "refund", "returnDeleted"} :
        /\ Goto(p, pc) \/ Finish(p, FALSE) \/ Finish(p, Exists(calls[p].group))
        /\ from \notin {Activate, Expire, "returnDeleted", "returnRemoved"}
        /\ pc \in {"check", "storeAdded"} => from \in {"charge", "check"}
        /\ from \in {"unsubscribe", "release", "refund"} =>
             pc \in {"release", "refund", "returnDeleted"} /\ Goto(p, pc)
  BY DEF Reserve, Subscribe, Charge, Uncharge, ChargeUpdate, Find, CheckOverlaps,
         CheckConflicts, Unsubscribe, Release, Refund, At, Activate, Expire
<1>2. UNCHANGED <<groups, current, crashes>>
  BY DEF Reserve, Subscribe, Charge, Uncharge, ChargeUpdate, Find, CheckOverlaps,
         CheckConflicts, Unsubscribe, Release, Refund, db, clock
<1>3. /\ calls[p] \in Calls /\ Fresh(calls[p])
      /\ \A q \in Procs \ {p} : ~Started(q)
  BY <1>0, <1>1, Runs
<1>4. pc \in Pcs
  BY <1>1 DEF Pcs
<1>5. \A q \in Procs \ {p} : ~Started(q) /\ calls'[q] = calls[q]
  <2>1. CASE Goto(p, pc)
    BY <1>0, <1>3, <1>4, <2>1, GotoStarted
  <2>2. CASE \E touched : Finish(p, touched)
    BY <1>0, <1>3, <2>2 DEF Finish, Handlers
  <2> QED BY <1>1, <2>1, <2>2
<1>6. \/ calls'[p] = Idle /\ ~Goto(p, pc)
      \/ /\ calls'[p] # Idle /\ calls'[p].pc = pc /\ calls'[p].group = calls[p].group
         /\ calls'[p].snap = calls[p].snap /\ calls'[p].new = calls[p].new
  <2>1. CASE Goto(p, pc)
    <3>1. calls'[p] # Idle /\ calls'[p] = [calls[p] EXCEPT !.pc = pc] /\ calls'[p].pc = pc
      BY <1>0, <1>4, <2>1, GotoStarted
    <3> QED BY <1>3, <3>1 DEF Calls
  <2>2. CASE ~Goto(p, pc)
    BY <1>0, <1>1, <2>2 DEF Finish, Handlers
  <2> QED BY <2>1, <2>2
<1>7. (calls[p] # Idle => Fresh(calls[p]))'
  <2>1. pc \in {"check", "storeAdded"} => calls[p].snap.devices \subseteq calls[p].new.devices
    BY <1>1, <1>3 DEF Fresh
  <2>2. pc \notin {"current", "activate", "activateDevices", "load", "charge", "deleteOne"}
    BY <1>1
  <2> QED BY <1>6, <2>1, <2>2 DEF Fresh
<1>8. Leaves(p) \subseteq Leaves(p)'
  <2>1. CASE from \in Leaving
    <3>1. pc \in Leaving /\ Goto(p, pc)
      BY <1>1, <2>1 DEF Leaving
    <3> QED BY <1>0, <1>6, <2>1, <3>1 DEF Leaves
  <2>2. CASE from \notin Leaving
    BY <2>2 DEF Leaves
  <2> QED BY <2>1, <2>2
<1> QED BY <1>2, <1>5, <1>7, <1>8, StillStep

LEMMA ReadPlaced ==
  ASSUME TypeInv, TypeInv', AloneInv, PlacedInv, Overlap = FALSE, NEW p \in Procs,
         LoadOwner(p) \/ DeleteRead(p) \/ ProcessTask(p)
  PROVE  PlacedInv'
<1> DEFINE from == calls[p].pc
           doc == groups[calls[p].group]
<1>0. /\ calls \in Handlers /\ calls[p] # Idle /\ calls[p] \in Calls /\ calls[p].group \in Groups
      /\ from \in {"load", "delete", Activate, Expire}
  BY Holds DEF TypeInv, LoadOwner, DeleteRead, ProcessTask, At, GoodCall, Activate, Expire
<1>1. \A q \in Procs \ {p} : ~Started(q)
  <2>1. CASE ProcessTask(p)
    BY <2>1 DEF ProcessTask, Alone
  <2>2. CASE LoadOwner(p) \/ DeleteRead(p)
    <3>1. from \notin {Activate, Expire}
      BY <2>2 DEF LoadOwner, DeleteRead, At, Activate, Expire
    <3> QED BY <1>0, <3>1, Runs
  <2> QED BY <2>1, <2>2
<1>2. UNCHANGED <<groups, current, crashes>>
  BY DEF LoadOwner, DeleteRead, ProcessTask, db, clock
<1>3. Leaves(p) = {}
  BY <1>0 DEF Leaves, Leaving, Activate, Expire
<1>4. CASE LoadOwner(p)
  <2>1. calls' = [calls EXCEPT ![p].pc = "charge", ![p].read = user] /\ from = "load"
    BY <1>4 DEF LoadOwner, At
  <2>2. /\ \A q \in Procs \ {p} : calls'[q] = calls[q]
        /\ calls'[p].pc = "charge" /\ calls'[p].snap = calls[p].snap
        /\ calls'[p].new = calls[p].new
    BY <1>0, <2>1 DEF Handlers, Calls
  <2>3. Fresh(calls[p])
    BY <1>0 DEF PlacedInv, AllFresh
  <2>4. (calls[p] # Idle => Fresh(calls[p]))'
    BY <2>1, <2>2, <2>3 DEF Fresh
  <2> QED BY <1>1, <1>2, <1>3, <2>2, <2>4, StillStep
<1>5. CASE DeleteRead(p)
  <2> DEFINE empty == IF doc = NoGroup THEN NoGroup
                      ELSE [doc EXCEPT !.devices = {}, !.duration = 0]
  <2>1. calls' = [calls EXCEPT ![p].pc = "deleteOne", ![p].snap = doc, ![p].new = empty]
    BY <1>5 DEF DeleteRead
  <2>2. doc # NoGroup => empty.devices = {}
    <3>1. doc # NoGroup => doc \in Group
      BY <1>0 DEF TypeInv, DataOK
    <3> QED BY <3>1 DEF Group
  <2> HIDE DEF empty, doc
  <2>3. /\ \A q \in Procs \ {p} : calls'[q] = calls[q]
        /\ calls'[p].pc = "deleteOne" /\ calls'[p].snap = doc /\ calls'[p].new = empty
    BY <1>0, <2>1 DEF Handlers, Calls
  <2>4. (calls[p] # Idle => Fresh(calls[p]))'
    BY <2>2, <2>3 DEF Fresh
  <2> QED BY <1>1, <1>2, <1>3, <2>3, <2>4, StillStep
<1>6. CASE ProcessTask(p)
  <2>1. CASE ~Exists(calls[p].group)
    <3>1. calls'[p] = Idle /\ \A q \in Procs \ {p} : calls'[q] = calls[q]
      BY <1>0, <1>6, <2>1 DEF ProcessTask, Finish, Handlers
    <3> QED BY <1>1, <1>2, <1>3, <3>1, StillStep
  <2>2. CASE Exists(calls[p].group)
    <3> DEFINE pc == IF At(p, Activate) THEN "activate" ELSE "delete"
    <3>1. calls' = [calls EXCEPT ![p].pc = pc, ![p].snap = doc]
      BY <1>6, <2>2 DEF ProcessTask
    <3>2. pc \in {"activate", "delete"}
      OBVIOUS
    <3> HIDE DEF pc, doc
    <3>3. /\ \A q \in Procs \ {p} : calls'[q] = calls[q]
          /\ calls'[p].pc = pc /\ calls'[p].snap = doc /\ calls'[p].group = calls[p].group
      BY <1>0, <3>1 DEF Handlers, Calls
    <3>4. groups'[calls[p].group] # NoGroup /\ doc.devices = groups'[calls[p].group].devices
      BY <1>2, <2>2 DEF Exists, doc
    <3>5. (calls[p] # Idle => Fresh(calls[p]))'
      BY <3>2, <3>3, <3>4 DEF Fresh, Exists
    <3> QED BY <1>1, <1>2, <1>3, <3>3, <3>5, StillStep
  <2> QED BY <2>1, <2>2
<1> QED BY <1>4, <1>5, <1>6

\* Steps that write a group that keeps its devices, or gets more.
LEMMA Keeps ==
  ASSUME TypeInv, PlacedInv, NEW p \in Procs, UNCHANGED <<current, crashes>>,
         \A q \in Procs \ {p} : ~Started(q) /\ calls'[q] = calls[q],
         (calls[p] # Idle => Fresh(calls[p]))', calls[p].pc \notin Leaving,
         NEW g \in Groups, NEW doc, groups' = [groups EXCEPT ![g] = doc],
         Exists(g) => doc # NoGroup /\ groups[g].devices \subseteq doc.devices
  PROVE  PlacedInv'
<1>1. groups'[g] = doc /\ \A h \in Groups \ {g} : groups'[h] = groups[h]
  BY DEF TypeInv, DataOK
<1>2. \A d \in Devices : current[d] # Origin /\ Here(d) => Here(d)'
  <2>1. \A d \in Devices : current[d] # Origin => current[d] \in Groups
    BY DEF TypeInv, DataOK
  <2> QED BY <1>1, <2>1 DEF Here, Exists
<1>3. Leaves(p) = {}
  BY DEF Leaves
<1>4. (\A d \in Devices : current[d] # Origin => Here(d) \/ d \in Leaves(p))
        => (\A d \in Devices : current[d] # Origin => Here(d) \/ d \in Leaves(p))'
  BY <1>2, <1>3
<1> QED BY <1>4, PlacedStep

LEMMA WritePlaced ==
  ASSUME TypeInv, TypeInv', AloneInv, PlacedInv, NEW p \in Procs,
         Insert(p) \/ StoreUpdate(p) \/ ActivateFlag(p)
  PROVE  PlacedInv'
<1>0. /\ calls \in Handlers /\ calls[p] # Idle /\ calls[p] \in Calls /\ GoodCall(calls[p])
      /\ Consistent(calls[p]) /\ Fresh(calls[p])
      /\ \A q \in Procs \ {p} : ~Started(q)
  BY Runs DEF Insert, StoreUpdate, ActivateFlag, At, Activate, Expire, TypeInv
<1>1. UNCHANGED <<current, crashes>> /\ calls[p].pc \notin Leaving
  BY DEF Insert, StoreUpdate, ActivateFlag, clock, At, Leaving
<1>2. CASE Insert(p)
  <2>1. PICK g \in Groups \ used :
          /\ groups' = [groups EXCEPT ![g] = calls[p].new]
          /\ calls' = [calls EXCEPT ![p].pc = "subscribe", ![p].group = g]
    BY <1>2 DEF Insert
  <2>2. ~Exists(g)
    BY <2>1 DEF AloneInv, Exact
  <2>3. calls'[p].pc = "subscribe" /\ \A q \in Procs \ {p} : calls'[q] = calls[q]
    BY <1>0, <2>1 DEF Handlers, Calls
  <2>4. (calls[p] # Idle => Fresh(calls[p]))'
    BY <2>3 DEF Fresh
  <2> QED BY <1>0, <1>1, <2>1, <2>2, <2>3, <2>4, Keeps
<1>3. CASE StoreUpdate(p)
  <2> DEFINE g == calls[p].group
             doc == [calls[p].new EXCEPT !.devices = groups[g].devices]
  <2>1. g \in Groups /\ calls[p].new \in Group
    BY <1>0, <1>3 DEF StoreUpdate, At, GoodCall, Both
  <2>2. calls'[p] = Idle /\ \A q \in Procs \ {p} : calls'[q] = calls[q]
    BY <1>0, <1>3 DEF StoreUpdate, Finish, Handlers
  <2>3. CASE Exists(g)
    <3>1. groups' = [groups EXCEPT ![g] = doc]
      BY <1>3, <2>3 DEF StoreUpdate
    <3>2. groups[g] \in Group
      BY <2>1, <2>3 DEF Exists, TypeInv, DataOK
    <3>3. doc \in Group /\ doc.devices = groups[g].devices
      BY <2>1, <3>2 DEF Group
    <3> HIDE DEF doc, g
    <3>4. doc # NoGroup
      BY <3>3, DocumentAssumption
    <3> QED BY <1>0, <1>1, <2>1, <2>2, <3>1, <3>3, <3>4, Keeps
  <2>4. CASE ~Exists(g)
    <3>1. groups' = [groups EXCEPT ![g] = groups[g]]
      BY <1>3, <2>4 DEF StoreUpdate, TypeInv, DataOK
    <3> HIDE DEF g
    <3> QED BY <1>0, <1>1, <2>1, <2>2, <2>4, <3>1, Keeps
  <2> QED BY <2>3, <2>4
<1>4. CASE ActivateFlag(p)
  <2> DEFINE g == calls[p].group
             doc == [groups[g] EXCEPT !.isActive = TRUE]
  <2>1. /\ g \in Groups /\ calls[p].pc = "activate" /\ Exists(g)
        /\ calls[p].snap.devices = groups[g].devices /\ Goto(p, "activateDevices")
    BY <1>0, <1>4 DEF ActivateFlag, At, GoodCall, Fresh
  <2>2. groups[g] \in Group
    BY <2>1 DEF Exists, TypeInv, DataOK
  <2>3. groups' = [groups EXCEPT ![g] = doc]
    BY <1>4, <2>1, <2>2 DEF ActivateFlag, TypeInv, DataOK
  <2>4. doc \in Group /\ doc.devices = groups[g].devices /\ doc # NoGroup
    <3>1. doc \in Group /\ doc.devices = groups[g].devices
      BY <2>2 DEF Group
    <3> HIDE DEF doc
    <3> QED BY <3>1, DocumentAssumption
  <2>5. /\ calls'[p] = [calls[p] EXCEPT !.pc = "activateDevices"]
        /\ \A q \in Procs \ {p} : calls'[q] = calls[q]
    BY <1>0, <2>1, GotoStarted DEF Pcs
  <2>6. /\ calls'[p].pc = "activateDevices" /\ calls'[p].group = g
        /\ calls'[p].snap = calls[p].snap
    BY <1>0, <2>5 DEF Calls
  <2> HIDE DEF doc, g
  <2>7. groups'[g] = doc
    BY <2>1, <2>3 DEF TypeInv, DataOK
  <2>8. (calls[p] # Idle => Fresh(calls[p]))'
    BY <2>1, <2>4, <2>6, <2>7 DEF Fresh, Exists
  <2> QED BY <1>0, <1>1, <2>1, <2>3, <2>4, <2>5, <2>8, Keeps
<1> QED BY <1>2, <1>3, <1>4

\* Devices that are added are in the group's document first; those that are removed leave.
LEMMA StorePlaced ==
  ASSUME TypeInv, TypeInv', AloneInv, PlacedInv, NEW p \in Procs, StoreDevices(p)
  PROVE  PlacedInv'
<1> DEFINE g == calls[p].group
           snap == calls[p].snap
           new == calls[p].new
           doc == [groups[g] EXCEPT !.devices = new.devices, !.duration = new.duration]
<1>0. /\ calls \in Handlers /\ calls[p] # Idle /\ calls[p] \in Calls /\ GoodCall(calls[p])
      /\ Consistent(calls[p]) /\ Fresh(calls[p])
      /\ \A q \in Procs \ {p} : ~Started(q)
  BY Runs DEF StoreDevices, At, Activate, Expire, TypeInv
<1>1. g \in Groups /\ snap \in Group /\ new \in Group /\ snap = groups[g]
  BY <1>0 DEF StoreDevices, At, GoodCall, Both, Consistent, Held
<1>2. Exists(g)
  BY <1>1, DocumentAssumption DEF Exists
<1>3. UNCHANGED <<current, crashes>> /\ groups' = [groups EXCEPT ![g] = doc]
  BY <1>2 DEF StoreDevices, clock
<1>4. doc \in Group /\ doc.devices = new.devices
  <2>1. groups[g] \in Group /\ new.devices \in SUBSET Devices /\ new.duration \in Int
    BY <1>1 DEF Group
  <2>2. doc \in Group
    BY <2>1, ChangedDocs
  <2> QED BY <2>1, <2>2 DEF Group
<1>5. CASE At(p, "storeAdded")
  <2> DEFINE c == Call("current", g, snap, doc, NoUser)
  <2>1. calls' = [calls EXCEPT ![p] = c]
    BY <1>0, <1>2, <1>5 DEF StoreDevices, Handlers
  <2>2. c.pc = "current" /\ c.group = g /\ c.new = doc
    BY DEF Call
  <2>3. snap.devices \subseteq new.devices /\ calls[p].pc \notin Leaving
    BY <1>0, <1>5 DEF Fresh, At, Leaving
  <2> HIDE DEF g, snap, new, doc, c
  <2>4. calls'[p] = c /\ \A q \in Procs \ {p} : calls'[q] = calls[q]
    BY <1>0, <2>1 DEF Handlers
  <2>5. groups'[g] = doc /\ doc # NoGroup
    BY <1>1, <1>3, <1>4, DocumentAssumption DEF TypeInv, DataOK
  <2>6. (calls[p] # Idle => Fresh(calls[p]))'
    BY <2>2, <2>4, <2>5 DEF Fresh, Exists
  <2> QED BY <1>0, <1>1, <1>3, <1>4, <2>3, <2>4, <2>5, <2>6, Keeps
<1>6. CASE At(p, "storeRemoved")
  <2> DEFINE c == Call("returnRemoved", g, snap, new, NoUser)
  <2>1. calls' = [calls EXCEPT ![p] = c]
    BY <1>0, <1>2, <1>6 DEF StoreDevices, Handlers, At
  <2>2. c.pc = "returnRemoved" /\ c.snap = snap /\ c.new = new
    BY DEF Call
  <2>3. c # Idle
    <3>1. c \in Calls
      BY <1>0, <1>1 DEF Call, Calls, Pcs, StoreDevices
    <3> QED BY <3>1, DocumentAssumption
  <2>4. Leaves(p) = {}
    BY <1>6 DEF Leaves, Leaving, At
  <2> HIDE DEF g, snap, new, doc, c
  <2>5. calls'[p] = c /\ \A q \in Procs \ {p} : calls'[q] = calls[q]
    BY <1>0, <2>1 DEF Handlers
  <2>6. Leaves(p)' = snap.devices \ new.devices
    BY <2>2, <2>3, <2>5 DEF Leaves, Leaving
  <2>7. /\ groups'[g] = doc /\ doc # NoGroup
        /\ \A h \in Groups \ {g} : groups'[h] = groups[h]
    BY <1>1, <1>3, <1>4, DocumentAssumption DEF TypeInv, DataOK
  <2>8. (calls[p] # Idle => Fresh(calls[p]))'
    BY <2>2, <2>5 DEF Fresh
  <2>9. ASSUME NEW d \in Devices, current[d] # Origin, Here(d)
        PROVE  Here(d)' \/ d \in Leaves(p)'
    <3>1. current[d] \in Groups
      BY <2>9 DEF TypeInv, DataOK
    <3>2. CASE current[d] = g
      <4>1. d \in snap.devices
        BY <1>1, <2>9, <3>2 DEF Here
      <4>2. d \in new.devices => Here(d)'
        BY <1>3, <1>4, <2>7, <3>2 DEF Here, Exists
      <4> QED BY <2>6, <4>1, <4>2
    <3>3. CASE current[d] # g
      BY <1>3, <2>7, <2>9, <3>1, <3>3 DEF Here, Exists
    <3> QED BY <3>2, <3>3
  <2>10. (\A d \in Devices : current[d] # Origin => Here(d) \/ d \in Leaves(p))
           => (\A d \in Devices : current[d] # Origin => Here(d) \/ d \in Leaves(p))'
    BY <1>3, <2>4, <2>9
  <2> QED BY <1>0, <1>3, <2>5, <2>8, <2>10, PlacedStep
<1> QED BY <1>5, <1>6 DEF StoreDevices

\* The devices of a group that is deleted leave.
LEMMA DeletePlaced ==
  ASSUME TypeInv, TypeInv', AloneInv, PlacedInv, NEW p \in Procs, DeleteOne(p)
  PROVE  PlacedInv'
<1> DEFINE g == calls[p].group
           snap == calls[p].snap
<1>0. /\ calls \in Handlers /\ calls[p] # Idle /\ calls[p] \in Calls /\ GoodCall(calls[p])
      /\ Consistent(calls[p]) /\ Fresh(calls[p]) /\ calls[p].pc = "deleteOne"
      /\ \A q \in Procs \ {p} : ~Started(q)
  BY Runs DEF DeleteOne, At, Activate, Expire, TypeInv
<1>1. g \in Groups /\ snap = groups[g] /\ (snap = NoGroup \/ calls[p].new.devices = {})
  BY <1>0 DEF GoodCall, Consistent, Held, Fresh
<1>2. groups' = [groups EXCEPT ![g] = NoGroup] /\ UNCHANGED <<current, crashes>>
  BY DEF DeleteOne, clock
<1>3. Leaves(p) = {}
  BY <1>0 DEF Leaves, Leaving
<1>4. CASE snap = NoGroup
  <2>1. calls'[p] = Idle /\ \A q \in Procs \ {p} : calls'[q] = calls[q]
    BY <1>0, <1>4 DEF DeleteOne, Finish, Handlers
  <2>2. calls[p].pc \notin Leaving /\ ~Exists(g)
    BY <1>0, <1>1, <1>4 DEF Leaving, Exists
  <2> HIDE DEF g, snap
  <2> QED BY <1>0, <1>1, <1>2, <2>1, <2>2, Keeps
<1>5. CASE snap # NoGroup
  <2>1. Goto(p, "unsubscribe")
    BY <1>5 DEF DeleteOne
  <2>2. /\ calls'[p] # Idle /\ \A q \in Procs \ {p} : calls'[q] = calls[q]
        /\ calls'[p] = [calls[p] EXCEPT !.pc = "unsubscribe"]
    BY <1>0, <2>1, GotoStarted DEF Pcs
  <2>3. /\ calls'[p].pc = "unsubscribe" /\ calls'[p].snap = snap
        /\ calls'[p].new = calls[p].new
    BY <1>0, <2>2 DEF Calls
  <2>4. Leaves(p)' = snap.devices
    BY <1>1, <1>5, <2>2, <2>3 DEF Leaves, Leaving
  <2>5. (calls[p] # Idle => Fresh(calls[p]))'
    BY <2>3 DEF Fresh
  <2> HIDE DEF g, snap
  <2>6. ASSUME NEW d \in Devices, current[d] # Origin, Here(d)
        PROVE  Here(d)' \/ d \in Leaves(p)'
    <3>1. current[d] \in Groups
      BY <2>6 DEF TypeInv, DataOK
    <3>2. CASE current[d] = g
      BY <1>1, <2>4, <2>6, <3>2 DEF Here
    <3>3. CASE current[d] # g
      <4>1. groups'[current[d]] = groups[current[d]]
        BY <1>2, <3>1, <3>3 DEF TypeInv, DataOK
      <4> QED BY <1>2, <2>6, <4>1 DEF Here, Exists
    <3> QED BY <3>2, <3>3
  <2>7. (\A d \in Devices : current[d] # Origin => Here(d) \/ d \in Leaves(p))
          => (\A d \in Devices : current[d] # Origin => Here(d) \/ d \in Leaves(p))'
    BY <1>2, <1>3, <2>6
  <2> QED BY <1>0, <1>2, <2>2, <2>5, <2>7, PlacedStep
<1> QED BY <1>4, <1>5

\* Devices are moved to the group that has them, and those that leave to the origin.
LEMMA MovePlaced ==
  ASSUME TypeInv, TypeInv', AloneInv, PlacedInv, NEW p \in Procs,
         MoveToCurrent(p) \/ ActivateDevices(p) \/ ReturnToOrigin(p)
  PROVE  PlacedInv'
<1>0. /\ calls \in Handlers /\ calls[p] # Idle /\ Fresh(calls[p])
      /\ \A q \in Procs \ {p} : ~Started(q)
  BY Runs DEF MoveToCurrent, ActivateDevices, ReturnToOrigin, At, Activate, Expire, TypeInv
<1>1. UNCHANGED <<groups, crashes>>
  BY DEF MoveToCurrent, ActivateDevices, ReturnToOrigin, clock
<1>2. calls'[p] = Idle /\ \A q \in Procs \ {p} : calls'[q] = calls[q]
  BY <1>0 DEF MoveToCurrent, ActivateDevices, ReturnToOrigin, Finish, Handlers
<1>3. Leaves(p)' = {}
  BY <1>2 DEF Leaves
<1>4. ASSUME NEW d \in Devices, current'[d] # Origin,
             current[d] # Origin => Here(d) \/ d \in Leaves(p)
      PROVE  Here(d)'
  <2>1. CASE current'[d] = current[d] /\ d \notin Leaves(p)
    BY <1>1, <1>4, <2>1 DEF Here, Exists
  <2>2. CASE MoveToCurrent(p) \/ ActivateDevices(p)
    <3>1. Leaves(p) = {}
      BY <2>2 DEF MoveToCurrent, ActivateDevices, At, Leaves, Leaving
    <3>2. CASE current'[d] # current[d]
      <4>1. CASE MoveToCurrent(p)
        <5>1. current'[d] = calls[p].group /\ d \in calls[p].new.devices /\ calls[p].pc = "current"
          BY <3>2, <4>1 DEF MoveToCurrent, At
        <5> QED BY <1>0, <1>1, <5>1 DEF Fresh, Here, Exists
      <4>2. CASE ActivateDevices(p)
        <5>1. /\ current'[d] = calls[p].group /\ d \in calls[p].snap.devices
              /\ calls[p].pc = "activateDevices"
          BY <3>2, <4>2 DEF ActivateDevices, At
        <5> QED BY <1>0, <1>1, <5>1 DEF Fresh, Here, Exists
      <4> QED BY <2>2, <4>1, <4>2
    <3> QED BY <2>1, <3>1, <3>2
  <2>3. CASE ReturnToOrigin(p)
    <3>1. Leaves(p) = calls[p].snap.devices \ calls[p].new.devices
      BY <1>0, <2>3 DEF ReturnToOrigin, At, Leaves, Leaving
    <3>2. current'[d] = IF d \in Leaves(p) THEN Origin ELSE current[d]
      BY <2>3, <3>1 DEF ReturnToOrigin
    <3> QED BY <1>4, <2>1, <3>2
  <2> QED BY <2>2, <2>3
<1>5. (\A d \in Devices : current[d] # Origin => Here(d) \/ d \in Leaves(p))
        => (\A d \in Devices : current[d] # Origin => Here(d) \/ d \in Leaves(p))'
  BY <1>4
<1>6. (calls[p] # Idle => Fresh(calls[p]))'
  BY <1>2
<1> QED BY <1>0, <1>1, <1>2, <1>5, <1>6, PlacedStep

LEMMA BeginPlaced ==
  ASSUME TypeInv, PlacedInv, Overlap = FALSE, NEW p \in Requests, NEW c, Begin(p, c), Fresh(c),
         c.pc \notin Leaving
  PROVE  PlacedInv'
<1>0. p \in Procs
  BY DEF Procs
<1>1. \A q \in Procs \ {p} : ~Started(q)
  BY <1>0 DEF Begin, Alone
<1>2. calls[p] = Idle /\ calls' = [calls EXCEPT ![p] = c] /\ UNCHANGED <<groups, current, crashes>>
  BY DEF Begin, db
<1>3. calls'[p] = c /\ \A q \in Procs \ {p} : calls'[q] = calls[q]
  BY <1>0, <1>2 DEF TypeInv, Handlers
<1>4. (calls[p] # Idle => Fresh(calls[p]))'
  BY <1>2, <1>3 DEF Fresh, Exists
<1>5. Leaves(p) = {}
  BY <1>2 DEF Leaves
<1>6. \A q \in Procs \ {p} : ~Started(q) /\ calls'[q] = calls[q]
  BY <1>1, <1>3
<1> QED BY <1>0, <1>2, <1>4, <1>5, <1>6, StillStep

LEMMA RequestPlaced ==
  ASSUME TypeInv, PlacedInv, Overlap = FALSE, NEW p \in Requests,
         \/ \E w \in Windows, state \in {"pending", "ready"} :
              CreateGroup(p, w, state) \/ \E g \in Groups : UpdateGroup(p, g, w, state)
         \/ \E g \in Groups, serials \in SUBSET Devices :
              AddGroupDevices(p, g, serials) \/ RemoveGroupDevices(p, g, serials)
         \/ \E g \in Groups : DeleteGroup(p, g)
  PROVE  PlacedInv'
<1>1. ASSUME NEW pc \in {"reserve", "conflicts", "chargeUpdate", "uncharge", "delete"},
             NEW g, NEW snap, NEW new, NEW read, Begin(p, Call(pc, g, snap, new, read))
      PROVE  PlacedInv'
  <2> DEFINE c == Call(pc, g, snap, new, read)
  <2>1. c.pc = pc
    BY DEF Call
  <2>2. Begin(p, c)
    BY <1>1
  <2> HIDE DEF c
  <2>3. Fresh(c) /\ c.pc \notin Leaving
    BY <2>1 DEF Fresh, Leaving
  <2> QED BY <2>2, <2>3, BeginPlaced
<1>2. ASSUME NEW w \in Windows, NEW state \in {"pending", "ready"},
             CreateGroup(p, w, state) \/ \E g \in Groups : UpdateGroup(p, g, w, state)
      PROVE  PlacedInv'
  BY <1>1, <1>2 DEF CreateGroup, UpdateGroup
<1>3. ASSUME NEW g \in Groups, DeleteGroup(p, g) PROVE PlacedInv'
  BY <1>1, <1>3 DEF DeleteGroup
<1>4. ASSUME NEW g \in Groups, NEW serials \in SUBSET Devices, RemoveGroupDevices(p, g, serials)
      PROVE  PlacedInv'
  BY <1>1, <1>4 DEF RemoveGroupDevices
<1>5. ASSUME NEW g \in Groups, NEW serials \in SUBSET Devices, AddGroupDevices(p, g, serials)
      PROVE  PlacedInv'
  <2> DEFINE old == groups[g]
             devices == old.devices \cup serials
             new == [old EXCEPT !.devices = devices, !.duration = ComputeDuration(old, devices)]
             go == Call("current", g, old, old, NoUser)
             load == Call("load", g, old, new, NoUser)
  <2>1. Exists(g) /\ (Begin(p, go) \/ Begin(p, load))
    BY <1>5 DEF AddGroupDevices
  <2>2. old \in Group
    BY <2>1 DEF Exists, TypeInv, DataOK
  <2>3. new.devices = devices /\ old.devices \subseteq devices
    BY <2>2 DEF Group
  <2> HIDE DEF new, devices
  <2>4. go.pc = "current" /\ go.group = g /\ go.new = old
    BY DEF Call
  <2>5. load.pc = "load" /\ load.snap = old /\ load.new = new
    BY DEF Call
  <2> HIDE DEF go, load
  <2>6. Fresh(go) /\ go.pc \notin Leaving
    BY <2>1, <2>4 DEF Fresh, Leaving
  <2>7. Fresh(load) /\ load.pc \notin Leaving
    BY <2>3, <2>5 DEF Fresh, Leaving
  <2> QED BY <2>1, <2>6, <2>7, BeginPlaced
<1> QED BY <1>2, <1>3, <1>4, <1>5

LEMMA WaitingPlaced ==
  ASSUME PlacedInv, UNCHANGED <<groups, current, crashes>>,
         \A q \in Procs : \/ calls'[q] = calls[q]
                          \/ ~Started(q) /\ calls'[q] # Idle /\ calls'[q].pc \in Types
  PROVE  PlacedInv'
<1>1. ASSUME NEW q \in Procs, calls'[q] # Idle PROVE Fresh(calls[q])'
  <2>1. CASE calls'[q] = calls[q]
    <3>1. Fresh(calls[q])
      BY <1>1, <2>1 DEF PlacedInv, AllFresh
    <3> QED BY <2>1, <3>1 DEF Fresh, Exists
  <2>2. CASE calls'[q].pc \in Types
    BY <2>2 DEF Fresh, Types, Activate, Expire
  <2> QED BY <2>1, <2>2
<1>2. AllFresh'
  BY <1>1 DEF AllFresh
<1>3. \A q \in Procs : Leaves(q) \subseteq Leaves(q)'
  BY DEF Leaves, Leaving, Started, Types, Activate, Expire
<1>4. \A d : Here(d)' <=> Here(d)
  BY DEF Here, Exists
<1>5. Placed => Placed'
  BY <1>3, <1>4 DEF Placed
<1> QED BY <1>2, <1>5 DEF PlacedInv

LEMMA CrashPlaced == ASSUME TypeInv, Crash PROVE PlacedInv'
BY DEF Crash, TypeInv, ClockOK, PlacedInv, AllFresh

LEMMA InitPlaced == Init => PlacedInv
BY DEF Init, PlacedInv, AllFresh, Placed

LEMMA NextPlaced ==
  ASSUME TypeInv, TypeInv', AloneInv, PlacedInv, Overlap = FALSE, [Next]_vars
  PROVE  PlacedInv'
<1>1. ASSUME NEW p \in Requests, NEW w \in Windows, NEW state \in {"pending", "ready"},
             \/ CreateGroup(p, w, state)
             \/ \E g \in Groups : UpdateGroup(p, g, w, state)
      PROVE  PlacedInv'
  BY <1>1, RequestPlaced
<1>2. ASSUME NEW p \in Requests, NEW g \in Groups,
             \/ \E serials \in SUBSET Devices \ {{}} :
                  AddGroupDevices(p, g, serials) \/ RemoveGroupDevices(p, g, serials)
             \/ DeleteGroup(p, g)
      PROVE  PlacedInv'
  BY <1>2, RequestPlaced
<1>3. ASSUME NEW p \in Procs, Step(p) PROVE PlacedInv'
  BY <1>3, StillSteps, ReadPlaced, WritePlaced, StorePlaced, DeletePlaced, MovePlaced DEF Step
<1>4. CASE Reload \/ TimerFires \/ Tick
  BY <1>4, Waits, WaitingPlaced
<1>5. CASE UNCHANGED vars
  BY <1>5, WaitingPlaced DEF vars, db, clock
<1> QED BY <1>1, <1>2, <1>3, <1>4, <1>5, CrashPlaced DEF Next

\* CurrentReservedDevice: when no handler is under way and the process has not ended, a device
\* is in its origin group or in a group that exists and has reserved it, if no two handlers
\* overlap.
THEOREM CurrentReservedDeviceAlone ==
  ASSUME Overlap = FALSE PROVE Spec => []CurrentReservedDevice
<1>1. PlacedInv => CurrentReservedDevice
  BY DEF PlacedInv, Placed, Here, Leaves, CurrentReservedDevice, AtRest
<1>2. TypeInv /\ AloneInv /\ PlacedInv /\ [Next]_vars => (TypeInv /\ AloneInv /\ PlacedInv)'
  BY NextType, NextAlone, NextPlaced
<1>3. Init => TypeInv /\ AloneInv /\ PlacedInv
  BY InitType, InitAlone, InitPlaced
<1> QED BY <1>1, <1>2, <1>3, PTL DEF Spec
=============================================================================
