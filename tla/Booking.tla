------------------------------- MODULE Booking -------------------------------
(***************************************************************************)
(* The booking system: transient groups ("once") that reserve devices for  *)
(* a time, the quotas of their owner, and the current group of every       *)
(* device.  units/api/controllers/groups.js serves the requests, db/models *)
(* does them, db/handlers/group/scheduler.js starts and ends the groups,   *)
(* in the same process.                                                    *)
(*                                                                         *)
(* The database is MongoDB: one update is atomic, a handler is a sequence  *)
(* of reads and updates, and any other handler may run between two of      *)
(* them.  A call is a handler under way: pc is the read or update it does  *)
(* next, `read` the user document it has read, `snap` the group document,  *)
(* `new` the document it is going to write.                                *)
(***************************************************************************)
EXTENDS GroupsScheduler

CONSTANTS
  Groups,             \* ids of groups
  Devices,            \* serials
  Requests,           \* requests that may be under way at once
  Windows,            \* <<start, stop>>, the life times users ask for
  AllocatedNumber,    \* the owner's quotas
  AllocatedDuration,
  Origin,             \* the origin group of every device
  NoId, NoGroup, NoUser, Idle, Timer,
  Overlap,            \* FALSE: every handler runs alone
  MaxRequests,        \* bound: requests
  MaxCrashes,         \* bound: ends of the process
  MaxTime             \* bound: the clock

ASSUME BookingAssumption ==
  /\ IsFiniteSet(Groups) /\ IsFiniteSet(Devices)
  /\ Windows \subseteq (0..MaxTime) \X (0..MaxTime)
  /\ {AllocatedNumber, AllocatedDuration, MaxRequests, MaxCrashes, MaxTime} \subseteq Nat
  /\ Overlap \in BOOLEAN
  /\ Origin \notin Groups /\ NoId \notin Groups /\ Timer \notin Groups \cup Requests

VARIABLES
  groups,    \* the group documents
  used,      \* the ids given so far
  user,      \* the document of the owner
  current,   \* device.group.id of every device
  calls,     \* the handlers under way
  sched,     \* the scheduler
  now,       \* the clock
  requests,  \* requests so far
  crashes    \* ends of the process so far

db == <<groups, used, user, current>>
clock == <<now, requests, crashes>>
vars == <<db, calls, sched, clock>>

\* A handler is that of a request, of the scheduler's timer, or of the task
\* that was due for a group when the scheduler looked.
Procs == Requests \cup Groups \cup {Timer}

Call(pc, g, snap, new, read) ==
  [pc |-> pc, group |-> g, snap |-> snap, new |-> new, read |-> read]
Task(task) == Call(task.type, task.group, NoGroup, NoGroup, NoUser)

Init ==
  /\ groups = [g \in Groups |-> NoGroup]
  /\ used = {}
  /\ user = [number |-> 0, duration |-> 0, subscribed |-> {}]
  /\ current = [d \in Devices |-> Origin]
  /\ calls = [p \in Procs |-> Idle]
  /\ sched = [reload |-> FALSE, queue |-> <<>>, timer |-> NoTask]
  /\ now = 0 /\ requests = 0 /\ crashes = 0

-----------------------------------------------------------------------------
(* Documents. *)

Exists(g) == groups[g] # NoGroup

\* computeDuration(), of a group without repetitions.
ComputeDuration(doc, devices) == Cardinality(devices) * (doc.stop - doc.start)

\* Mutant: windows that touch are told apart from windows that overlap by one.
DatesOverlapLess(a, b) == a.start + 1 < b.stop /\ b.start + 1 < a.stop

\* checkDatesOverlaps(), and the same test in checkConflicts().
DatesOverlap(a, b) == a.start < b.stop /\ b.start < a.stop

Taken(doc, devices, among) ==
  \E h \in among :
    Exists(h) /\ groups[h].devices \cap devices # {} /\ DatesOverlap(doc, groups[h])

\* Mutant: the quota is not looked at.
ChargedAlways(u, old, new) == [u EXCEPT !.duration = @ + new - old]

\* The update of updateUserGroupDuration().
Charged(u, old, new) ==
  IF u.duration + new - old <= AllocatedDuration
  THEN [u EXCEPT !.duration = @ + new - old] ELSE u

-----------------------------------------------------------------------------
(* Handlers. *)

Started(p) == calls[p] # Idle /\ calls[p].pc \notin {Activate, Expire}
Alone(p) == Overlap \/ \A q \in Procs \ {p} : ~Started(q)

At(p, pc) == calls[p] # Idle /\ calls[p].pc = pc
Goto(p, pc) == calls' = [calls EXCEPT ![p].pc = pc]

\* sched with, or without, a call of scheduleAllGroupsTasks.
Touched(touched) == [sched EXCEPT !.reload = @ \/ touched]

\* The handler ends; that of the timer schedules the next task.
Finish(p, touched) ==
  /\ calls' = [calls EXCEPT ![p] = Idle]
  /\ sched' = IF p = Timer THEN NextTask(Touched(touched)) ELSE Touched(touched)

Begin(p, call) ==
  /\ calls[p] = Idle /\ requests < MaxRequests /\ Alone(p)
  /\ requests' = requests + 1
  /\ calls' = [calls EXCEPT ![p] = call]
  /\ UNCHANGED <<db, sched, now, crashes>>

-----------------------------------------------------------------------------
(* createGroup().  It does not wait for the answer of checkSchedule().      *)

\* Bound: there is an id left for every group that is being created.
Unborn == {p \in Requests : At(p, "reserve") \/ At(p, "insert")}

CreateGroup(p, w, state) ==
  /\ Cardinality(used) + Cardinality(Unborn) < Cardinality(Groups)
  /\ Begin(p, Call("reserve", NoId, NoGroup,
                   [start |-> w[1], stop |-> w[2], devices |-> {}, duration |-> 0,
                    state |-> state, isActive |-> FALSE], user))

\* Mutant: the group is created and not counted.
ReserveFree(p) ==
  /\ At(p, "reserve")
  /\ user.number < AllocatedNumber
  /\ Goto(p, "insert")
  /\ UNCHANGED <<db, sched, clock>>

\* Mutant: a user without a group left is charged one more.
ReserveOver(p) ==
  /\ At(p, "reserve")
  /\ user' = [user EXCEPT !.number = @ + 1]
  /\ Goto(p, "insert")
  /\ UNCHANGED <<groups, used, current, sched, clock>>

\* reserveUserGroupInstance(): it succeeds when the document is not the one
\* that was read before, whoever changed it.
Reserve(p) ==
  /\ At(p, "reserve")
  /\ user' = [user EXCEPT !.number = Min({@ + 1, AllocatedNumber})]
  /\ IF user' # calls[p].read THEN Goto(p, "insert") /\ UNCHANGED sched ELSE Finish(p, FALSE)
  /\ UNCHANGED <<groups, used, current, clock>>

Insert(p) ==
  /\ At(p, "insert")
  /\ \E g \in Groups \ used :
       /\ groups' = [groups EXCEPT ![g] = calls[p].new]
       /\ used' = used \cup {g}
       /\ calls' = [calls EXCEPT ![p].pc = "subscribe", ![p].group = g]
  /\ sched' = Touched(TRUE)
  /\ UNCHANGED <<user, current, clock>>

\* addGroupUser() of the owner.
Subscribe(p) ==
  /\ At(p, "subscribe")
  /\ user' = [user EXCEPT !.subscribed = @ \cup {calls[p].group}]
  /\ Finish(p, Exists(calls[p].group))
  /\ UNCHANGED <<groups, used, current, clock>>

-----------------------------------------------------------------------------
(* addGroupDevices(). *)

AddGroupDevices(p, g, serials) ==
  /\ Exists(g)
  /\ LET devices == groups[g].devices \cup serials
         new == [groups[g] EXCEPT !.devices = devices,
                                  !.duration = ComputeDuration(groups[g], devices)]
     IN  Begin(p, IF devices = groups[g].devices
                  THEN Call("current", g, groups[g], groups[g], NoUser)
                  ELSE Call("load", g, groups[g], new, NoUser))

LoadOwner(p) ==
  /\ At(p, "load")
  /\ calls' = [calls EXCEPT ![p].pc = "charge", ![p].read = user]
  /\ UNCHANGED <<db, sched, clock>>

\* When the quota is reached the group is deleted.
Charge(p) ==
  /\ At(p, "charge")
  /\ user' = Charged(user, calls[p].snap.duration, calls[p].new.duration)
  /\ Goto(p, IF user' # calls[p].read THEN "check" ELSE "find")
  /\ UNCHANGED <<groups, used, current, sched, clock>>

\* When the devices are taken the request is refused, and what was charged is
\* not given back.
CheckOverlaps(p) ==
  /\ At(p, "check")
  /\ IF Taken(calls[p].snap, calls[p].new.devices \ calls[p].snap.devices, Groups)
     THEN Finish(p, FALSE)
     ELSE Goto(p, "storeAdded") /\ UNCHANGED sched
  /\ UNCHANGED <<db, clock>>

\* Mutant: the duration is not written with the devices.
StoreDevicesOnly(p) ==
  /\ At(p, "storeAdded") \/ At(p, "storeRemoved")
  /\ LET g == calls[p].group
         next == IF At(p, "storeAdded") THEN "current" ELSE "returnRemoved"
     IN  /\ groups' = [groups EXCEPT ![g].devices = calls[p].new.devices]
         /\ calls' = [calls EXCEPT ![p].pc = next]
         /\ sched' = Touched(TRUE)
  /\ UNCHANGED <<used, user, current, clock>>

\* The findOneAndUpdate of addGroupDevices() and removeGroupDevices().  It
\* returns the document it wrote; of a group that is gone, nothing, and the
\* handler ends in a TypeError.
StoreDevices(p) ==
  /\ At(p, "storeAdded") \/ At(p, "storeRemoved")
  /\ LET g == calls[p].group
         doc == [groups[g] EXCEPT !.devices = calls[p].new.devices,
                                  !.duration = calls[p].new.duration]
     IN  IF ~Exists(g) THEN Finish(p, TRUE) /\ UNCHANGED groups
         ELSE /\ groups' = [groups EXCEPT ![g] = doc]
              /\ calls' = [calls EXCEPT
                   ![p] = IF At(p, "storeAdded") THEN Call("current", g, @.snap, doc, NoUser)
                          ELSE Call("returnRemoved", g, @.snap, @.new, NoUser)]
              /\ sched' = Touched(TRUE)
  /\ UNCHANGED <<used, user, current, clock>>

\* The clock stands for the moments after its last tick: a window has begun
\* when now >= start and is over when now >= stop.
Begun(doc) == doc.start <= now /\ now < doc.stop

\* Devices of a group whose time has come are moved to it, whatever its state.
MoveToCurrent(p) ==
  /\ At(p, "current")
  /\ current' = IF Begun(calls[p].new)
                THEN [d \in Devices |-> IF d \in calls[p].new.devices
                                        THEN calls[p].group ELSE current[d]]
                ELSE current
  /\ Finish(p, FALSE)
  /\ UNCHANGED <<groups, used, user, clock>>

-----------------------------------------------------------------------------
(* removeGroupDevices(). *)

RemoveGroupDevices(p, g, serials) ==
  /\ Exists(g) /\ serials \cap groups[g].devices # {}
  /\ LET devices == groups[g].devices \ serials
     IN  Begin(p, Call("uncharge", g, groups[g],
                       [groups[g] EXCEPT !.devices = devices,
                                         !.duration = ComputeDuration(groups[g], devices)],
                       NoUser))

Uncharge(p) ==
  /\ At(p, "uncharge")
  /\ user' = Charged(user, calls[p].snap.duration, calls[p].new.duration)
  /\ Goto(p, "storeRemoved")
  /\ UNCHANGED <<groups, used, current, sched, clock>>

\* Mutant: the devices stay where they are.
ReturnNone(p) ==
  /\ At(p, "returnRemoved") \/ At(p, "returnDeleted")
  /\ Finish(p, At(p, "returnDeleted"))
  /\ UNCHANGED <<db, clock>>

\* updateDevicesCurrentGroupFromOrigin(): whatever group the devices are in.
ReturnToOrigin(p) ==
  /\ At(p, "returnRemoved") \/ At(p, "returnDeleted")
  /\ current' = [d \in Devices |-> IF d \in calls[p].snap.devices \ calls[p].new.devices
                                   THEN Origin ELSE current[d]]
  /\ Finish(p, At(p, "returnDeleted"))
  /\ UNCHANGED <<groups, used, user, clock>>

-----------------------------------------------------------------------------
(* deleteGroups() of one group, and deleteUserGroup(), which the scheduler  *)
(* calls as well.                                                           *)

DeleteGroup(p, g) ==
  /\ Exists(g)
  /\ Begin(p, Call("delete", g, NoGroup, NoGroup, NoUser))

\* deleteGroups() called by addGroupDevices().
Find(p) ==
  /\ At(p, "find")
  /\ IF Exists(calls[p].group) THEN Goto(p, "delete") /\ UNCHANGED sched ELSE Finish(p, FALSE)
  /\ UNCHANGED <<db, clock>>

DeleteRead(p) ==
  /\ At(p, "delete")
  /\ LET doc == groups[calls[p].group]
     IN  calls' = [calls EXCEPT ![p].pc = "deleteOne", ![p].snap = doc,
                                ![p].new = IF doc = NoGroup THEN NoGroup
                                           ELSE [doc EXCEPT !.devices = {}, !.duration = 0]]
  /\ UNCHANGED <<db, sched, clock>>

\* deleteOne() deletes nothing if another was faster, and nobody looks.
\* A group that was gone before ends the handler in a TypeError.
DeleteOne(p) ==
  /\ At(p, "deleteOne")
  /\ groups' = [groups EXCEPT ![calls[p].group] = NoGroup]
  /\ IF calls[p].snap = NoGroup THEN Finish(p, FALSE)
     ELSE Goto(p, "unsubscribe") /\ UNCHANGED sched
  /\ UNCHANGED <<used, user, current, clock>>

Unsubscribe(p) ==
  /\ At(p, "unsubscribe")
  /\ user' = [user EXCEPT !.subscribed = @ \ {calls[p].group}]
  /\ Goto(p, "release")
  /\ UNCHANGED <<groups, used, current, sched, clock>>

\* Mutant: releaseUserGroupInstance() is forgotten.
ReleaseNot(p) ==
  /\ At(p, "release")
  /\ Goto(p, "refund")
  /\ UNCHANGED <<db, sched, clock>>

Release(p) ==
  /\ At(p, "release")
  /\ user' = [user EXCEPT !.number = Max({@ - 1, 0})]
  /\ Goto(p, "refund")
  /\ UNCHANGED <<groups, used, current, sched, clock>>

Refund(p) ==
  /\ At(p, "refund")
  /\ user' = Charged(user, calls[p].snap.duration, 0)
  /\ Goto(p, "returnDeleted")
  /\ UNCHANGED <<groups, used, current, sched, clock>>

-----------------------------------------------------------------------------
(* updateGroup() of a group that is still pending. *)

UpdateGroup(p, g, w, state) ==
  /\ Exists(g) /\ groups[g].state = "pending" /\ w[1] < w[2]
  /\ LET dates == [groups[g] EXCEPT !.start = w[1], !.stop = w[2], !.state = state,
                                    !.isActive = FALSE]
         new == [dates EXCEPT !.duration = ComputeDuration(dates, dates.devices)]
         wider == new.start < groups[g].start \/ new.stop > groups[g].stop
     IN  Begin(p, Call(IF wider THEN "conflicts" ELSE "chargeUpdate", g, groups[g], new, NoUser))

CheckConflicts(p) ==
  /\ At(p, "conflicts")
  /\ IF Taken(calls[p].new, calls[p].new.devices, Groups \ {calls[p].group})
     THEN Finish(p, FALSE)
     ELSE Goto(p, "chargeUpdate") /\ UNCHANGED sched
  /\ UNCHANGED <<db, clock>>

\* updateUserGroup(): a change of the duration is charged, and refused.
ChargeUpdate(p) ==
  /\ At(p, "chargeUpdate")
  /\ user' = Charged(user, calls[p].snap.duration, calls[p].new.duration)
  /\ IF calls[p].new.duration # calls[p].snap.duration
     THEN Finish(p, FALSE)
     ELSE Goto(p, "storeUpdate") /\ UNCHANGED sched
  /\ UNCHANGED <<groups, used, current, clock>>

StoreUpdate(p) ==
  /\ At(p, "storeUpdate")
  /\ LET g == calls[p].group
     IN  groups' = IF ~Exists(g) THEN groups
                   ELSE [groups EXCEPT ![g] = [calls[p].new EXCEPT !.devices = groups[g].devices]]
  /\ Finish(p, TRUE)
  /\ UNCHANGED <<used, user, current, clock>>

-----------------------------------------------------------------------------
(* The scheduler. *)

Ready == {g \in Groups : Exists(g) /\ groups[g].state = "ready"}

\* Bound: what was due when the scheduler looked is done when it looks again,
\* three seconds later at the earliest.
Reload ==
  /\ sched.reload /\ \A g \in Groups : calls[g] = Idle
  /\ Overlap \/ \A p \in Procs : calls[p] = Idle
  /\ \E order \in SetToSeqs(Ready) : Rebuilt(sched, sched', groups, order, now)
  /\ calls' = [p \in Procs |->
                 IF p \in Ready /\ DueFor(p, groups[p], now) # {}
                 THEN Task(CHOOSE task \in DueFor(p, groups[p], now) : TRUE) ELSE calls[p]]
  /\ UNCHANGED <<db, clock>>

\* Bound: a timer that is set while the task of the one before is under way
\* fires when that is done, if it is still set then.
TimerFires ==
  /\ sched.timer # NoTask /\ now >= sched.timer.time
  /\ calls[Timer] = Idle
  /\ calls' = [calls EXCEPT ![Timer] = Task(sched.timer)]
  /\ sched' = [sched EXCEPT !.timer = NoTask]
  /\ UNCHANGED <<db, clock>>

\* processTask(): the group is read again.
ProcessTask(p) ==
  /\ calls[p] # Idle /\ calls[p].pc \in {Activate, Expire} /\ Alone(p)
  /\ LET g == calls[p].group
     IN  IF ~Exists(g) THEN Finish(p, FALSE)
         ELSE /\ calls' = [calls EXCEPT
                             ![p].pc = IF At(p, Activate) THEN "activate" ELSE "delete",
                             ![p].snap = groups[g]]
              /\ UNCHANGED sched
  /\ UNCHANGED <<db, clock>>

\* doBecomeActiveGroup() does two updates at once.
ActivateFlag(p) ==
  /\ At(p, "activate")
  /\ groups' = IF Exists(calls[p].group)
               THEN [groups EXCEPT ![calls[p].group].isActive = TRUE] ELSE groups
  /\ Goto(p, "activateDevices")
  /\ UNCHANGED <<used, user, current, sched, clock>>

ActivateDevices(p) ==
  /\ At(p, "activateDevices")
  /\ current' = [d \in Devices |-> IF d \in calls[p].snap.devices
                                   THEN calls[p].group ELSE current[d]]
  /\ Finish(p, FALSE)
  /\ UNCHANGED <<groups, used, user, clock>>

\* The process ends and starts again: what was under way is lost, and the
\* scheduler looks at the groups.
Crash ==
  /\ crashes < MaxCrashes
  /\ crashes' = crashes + 1
  /\ calls' = [p \in Procs |-> Idle]
  /\ sched' = [reload |-> TRUE, queue |-> <<>>, timer |-> NoTask]
  /\ UNCHANGED <<db, now, requests>>

Tick ==
  /\ now < MaxTime
  /\ now' = now + 1
  /\ UNCHANGED <<db, calls, sched, requests, crashes>>

-----------------------------------------------------------------------------
Step(p) ==
  \/ Reserve(p) \/ Insert(p) \/ Subscribe(p)
  \/ LoadOwner(p) \/ Charge(p) \/ CheckOverlaps(p) \/ StoreDevices(p) \/ MoveToCurrent(p)
  \/ Uncharge(p) \/ ReturnToOrigin(p)
  \/ Find(p) \/ DeleteRead(p) \/ DeleteOne(p) \/ Unsubscribe(p) \/ Release(p) \/ Refund(p)
  \/ CheckConflicts(p) \/ ChargeUpdate(p) \/ StoreUpdate(p)
  \/ ProcessTask(p) \/ ActivateFlag(p) \/ ActivateDevices(p)

Next ==
  \/ \E p \in Requests, w \in Windows, state \in {"pending", "ready"} :
       \/ CreateGroup(p, w, state)
       \/ \E g \in Groups : UpdateGroup(p, g, w, state)
  \/ \E p \in Requests, g \in Groups :
       \/ \E serials \in SUBSET Devices \ {{}} :
            AddGroupDevices(p, g, serials) \/ RemoveGroupDevices(p, g, serials)
       \/ DeleteGroup(p, g)
  \/ \E p \in Procs : Step(p)
  \/ Reload \/ TimerFires \/ Crash \/ Tick

\* The database answers, timers fire and time passes.
Fairness ==
  /\ \A p \in Procs : WF_vars(Step(p))
  /\ WF_vars(Reload) /\ WF_vars(TimerFires) /\ WF_vars(Tick)

Spec == Init /\ [][Next]_vars /\ Fairness

-----------------------------------------------------------------------------
(* Properties. *)

Times == 0..MaxTime
Group == [start : Times, stop : Times, devices : SUBSET Devices, duration : Int,
          state : {"pending", "ready"}, isActive : BOOLEAN]
User == [number : 0..AllocatedNumber, duration : Int, subscribed : SUBSET Groups]
Types == {Activate, Expire}
Pcs == {"reserve", "insert", "subscribe", "load", "charge", "check", "storeAdded", "current",
        "uncharge", "storeRemoved", "returnRemoved", "find", "delete", "deleteOne",
        "unsubscribe", "release", "refund", "returnDeleted", "conflicts", "chargeUpdate",
        "storeUpdate", "activate", "activateDevices"}
Calls == [pc : Pcs \cup Types, group : Groups \cup {NoId}, snap : Group \cup {NoGroup},
          new : Group \cup {NoGroup}, read : User \cup {NoUser}]
ASSUME DocumentAssumption == NoGroup \notin Group /\ Idle \notin Calls
Tasks == [group : Groups, type : Types, time : Times]

\* Every variable keeps its type.
TypeOK ==
  /\ groups \in [Groups -> Group \cup {NoGroup}]
  /\ used \subseteq Groups
  /\ user \in User
  /\ current \in [Devices -> Groups \cup {Origin}]
  /\ calls \in [Procs -> Calls \cup {Idle}]
  /\ sched \in [reload : BOOLEAN, queue : Seq(Tasks), timer : Tasks \cup {NoTask}]
  /\ now \in Times /\ requests \in 0..MaxRequests /\ crashes \in 0..MaxCrashes

AtRest == crashes = 0 /\ \A p \in Procs : calls[p] = Idle
Existing == {g \in Groups : Exists(g)}

\* What the owner has consumed never passes what is allocated, however the
\* handlers interleave and wherever the process ends.
ConsumedWithinQuota ==
  user.number <= AllocatedNumber /\ user.duration <= AllocatedDuration

\* A group is paid for before it exists and until it is gone, wherever the
\* process ends.
GroupsArePaid == Cardinality(Existing) <= user.number

\* "403: Forbidden => quota is reached": nobody has more groups than allocated.
QuotaKept == Cardinality(Existing) <= AllocatedNumber

\* "Forbidden (device(s) are busy in the required schedule period)": there is
\* no moment at which two groups have reserved the same device.
NoDoubleBooking ==
  \A t \in Times, g, h \in Existing :
    /\ g # h
    /\ groups[g].start <= t /\ t < groups[g].stop
    /\ groups[h].start <= t /\ t < groups[h].stop
    => groups[g].devices \cap groups[h].devices = {}

\* The number consumed is that of the groups: the "actual consumed resources".
NumberExact == AtRest => user.number = Cardinality(Existing)

\* The duration consumed is that of the groups.
DurationExact == AtRest => user.duration = FoldSet(LAMBDA g, sum : groups[g].duration + sum, 0, Existing)

\* The duration of a group, which is given back when it is deleted, is that of
\* its devices.
GroupDurationExact ==
  AtRest => \A g \in Existing : groups[g].duration = ComputeDuration(groups[g], groups[g].devices)

\* "When groups are deleted - devices return to origin": a device's current
\* group is its origin group or a group that exists and reserved it.
CurrentReservedDevice ==
  AtRest =>
    \A d \in Devices :
      current[d] # Origin => Exists(current[d]) /\ d \in groups[current[d]].devices

\* "Reserve devices for users during specified time periods": the devices of
\* an active group are there while its window lasts.
ActiveHoldsDevices ==
  AtRest =>
    \A g \in Existing :
      groups[g].isActive /\ Begun(groups[g]) => \A d \in groups[g].devices : current[d] = g

\* "Invalid life time: startTime >= stopTime" is a bad request.
LifeTimeValid == \A g \in Existing : groups[g].start < groups[g].stop


=============================================================================
