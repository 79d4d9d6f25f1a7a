------------------------------ MODULE Provider ------------------------------
(***************************************************************************)
(* The provider unit (units/provider/index.ts): what it does with the      *)
(* events of its ADBObserver, with the answers to its registrations and    *)
(* with the ends of its device workers.                                    *)
(*                                                                         *)
(* A step is one event of Node's loop, with the microtasks it leads to.    *)
(* A startDeviceWork coroutine that has not called start() is counted in   *)
(* tasks[d] under what it awaits: "register" the promise whose resolver    *)
(* is context.resolveRegister; "lost" one whose resolver was overwritten,  *)
(* which can only time out; "reregister" and "stale" the delay before a    *)
(* new registration, in the entry that exists and in one removed since;    *)
(* "restart" the delay before another start().                             *)
(***************************************************************************)
EXTENDS ProcessManager

CONSTANTS
  Devices,     \* serials
  AllPorts,    \* options.ports, cut to a multiple of ResourceCount
  Failures,    \* which failures happen: "exit", "signal", "clean", "timeout",
               \* "stuck" and "hang"
  MaxEvents    \* bound: changes the tracker reports, and failures

ASSUME ProviderAssumption ==
  /\ IsFiniteSet(Devices)
  /\ AllPorts \in Seq(Nat) /\ IsInjective(AllPorts)
  /\ Len(AllPorts) % ResourceCount = 0
  /\ Failures \subseteq {"exit", "signal", "clean", "timeout", "stuck", "hang"}
  /\ MaxEvents \in Nat

VARIABLES
  known,   \* the type the tracker knows of each device, or "gone"
  stuck,   \* the devices the tracker found stuck
  pm,      \* the ProcessManager, with the tasks
  events   \* changes and failures so far

vars == <<known, stuck, pm, events>>

Awaits == {"register", "lost", "reregister", "stale", "restart"}
NoTasks == [a \in Awaits |-> 0]

Init ==
  /\ known = [d \in Devices |-> "gone"]
  /\ stuck = {}
  /\ pm = [process |-> [d \in Devices |-> NoProcess], children |-> <<>>, pool |-> AllPorts,
           tasks |-> [d \in Devices |-> NoTasks]]
  /\ events = 0

Event == events < MaxEvents /\ events' = events + 1
Fails(kind) == kind \in Failures /\ Event
Quiet == UNCHANGED <<known, stuck, events>>

-----------------------------------------------------------------------------
(* Coroutines. *)

Await(s, d, a) == [s EXCEPT !.tasks[d][a] = @ + 1]
Move(s, d, from, to) ==
  [s EXCEPT !.tasks[d] = [s.tasks[d] EXCEPT ![from] = 0, ![to] = @ + s.tasks[d][from]]]

\* startDeviceWork after a start() that failed, or gone when the entry is.
StartLater(s, d) == IF Has(s, d) THEN Await(s, d, "restart") ELSE s

\* n coroutines that call start(): it fails without an entry, and so does the
\* coroutine; it is true at once for a process that runs.
Launch(s, d, n) ==
  IF n > 0 /\ Has(s, d) /\ s.process[d].state # "running" THEN Spawn(s, d, n, TRUE) ELSE s

\* resolveRegister(), called for DeviceRegistered and by onCleanup: all who
\* await the promise go on.
Resolve(s, d) ==
  LET t == [s EXCEPT !.tasks[d]["register"] = 0,
                     !.process[d].register = IF @ = "pending" THEN "resolved" ELSE @]
  IN  Launch(t, d, s.tasks[d]["register"])

\* startDeviceWork(device) of an entry, up to where it awaits the registration.
StartDeviceWork(s, d) ==
  CASE s.process[d].register = "resolved" -> Launch(s, d, 1)
    [] s.process[d].register = "rejected" -> Await(s, d, "reregister")
    [] s.process[d].register = "pending"  -> Await(s, d, "register")
    [] s.process[d].register = "lost"     -> Await(s, d, "lost")

\* ProcessManager.stop().  onCleanup resolves the registration first, and the
\* coroutines it wakes have forked their workers before the terminateHandler
\* is called: it is still that of the worker before.  They store theirs after.
Stop(s, d) == Resolve(Terminate(s, d), d)

\* removeDevice(), that is ProcessManager.remove(), of an entry that exists.
RemoveDevice(s, d) == Move(Delete(Stop(s, d), d), d, "reregister", "stale")

-----------------------------------------------------------------------------
(* The ADBObserver's events. *)

Connect(d, type) ==
  /\ Event /\ known[d] = "gone"
  /\ known' = [known EXCEPT ![d] = type]
  /\ LET created == Create(pm, d, "pending")
     IN  pm' = IF Has(pm, d) \/ ~Has(created, d) THEN pm
               ELSE IF type = "device" THEN StartDeviceWork(created, d) ELSE created
  /\ UNCHANGED stuck

\* Went offline: the worker is stopped, the entry and its ports are kept.
Offline(d) ==
  /\ Event /\ known[d] = "device"
  /\ known' = [known EXCEPT ![d] = "offline"]
  /\ pm' = IF Has(pm, d) /\ pm.process[d].state # "waiting"
           THEN SetState(Stop(pm, d), d, "waiting") ELSE pm
  /\ UNCHANGED stuck

Online(d) ==
  /\ Event /\ known[d] = "offline"
  /\ known' = [known EXCEPT ![d] = "device"]
  /\ stuck' = stuck \ {d}
  /\ pm' = IF Has(pm, d) /\ pm.process[d].state # "running" THEN StartDeviceWork(pm, d) ELSE pm

\* Mutant: the entry of a device that is gone is kept.
DisconnectKeeps(d) ==
  /\ Event /\ known[d] # "gone"
  /\ known' = [known EXCEPT ![d] = "gone"]
  /\ stuck' = stuck \ {d}
  /\ UNCHANGED pm

Disconnect(d) ==
  /\ Event /\ known[d] # "gone"
  /\ known' = [known EXCEPT ![d] = "gone"]
  /\ stuck' = stuck \ {d}
  /\ pm' = IF Has(pm, d) /\ d \notin stuck THEN RemoveDevice(pm, d) ELSE pm

\* What is there after the first n removals of a health check, for each n.
Removals(s, order) ==
  LET after[n \in 0..Len(order)] ==
        IF n = 0 THEN s ELSE RemoveDevice(after[n - 1], order[n])
  IN  after

\* The removals of a health check, in the order of the process map.
RemoveLate(s, late) ==
  \E order \in SetToSeqs(late) : pm' = Removals(s, order)[Len(order)]

\* The tracker finds that the device does not answer.  If it is the last one
\* looked at, "healthcheck" is emitted before remove() goes on, so an entry
\* that is late is still there and is removed a second time.
Unresponsive(d, last) ==
  /\ Fails("stuck") /\ known[d] = "device" /\ d \notin stuck
  /\ stuck' = stuck \cup {d}
  /\ LET late == IF last THEN Stuck(pm) ELSE {}
         once == IF Has(pm, d) THEN RemoveDevice(pm, d) ELSE pm
     IN  RemoveLate(IF d \in late THEN Release(once, pm.process[d].ports) ELSE once, late \ {d})
  /\ UNCHANGED known

\* The health check removes the entries that are late.
HealthCheck == Stuck(pm) # {} /\ RemoveLate(pm, Stuck(pm)) /\ Quiet

-----------------------------------------------------------------------------
(* Registration. *)

\* DeviceRegistered arrives.
Registered(d) ==
  /\ Has(pm, d)
  /\ pm.process[d].register = "pending" \/ pm.tasks[d]["register"] > 0
  /\ pm' = Resolve(pm, d)
  /\ Quiet

\* Mutant: a registration that timed out is given up.
TimeoutGivesUp(d) ==
  /\ Fails("timeout") /\ pm.tasks[d]["register"] > 0
  /\ pm' = [pm EXCEPT !.tasks[d]["register"] = 0]
  /\ UNCHANGED <<known, stuck>>

\* Ten seconds later: those who await the promise register again.
RegisterTimeout(d) ==
  /\ Fails("timeout") /\ pm.tasks[d]["register"] > 0
  /\ pm' = [Move(pm, d, "register", "reregister") EXCEPT
              !.process[d].register = IF @ = "pending" THEN "rejected" ELSE @]
  /\ UNCHANGED <<known, stuck>>

\* The process of the provider ends and its supervisor starts another: its
\* workers go with it, and it has yet to look which devices there are.
Reset ==
  /\ known' = [d \in Devices |-> "gone"]
  /\ stuck' = {}
  /\ pm' = [process |-> [d \in Devices |-> NoProcess], children |-> <<>>, pool |-> AllPorts,
            tasks |-> [d \in Devices |-> NoTasks]]

\* If nobody awaits it, the device having connected offline, the rejection is
\* unhandled, and ends the process.
UnhandledTimeout(d) ==
  /\ Fails("timeout") /\ Has(pm, d)
  /\ pm.process[d].register = "pending" /\ pm.tasks[d]["register"] = 0
  /\ Reset

LostTimeout(d) ==
  /\ pm.tasks[d]["lost"] > 0
  /\ \E rejected \in BOOLEAN :
       LET s == [pm EXCEPT !.tasks[d]["lost"] = @ - 1, !.tasks[d]["reregister"] = @ + 1]
       IN  pm' = IF Has(pm, d)
                 THEN IF rejected /\ pm.process[d].register = "lost"
                      THEN [s EXCEPT !.process[d].register = "rejected"] ELSE s
                 ELSE [pm EXCEPT !.tasks[d]["lost"] = @ - 1]
  /\ Quiet

\* The delay is over: a new registration takes the place of the resolver of
\* the one before.  Without an entry it settles never.
Reregister(d, a) ==
  /\ pm.tasks[d][a] > 0
  /\ LET s == [pm EXCEPT !.tasks[d][a] = @ - 1]
         t == Await(Move(s, d, "register", "lost"), d, "register")
     IN  pm' = IF ~Has(pm, d) THEN s
               ELSE [t EXCEPT !.process[d].register =
                       IF a = "reregister" THEN "pending"
                       ELSE IF @ = "pending" THEN "lost" ELSE @]
  /\ Quiet

\* The delay before another start() is over.
StartAgain(d) ==
  /\ pm.tasks[d]["restart"] > 0
  /\ pm' = Launch([pm EXCEPT !.tasks[d]["restart"] = @ - 1], d, 1)
  /\ Quiet

-----------------------------------------------------------------------------
(* Workers. *)

WorkerReady(i) ==
  /\ pm.children[i].phase = "booting"
  /\ pm' = Ready(pm, i)
  /\ Quiet

\* It exits with a code other than 0.
WorkerExits(i) ==
  /\ Fails("exit") /\ pm.children[i].phase \in {"booting", "running"}
  /\ pm' = Retry(pm, i)
  /\ UNCHANGED <<known, stuck>>

\* It is killed by a signal, or could not be spawned: start() is false, for
\* whom still awaits it.
WorkerKilled(i) ==
  /\ Fails("signal") /\ pm.children[i].phase \in {"booting", "running"}
  /\ pm' = IF pm.children[i].awaited THEN StartLater(Drop(pm, i), pm.children[i].device)
           ELSE Drop(pm, i)
  /\ UNCHANGED <<known, stuck>>

\* It exits with code 0: start() is true, and the state stays what it is.
WorkerStops(i) ==
  /\ Fails("clean") /\ pm.children[i].phase \in {"booting", "running"}
  /\ pm' = Drop(pm, i)
  /\ UNCHANGED <<known, stuck>>

WorkerRestarts(i) ==
  /\ pm.children[i].phase = "retry"
  /\ pm' = Restart(pm, i)
  /\ Quiet

WorkerDies(i) ==
  /\ pm.children[i].phase = "dying"
  /\ pm' = Drop(pm, i)
  /\ Quiet

\* It has been "starting" for ten minutes.
StartsLate(d) ==
  /\ Fails("hang") /\ Has(pm, d) /\ pm.process[d].state = "starting" /\ ~pm.process[d].late
  /\ pm' = [pm EXCEPT !.process[d].late = TRUE]
  /\ UNCHANGED <<known, stuck>>

\* A graceful shutdown removes every process and does not wait for the ends of
\* the workers.
Shutdown == Event /\ Reset

-----------------------------------------------------------------------------
AnyWorker(Step(_)) == \E i \in DOMAIN pm.children : Step(i)

Next ==
  \/ \E d \in Devices :
       \/ \E type \in {"device", "offline"} : Connect(d, type)
       \/ Offline(d) \/ Online(d) \/ Disconnect(d)
       \/ \E last \in BOOLEAN : Unresponsive(d, last)
       \/ Registered(d) \/ RegisterTimeout(d) \/ UnhandledTimeout(d) \/ LostTimeout(d)
       \/ \E a \in {"reregister", "stale"} : Reregister(d, a)
       \/ StartAgain(d) \/ StartsLate(d)
  \/ \E i \in DOMAIN pm.children :
       \/ WorkerReady(i) \/ WorkerExits(i) \/ WorkerKilled(i) \/ WorkerStops(i)
       \/ WorkerRestarts(i) \/ WorkerDies(i)
  \/ HealthCheck \/ Shutdown

\* Timers fire, the processor answers, and workers become ready and end.
Fairness ==
  /\ \A d \in Devices :
       /\ WF_vars(Registered(d)) /\ WF_vars(LostTimeout(d)) /\ WF_vars(StartAgain(d))
       /\ WF_vars(Reregister(d, "reregister")) /\ WF_vars(Reregister(d, "stale"))
  /\ WF_vars(AnyWorker(WorkerReady)) /\ WF_vars(AnyWorker(WorkerRestarts))
  /\ WF_vars(AnyWorker(WorkerDies))
  /\ WF_vars(HealthCheck)

Spec == Init /\ [][Next]_vars /\ Fairness

-----------------------------------------------------------------------------
(* Properties. *)

Entry == [state : {"waiting", "starting", "running"}, late : BOOLEAN,
          register : {"pending", "lost", "resolved", "rejected"},
          ports : [1..ResourceCount -> Range(AllPorts)]]
Child == [device : Devices, phase : Phase, awaited : BOOLEAN, held : BOOLEAN]
States == [process : [Devices -> Entry \cup {NoProcess}], children : Seq(Child),
           pool : Seq(Range(AllPorts)), tasks : [Devices -> [Awaits -> Nat]]]

ASSUME EntryAssumption == NoProcess \notin Entry

\* Every variable keeps its type.
TypeOK ==
  /\ known \in [Devices -> {"gone", "offline", "device"}]
  /\ stuck \subseteq Devices
  /\ pm \in States
  /\ events \in 0..MaxEvents

\* Every port is in the pool once or belongs to one device, whatever order
\* devices come, fail and go in.
PortsPartition ==
  \A p \in Range(AllPorts) :
    Cardinality({i \in DOMAIN pm.pool : pm.pool[i] = p})
      + Cardinality({d \in Devices : Has(pm, d) /\ p \in Range(pm.process[d].ports)}) = 1

\* "To make sure that we always bind the same type of service to the same
\* port, we must ensure that we allocate ports in fixed groups."
PortsInFixedGroups ==
  \A d \in Devices :
    Has(pm, d) =>
      \E k \in 0..Len(AllPorts) \div ResourceCount - 1 :
        pm.process[d].ports = SubSeq(AllPorts, k * ResourceCount + 1, (k + 1) * ResourceCount)

\* No entry, and no ports, are kept for a device that is gone or stuck.
EntryIsTracked == \A d \in Devices : Has(pm, d) => known[d] # "gone" /\ d \notin stuck

Workers(d) ==
  {i \in DOMAIN pm.children :
     pm.children[i].device = d /\ pm.children[i].phase \in {"booting", "running"}}

\* A worker that crashes is started again: as long as the state is "running"
\* there is a worker, or there will be one in two seconds.
CrashedWorkerRestarts ==
  \A d \in Devices :
    Has(pm, d) /\ pm.process[d].state = "running" =>
      \E i \in DOMAIN pm.children :
        pm.children[i].device = d /\ pm.children[i].phase \in {"running", "retry", "booting"}

Served(d) ==
  /\ Has(pm, d) /\ pm.process[d].state = "running"
  /\ \E i \in Workers(d) : pm.children[i].phase = "running"

\* A device that stays online gets a worker that runs.
OnlineIsServed ==
  \A d \in Devices :
    known[d] = "device" /\ d \notin stuck ~> Served(d) \/ known[d] # "device" \/ d \in stuck

\* The entry of a device that stays online gets a worker that runs, or is
\* removed: no registration that is late, and no worker that exits or hangs,
\* leaves an entry that nothing is done for.
EntryIsServed ==
  \A d \in Devices :
    Has(pm, d) /\ known[d] = "device" ~> Served(d) \/ ~Has(pm, d) \/ known[d] # "device"

\* "For each device, the provider spawns a dedicated worker process."
OneWorkerPerDevice == \A d \in Devices : Cardinality(Workers(d)) <= 1

\* "Device went offline - stop worker but keep it in waiting state."
OfflineHasNoWorker == \A d \in Devices : known[d] = "offline" => Workers(d) = {}

\* "Remove a process and release its resources", "Stop the process first".
RemovedHasNoWorker == \A d \in Devices : ~Has(pm, d) => Workers(d) = {}
=============================================================================
