--------------------------- MODULE ProcessManager ---------------------------
(***************************************************************************)
(* lib/util/ProcessManager.ts with its ResourcePool: the entry of each     *)
(* device (state, ports), the children it forked, and the pool of ports.   *)
(*                                                                         *)
(* The provider is one thread: an operator here is what a method does      *)
(* until it awaits a child or a timer, and works on a record s with        *)
(*   process[d]  the entry of device d in `processes`, or NoProcess        *)
(*   children    the children whose end has not been seen, oldest first    *)
(*   pool        the ports available                                       *)
(*   tasks[d]    the provider's startDeviceWork coroutines (see Provider)  *)
(* A child is `held` if the terminateHandler of its device's entry kills   *)
(* it, `awaited` if a startDeviceWork coroutine awaits its start(), and    *)
(* "dying" once killed: its listeners are gone, so nobody hears of it and  *)
(* its start() never returns.  After an exit with an error it stays here,  *)
(* in "retry", for the two seconds start() waits before it starts another. *)
(***************************************************************************)
EXTENDS SequencesExt

CONSTANTS
  NoProcess,      \* no entry
  ResourceCount   \* RESOURCE_ALLOCATION_COUNT, the ports of one device

ASSUME ProcessManagerAssumption == ResourceCount \in Nat \ {0}

Phase == {"booting", "running", "retry", "dying"}

Has(s, d) == s.process[d] # NoProcess

\* create(): the same record when the process exists or the ports do not suffice.
Create(s, d, context) ==
  IF Has(s, d) \/ Len(s.pool) < ResourceCount THEN s
  ELSE [s EXCEPT !.process[d] = [state |-> "waiting", late |-> FALSE, register |-> context,
                                 ports |-> SubSeq(s.pool, 1, ResourceCount)],
                 !.pool = SubSeq(@, ResourceCount + 1, Len(@))]

\* setState(); what it does to the timer is seen by nobody.
SetState(s, d, state) ==
  IF Has(s, d) THEN [s EXCEPT !.process[d].state = state, !.process[d].late = FALSE] ELSE s

\* start() of a process that exists and does not run, or start(force), called
\* n times before the first spawn is over: nothing keeps a process that is
\* "starting" from being started again.  Each call stores a terminateHandler
\* over the last one, so only the last child is held.
Spawn(s, d, n, awaited) ==
  [s EXCEPT
     !.process[d].state = "starting", !.process[d].late = FALSE,
     !.children =
       [i \in DOMAIN @ |-> IF @[i].device = d THEN [@[i] EXCEPT !.held = FALSE] ELSE @[i]]
         \o [i \in 1..n |-> [device |-> d, phase |-> "booting", awaited |-> awaited,
                             held |-> i = n]]]

\* handleReady(): the entry is looked up by id, whichever child became ready.
Ready(s, i) ==
  LET d == s.children[i].device
      t == [s EXCEPT !.children[i].phase = "running", !.children[i].awaited = FALSE]
  IN  IF Has(s, d) THEN SetState(t, d, "running") ELSE t

Drop(s, i) == [s EXCEPT !.children = RemoveAt(@, i)]

\* Mutant: an ExitError is not retried.
RetryNot(s, i) == Drop(s, i)

\* handleError() with the ExitError of a code other than 0.
Retry(s, i) ==
  IF Has(s, s.children[i].device)
  THEN [s EXCEPT !.children[i].phase = "retry", !.children[i].held = FALSE]
  ELSE Drop(s, i)

\* Its restart, two seconds later, whatever became of the state meanwhile.
Restart(s, i) ==
  LET d == s.children[i].device
  IN  IF Has(s, d) THEN Spawn(Drop(s, i), d, 1, s.children[i].awaited) ELSE Drop(s, i)

\* The terminateHandler: it forgets the listeners, then kills gracefully.
Terminate(s, d) ==
  [s EXCEPT !.children =
     [i \in DOMAIN @ |->
        IF @[i].device = d /\ @[i].held
        THEN [@[i] EXCEPT !.phase = "dying", !.awaited = FALSE, !.held = FALSE] ELSE @[i]]]

\* Mutant: remove() keeps the ports.
ReleaseNothing(s, ports) == s

\* Mutant: the ports come back one by one, each to the front.
ReleaseToFront(s, ports) == [s EXCEPT !.pool = Reverse(ports) \o @]

\* ResourcePool.release().
Release(s, ports) == [s EXCEPT !.pool = @ \o ports]

\* What remove() does after stop(): the entry goes, and its terminateHandler
\* with it, so no child is held any more.
Delete(s, d) ==
  [Release(s, s.process[d].ports) EXCEPT
     !.process[d] = NoProcess,
     !.children = [i \in DOMAIN @ |->
                     IF @[i].device = d THEN [@[i] EXCEPT !.held = FALSE] ELSE @[i]]]

\* checkHealth(): an entry is late when it has been "starting" for
\* startupTimeoutMs.
Stuck(s) == {d \in DOMAIN s.process : Has(s, d) /\ s.process[d].state = "starting" /\ s.process[d].late}
=============================================================================
