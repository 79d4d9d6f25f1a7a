----------------------------- MODULE Ownership -----------------------------
(***************************************************************************)
(* Who has a device, from the worker that decides it to the document that  *)
(* everybody reads and the requests that wait for it: the worker           *)
(* (DeviceWorker), the processors and the database (Processor) and the     *)
(* requests of the API (DeviceApi), with the queues between them.          *)
(***************************************************************************)
EXTENDS Processor, DeviceApi, FiniteSets, SequencesExt

CONSTANTS
  Processors,
  MaxGroupings,   \* bound: joins and leaves asked for by the user interface
  MaxCrashes,     \* bound: workers that die
  MaxLate         \* bound: timeouts that overtake an answer

ASSUME OwnershipAssumption ==
  /\ IsFiniteSet(Calls) /\ Processors # {}
  /\ MaxGroupings \in Nat /\ MaxCrashes \in Nat /\ MaxLate \in Nat

VARIABLES
  w,           \* the worker
  device,      \* the document in the database
  queue,       \* [Processors -> messages of the device side not yet handled]
  toDevice,    \* messages on their way to the worker
  toApi,       \* messages on their way to the API
  calls,
  had,         \* history: the calls whose user has had the device since they began, or
               \* since the end of the lease they asked for
  cut,         \* history: whether a call has ended the lease of another user
  groupings, crashes, late   \* count against the bounds

net == <<queue, toDevice, toApi>>
counts == <<groupings, crashes, late>>
vars == <<w, device, net, calls, had, cut, counts>>

-----------------------------------------------------------------------------
Init ==
  /\ w = NewWorker /\ device = NewDevice
  /\ queue = [p \in Processors |-> <<>>] /\ toDevice = <<>> /\ toApi = <<>>
  /\ calls = [k \in Calls |-> NewCall]
  /\ had = {} /\ cut = FALSE
  /\ groupings = 0 /\ crashes = 0 /\ late = 0

\* Messages are pushed by a unit of the device side.
Push(messages) ==
  \E to \in [DOMAIN messages -> Processors] :
    queue' = [p \in Processors |-> queue[p] \o Dealt(messages, to, p)]

\* A handler of the worker has run: its state and its messages.
WorkerDoes(after) == w' = after.worker /\ Push(after.push)

-----------------------------------------------------------------------------
(* The worker and its provider.                                            *)

\* Whose request a message is: the user interface's are nobody's.
CallerOf(m) == IF m.to = NoReply THEN NoUser ELSE calls[m.to[1]].user

\* The worker handles a message; there is nobody to hear it while it is down.
Deliver ==
  /\ toDevice # <<>> /\ toDevice' = Tail(toDevice)
  /\ LET m == Head(toDevice)
     IN IF ~w.up THEN UNCHANGED <<w, queue, had, cut>>
        ELSE /\ WorkerDoes(Receive(w, m))
             /\ had' = (had \ {k \in Calls : m.to = Channel(k, 1)})
                         \cup {k \in Calls : w'.owner \in {calls[k].user} \ {NoUser}}
             /\ cut' = (cut \/ /\ m.kind = "ungroup" /\ CallerOf(m) # NoUser
                               /\ w.owner \notin {NoUser, CallerOf(m)})
  /\ UNCHANGED <<device, toApi, calls, counts>>

WorkerUnchanged == UNCHANGED <<device, toDevice, toApi, calls, had, cut, counts>>

ConnectionOpens ==
  /\ \E to \in w.connects : WorkerDoes(Connected(w, to))
  /\ WorkerUnchanged
CleanupEnds ==
  /\ w.cleaning > 0
  /\ w' = Cleaned(w) /\ queue' = queue
  /\ WorkerUnchanged

\* The lease ends by itself, after its idle time.
AutomaticTimeout ==
  /\ w.owner # NoUser /\ groupings < MaxGroupings /\ groupings' = groupings + 1
  /\ WorkerDoes(Leave(w, NoReply))
  /\ UNCHANGED <<device, toDevice, toApi, calls, had, cut, crashes, late>>

\* The worker dies without a word; it is started again, or the provider has lost the
\* device, and introduces it again when it is back.
Die ==
  /\ w.up /\ crashes < MaxCrashes /\ crashes' = crashes + 1
  /\ w' = DeadWorker
  /\ \/ UNCHANGED queue
     \/ Push(<<Message("absent", NoUser, NoReply)>>)
  /\ UNCHANGED <<device, toDevice, toApi, calls, had, cut, groupings, late>>
Restart ==
  /\ ~w.up
  /\ w' = NewWorker
  /\ \/ Push(<<Message("ready", NoUser, NoReply)>>)
     \/ Push(<<Message("introduction", NoUser, NoReply), Message("ready", NoUser, NoReply)>>)
  /\ WorkerUnchanged

-----------------------------------------------------------------------------
(* The processors.                                                         *)

\* A message that needs the database, which nothing that must be passed on precedes.
Write(p) ==
  /\ queue[p] # <<>> /\ ~PassedOn(Head(queue[p]))
  /\ LET m == Head(queue[p])
     IN /\ device' = Written(device, m)
        /\ toApi' = toApi \o ToApi(m) /\ toDevice' = toDevice \o ToDevice(m)
  /\ queue' = [queue EXCEPT ![p] = Tail(@)]
  /\ UNCHANGED <<w, calls, had, cut, counts>>

\* An answer does not wait for the calls of the database before it.
PassOn(p) ==
  /\ \E i \in FirstPassedOn(queue[p]) :
       /\ toApi' = toApi \o ToApi(queue[p][i])
       /\ queue' = [queue EXCEPT ![p] = Without(@, i)]
  /\ UNCHANGED <<w, device, toDevice, calls, had, cut, counts>>

-----------------------------------------------------------------------------
(* The user interface and the API.                                         *)

\* group.invite and group.kick of some user's page.
Page ==
  /\ groupings < MaxGroupings /\ groupings' = groupings + 1
  /\ \/ \E u \in Users : toDevice' = Append(toDevice, Message("group", u, NoReply))
     \/ toDevice' = Append(toDevice, Message("ungroup", NoUser, NoReply))
  /\ UNCHANGED <<w, device, queue, toApi, calls, had, cut, crashes, late>>

\* A handler of the API has run for a call.
CallDoes(k, after) ==
  /\ calls' = [calls EXCEPT ![k] = after.call]
  /\ toDevice' = toDevice \o after.send
CallUnchanged == UNCHANGED <<w, device, queue, cut, groupings, crashes>>

Request(k) ==
  /\ calls[k].kind = "none"
  /\ \E kind \in Kinds, u \in Users :
       /\ CallDoes(k, Start(k, kind, u, device))
       /\ had' = IF w.owner = u THEN had \cup {k} ELSE had
  /\ UNCHANGED <<toApi, late>> /\ CallUnchanged

\* A message reaches the listeners of its channel, or those of JoinGroupMessage.
Listeners(m) == {k \in Calls : calls[k].listener /\ calls[k].user = m.user}
Connecting(m) == {k \in Listeners(m) : calls[k].kind = "use"}
HearJoin(m) ==
  /\ m.kind = "join"
  /\ LET heard == [k \in Listeners(m) |-> Joined(k, calls[k])]
     IN /\ calls' = [k \in Calls |-> IF k \in Listeners(m) THEN heard[k].call ELSE calls[k]]
        /\ \E order \in [1..Cardinality(Connecting(m)) -> Connecting(m)] :
             /\ IsInjective(order)
             /\ toDevice' = toDevice \o [i \in DOMAIN order |-> heard[order[i]].send[1]]
HearDone(m) ==
  /\ m.kind \in {"okay", "fail"}
  /\ LET waiting == {k \in Calls : calls[k].txn # 0 /\ m.to = Channel(k, calls[k].txn)}
     IN IF waiting = {} THEN UNCHANGED <<calls, toDevice>>
        ELSE \E k \in waiting : CallDoes(k, TransactionEnds(k, calls[k], m.kind = "okay"))
HearConnected(m) ==
  /\ m.kind = "connected"
  /\ LET waiting == {k \in Calls : calls[k].connect /\ m.to = Channel(k, 3)}
     IN IF waiting = {} THEN UNCHANGED <<calls, toDevice>>
        ELSE \E k \in waiting : CallDoes(k, Sent(ConnectEnds(calls[k], "ok"), <<>>))
Hear ==
  /\ toApi # <<>> /\ toApi' = Tail(toApi)
  /\ LET m == Head(toApi) IN HearJoin(m) \/ HearDone(m) \/ HearConnected(m)
  /\ UNCHANGED <<had, late>> /\ CallUnchanged

\* Messages take milliseconds and a timeout twenty seconds: it comes when everything
\* has been delivered, or it is late messages that it overtakes.
Carried == Range(toDevice) \cup Range(toApi) \cup UNION {Range(queue[p]) : p \in Processors}
Timeout ==
  IF Carried = {} /\ w.connects = {} THEN UNCHANGED late
  ELSE late < MaxLate /\ late' = late + 1

TransactionTimeout(k) ==
  /\ calls[k].txn # 0
  /\ Timeout
  /\ CallDoes(k, TransactionEnds(k, calls[k], FALSE))
  /\ UNCHANGED <<toApi, had>> /\ CallUnchanged
ResponseTimeout(k) ==
  /\ calls[k].timer
  /\ Timeout
  /\ CallDoes(k, Sent(JoinTimeout(calls[k]), <<>>))
  /\ UNCHANGED <<toApi, had>> /\ CallUnchanged
ConnectTimeout(k) ==
  /\ calls[k].connect
  /\ Timeout
  /\ CallDoes(k, Sent(ConnectEnds(calls[k], "failed"), <<>>))
  /\ UNCHANGED <<toApi, had>> /\ CallUnchanged

\* The worker's question where the device is times out.
OriginTimeout ==
  /\ w.asked > 0
  /\ Timeout
  /\ w' = Unanswered(w)
  /\ UNCHANGED <<device, net, calls, had, cut, groupings, crashes>>

-----------------------------------------------------------------------------
Next ==
  \/ Deliver \/ ConnectionOpens \/ CleanupEnds \/ AutomaticTimeout \/ Die \/ Restart
  \/ \E p \in Processors : Write(p) \/ PassOn(p)
  \/ Page \/ Hear \/ OriginTimeout
  \/ \E k \in Calls :
       Request(k) \/ TransactionTimeout(k) \/ ResponseTimeout(k) \/ ConnectTimeout(k)

\* Units that are up read their sockets, the database answers, timers run out and a
\* worker that died is started again.
OnTime == UNCHANGED late
Fairness ==
  /\ WF_vars(Deliver) /\ WF_vars(Hear) /\ WF_vars(ConnectionOpens)
  /\ WF_vars(CleanupEnds) /\ WF_vars(Restart) /\ WF_vars(OriginTimeout /\ OnTime)
  /\ \A p \in Processors : WF_vars(Write(p)) /\ WF_vars(PassOn(p))
  /\ \A k \in Calls :
       /\ WF_vars(TransactionTimeout(k) /\ OnTime)
       /\ WF_vars(ResponseTimeout(k) /\ OnTime)
       /\ WF_vars(ConnectTimeout(k) /\ OnTime)
Spec == Init /\ [][Next]_vars
FairSpec == Spec /\ Fairness

-----------------------------------------------------------------------------
(* Properties.                                                             *)

Messages == [kind : STRING, user : Users \cup {NoUser}, to : Channels \cup {NoReply}]
TypeOK ==
  /\ w \in [up : BOOLEAN, owner : Users \cup {NoUser}, wake : BOOLEAN, asked : Nat,
            cleaning : Nat, connects : SUBSET Channels]
  /\ device \in [owner : Users \cup {NoUser}, ready : BOOLEAN, present : BOOLEAN]
  /\ Carried \subseteq Messages
  /\ calls \in [Calls -> [kind : Kinds \cup {"none"}, user : Users \cup {NoUser},
                  txn : 0..2, listener : BOOLEAN, timer : BOOLEAN, connect : BOOLEAN,
                  result : Results]]

\* The document ends up with the owner the worker has, present and ready, whatever
\* joins, leaves, crashes and restarts there were: when the processors have
\* nothing left to do nothing is out of date (JoinGroup, LeaveGroup, DeviceReady).
Handed == \A p \in Processors : queue[p] = <<>>
OwnerRecorded ==
  w.up /\ Handed => device = [owner |-> w.owner, ready |-> TRUE, present |-> TRUE]

\* A listener for JoinGroupMessage goes with its timer, so that none stays for ever
\* and no timer answers a request that has been answered; and who still waits for
\* the device has not been answered (useDevice, addUserDevice).
ListenersHaveTimers ==
  \A k \in Calls : /\ calls[k].listener = calls[k].timer
                   /\ calls[k].listener => calls[k].result = "none"

\* A device nobody has does not keep its screen on for ever (acquireWakeLock,
\* releaseWakeLock), although the answer to one question answers all.
IdleMaySleep ==
  w.owner = NoUser /\ w.asked = 0 /\ w.cleaning = 0 => ~w.wake

\* Every request for a device is answered, with or without an answer of the device.
UseIsAnswered ==
  \A k \in Calls : calls[k].kind \in {"use", "add"} ~> calls[k].result # "none"

\* A lease as DeviceLease has it, without its times, which only the worker keeps.
Lease == INSTANCE DeviceLease WITH
  Groups <- Users, None <- NoUser, MaxTerm <- 1,
  owner <- w.owner, timed <- FALSE, term <- IF w.owner = NoUser THEN 0 ELSE 1,
  idle <- 0, told <- {}

\* Whatever requests, pages, timeouts and crashes ask of the worker and in whatever order,
\* a user gets the device only when nobody has it: it never passes from one to another.
ImplementsDeviceLease == Lease!Spec

\* What does not hold.  A release is answered too; a request ends no lease of another
\* user; a user's screen stays on; a cleanup is over before the next user comes; a
\* request that is told it failed leaves the device alone; a request that is told its
\* user has the device is right (the JoinGroupMessage it hears may be one of an earlier
\* lease, which the answer of its own Ungroup transaction has overtaken).
ReleaseIsAnswered == \A k \in Calls : calls[k].kind = "release" ~> calls[k].result # "none"
OwnLeaseOnly == ~cut
UserStaysAwake == w.owner # NoUser => w.wake
CleanedUnowned == w.owner # NoUser => w.cleaning = 0
FailedHasNothing ==
  groupings = 0 /\ toDevice = <<>> =>
    \A k \in Calls : calls[k].result = "failed" => w.owner # calls[k].user
IsGranted(kind) ==
  late + crashes = 0 =>
    \A k \in Calls : calls[k].kind = kind /\ calls[k].result = "ok" => k \in had
UseIsGranted == IsGranted("use")
AddIsGranted == IsGranted("add")
=============================================================================
