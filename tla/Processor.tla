----------------------------- MODULE Processor -----------------------------
(***************************************************************************)
(* units/processor/index.ts for the messages that say who has a device:    *)
(* what its handlers write to the document of the device                   *)
(* (db/models/all/model.js) and which messages they pass on, and when.     *)
(***************************************************************************)
EXTENDS DeviceWorker

\* The fields of the document that the API looks at.
NewDevice == [owner |-> NoUser, ready |-> TRUE, present |-> TRUE]

\* mutant: setDeviceReady() that leaves the owner alone
WrittenReadyKeeps(device, m) ==
  CASE m.kind = "join" -> [device EXCEPT !.owner = m.user]
    [] m.kind = "leave" -> [device EXCEPT !.owner = NoUser]
    [] m.kind = "ready" -> [device EXCEPT !.ready = TRUE, !.present = TRUE]
    [] m.kind = "absent" -> [device EXCEPT !.present = FALSE]
    [] m.kind = "introduction" -> [device EXCEPT !.ready = FALSE, !.present = TRUE]
    [] OTHER -> device

\* setDeviceState(), setDeviceReady(), setDeviceAbsent(), saveDeviceInitialState()
Written(device, m) ==
  CASE m.kind = "join" -> [device EXCEPT !.owner = m.user]
    [] m.kind = "leave" -> [device EXCEPT !.owner = NoUser]
    [] m.kind = "ready" -> [owner |-> NoUser, ready |-> TRUE, present |-> TRUE]
    [] m.kind = "absent" -> [device EXCEPT !.owner = NoUser, !.present = FALSE]
    [] m.kind = "introduction" -> [owner |-> NoUser, ready |-> FALSE, present |-> TRUE]
    [] OTHER -> device

\* A processor reads its messages in order.  The answers of transactions are passed on
\* when they are read; for all the others the database is called first, and the
\* calls of one processor end in order.
PassedOn(m) == m.kind \in {"okay", "fail"}
FirstPassedOn(queue) ==
  {i \in DOMAIN queue : PassedOn(queue[i]) /\ \A j \in 1..i - 1 : ~PassedOn(queue[j])}
Without(queue, i) == SubSeq(queue, 1, i - 1) \o SubSeq(queue, i + 1, Len(queue))

\* What goes on to the application side and is heard by the API, and to the device.
ToApi(m) == IF m.kind \in {"join", "connected", "okay", "fail"} THEN <<m>> ELSE <<>>
ToDevice(m) == IF m.kind = "ask" THEN <<Message("origin", NoUser, NoReply)>> ELSE <<>>

\* The messages a unit pushes are dealt to the processors.
Dealt(messages, to, p) ==
  LET mine[n \in 0..Len(messages)] ==
        IF n = 0 THEN <<>>
        ELSE IF to[n] = p THEN Append(mine[n - 1], messages[n]) ELSE mine[n - 1]
  IN  mine[Len(messages)]
=============================================================================
