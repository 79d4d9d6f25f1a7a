----------------------------- MODULE DeviceApi -----------------------------
(***************************************************************************)
(* Requests of the API for one device: useDevice()                         *)
(* (units/api/helpers/useDevice.js), addUserDevice() and                   *)
(* deleteUserDeviceBySerial() (units/api/controllers/user.js), each a      *)
(* record of what it waits for: transactions (wire/transmanager.ts),       *)
(* listeners and their timers.                                             *)
(*                                                                         *)
(* A step returns the call after it and the messages it sends the device.  *)
(***************************************************************************)
EXTENDS DeviceWorker

CONSTANTS Calls   \* requests

\* The channels a call is answered on: of its two transactions and of the connection.
Channel(k, n) == <<k, n>>
Channels == Calls \X {1, 2, 3}

Kinds == {"use", "add", "release"}
Results == {"none", "ok", "refused", "failed"}
NewCall ==
  [kind |-> "none", user |-> NoUser, txn |-> 0, listener |-> FALSE, timer |-> FALSE,
   connect |-> FALSE, result |-> "none"]
Sent(call, messages) == [call |-> call, send |-> messages]

\* A promise is settled once, and res.json() ends the request.
Settle(call, result) ==
  IF call.result = "none" THEN [call EXCEPT !.result = result] ELSE call

\* The start of a call, with the document of the device that it has loaded.
IsAddable(device) == device.present /\ device.ready /\ device.owner = NoUser
IsOwnedBy(device, user) == device.present /\ device.ready /\ device.owner = user

Start(k, kind, user, device) ==
  LET call == [NewCall EXCEPT !.kind = kind, !.user = user]
      refused == Sent([call EXCEPT !.result = "refused"], <<>>)
  IN CASE kind = "use" ->
            IF ~IsAddable(device) THEN refused
            ELSE Sent([call EXCEPT !.txn = 1], <<Message("ungroup", NoUser, Channel(k, 1))>>)
       [] kind = "add" ->
            IF ~IsAddable(device) THEN refused
            ELSE Sent([call EXCEPT !.listener = TRUE, !.timer = TRUE],
                      <<Message("group", user, NoReply)>>)
       [] kind = "release" ->
            IF ~IsOwnedBy(device, user) THEN refused
            ELSE Sent([call EXCEPT !.txn = 1], <<Message("ungroup", NoUser, Channel(k, 1))>>)

\* mutant: a promise that a failed transaction leaves open
TransactionEndsSilently(k, call, okay) ==
  LET ended == [call EXCEPT !.txn = 0]
  IN IF call.kind = "release"
     THEN Sent(IF okay THEN ended ELSE Settle(ended, "failed"), <<>>)
     ELSE IF call.txn = 1
     THEN Sent([call EXCEPT !.txn = 2, !.listener = TRUE, !.timer = TRUE],
               <<Message("group", call.user, Channel(k, 2))>>)
     ELSE Sent(IF okay THEN ended ELSE [ended EXCEPT !.listener = FALSE, !.timer = FALSE], <<>>)

\* The end of a transaction.  useDevice() goes on after its first one whatever its end;
\* a release that succeeds answers nothing.
TransactionEnds(k, call, okay) ==
  LET ended == [call EXCEPT !.txn = 0]
  IN IF call.kind = "release"
     THEN Sent(IF okay THEN ended ELSE Settle(ended, "failed"), <<>>)
     ELSE IF call.txn = 1
     THEN Sent([call EXCEPT !.txn = 2, !.listener = TRUE, !.timer = TRUE],
               <<Message("group", call.user, Channel(k, 2))>>)
     ELSE IF okay THEN Sent(ended, <<>>)
     ELSE Sent(Settle([ended EXCEPT !.listener = FALSE, !.timer = FALSE], "failed"), <<>>)

\* mutant: a listener that does not clear its timer
JoinedKeepsTimer(k, call) ==
  IF call.kind = "add" THEN Sent(Settle([call EXCEPT !.listener = FALSE], "ok"), <<>>)
  ELSE Sent([call EXCEPT !.listener = FALSE, !.connect = TRUE],
            <<Message("connect", NoUser, Channel(k, 3))>>)

\* JoinGroupMessage for the user of the call.
Joined(k, call) ==
  LET heard == [call EXCEPT !.listener = FALSE, !.timer = FALSE]
  IN IF call.kind = "add" THEN Sent(Settle(heard, "ok"), <<>>)
     ELSE Sent([heard EXCEPT !.connect = TRUE], <<Message("connect", NoUser, Channel(k, 3))>>)

\* The timers; the one of the connection has its listener with it.
JoinTimeout(call) == Settle([call EXCEPT !.listener = FALSE, !.timer = FALSE], "failed")
ConnectEnds(call, result) == Settle([call EXCEPT !.connect = FALSE], result)
=============================================================================
