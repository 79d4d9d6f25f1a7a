---------------------------- MODULE DeviceWorker ----------------------------
(***************************************************************************)
(* The worker of one Android device as the rest of the system sees it: who *)
(* has it (units/base-device/plugins/group.ts, modelled in full by         *)
(* GroupPlugin), the screen it keeps awake for its user and the cleanup    *)
(* when the user leaves (units/device/plugins/group.ts), and the remote    *)
(* connection it opens on request.                                         *)
(*                                                                         *)
(* A handler returns the worker after it and the messages it pushes.       *)
(***************************************************************************)
EXTENDS Naturals, Sequences

CONSTANTS
  Users,
  NoUser,     \* the owner of a device nobody has
  NoReply     \* the channel of a message nobody waits for the answer of

ASSUME DeviceWorkerAssumption == NoUser \notin Users

Message(kind, user, to) == [kind |-> kind, user |-> user, to |-> to]
Reply(kind, to) == IF to = NoReply THEN <<>> ELSE <<Message(kind, NoUser, to)>>
Handled(worker, push) == [worker |-> worker, push |-> push]

\* A worker that starts: no owner, nothing under way.
NewWorker ==
  [up |-> TRUE, owner |-> NoUser, wake |-> FALSE, asked |-> 0, cleaning |-> 0,
   connects |-> {}]
DeadWorker == [NewWorker EXCEPT !.up = FALSE]

\* GroupMessage: a device that is free is joined and woken up; the caller is told
\* "okay" whatever has become of it.
Group(w, user, to) ==
  IF w.owner = NoUser
  THEN Handled([w EXCEPT !.owner = user, !.wake = TRUE],
               <<Message("join", user, NoReply)>> \o Reply("okay", to))
  ELSE Handled(w, Reply("okay", to))

\* mutant: the user who leaves a device that is asleep is not announced
LeaveQuietly(w, to) ==
  IF w.owner = NoUser THEN Handled(w, Reply("fail", to))
  ELSE Handled([w EXCEPT !.owner = NoUser, !.asked = @ + 1],
               <<Message("ask", NoUser, NoReply)>> \o Reply("okay", to))

\* leave(): the cleanup asks whether the device is in its origin group.
Leave(w, to) ==
  IF w.owner = NoUser THEN Handled(w, Reply("fail", to))
  ELSE Handled([w EXCEPT !.owner = NoUser, !.asked = @ + 1],
               <<Message("leave", w.owner, NoReply), Message("ask", NoUser, NoReply)>>
                 \o Reply("okay", to))

\* The first answer answers every question that is open (runTransactionDev).
Answered(w) == [w EXCEPT !.cleaning = @ + w.asked, !.asked = 0]

\* mutant: the wake lock is kept when the question is not answered
UnansweredAwake(w) == [w EXCEPT !.asked = @ - 1]

\* The question is not answered in time: no cleanup, and the screen may sleep.
Unanswered(w) == [w EXCEPT !.asked = @ - 1, !.wake = FALSE]

\* The commands of a cleanup have run.
Cleaned(w) == [w EXCEPT !.cleaning = @ - 1, !.wake = FALSE]

\* ConnectStartMessage, and the connection is open.
ConnectStart(w, to) == Handled([w EXCEPT !.connects = @ \cup {to}], <<>>)
Connected(w, to) == Handled([w EXCEPT !.connects = @ \ {to}], Reply("connected", to))

\* What a message does.
Receive(w, m) ==
  CASE m.kind = "group" -> Group(w, m.user, m.to)
    [] m.kind = "ungroup" -> Leave(w, m.to)
    [] m.kind = "connect" -> ConnectStart(w, m.to)
    [] m.kind = "origin" -> Handled(Answered(w), <<>>)
=============================================================================
