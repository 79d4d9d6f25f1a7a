----------------------------- MODULE AdbServer -----------------------------
(***************************************************************************)
(* The connections between the ADB observer and the ADB server, and what   *)
(* the server answers on them (external: as ADBObserver.ts uses it).       *)
(*                                                                         *)
(* A socket begins as a line to the server and becomes, after a            *)
(* host:transport command, a tunnel to one device that runs one shell      *)
(* command.  Answers are tokens: a status, a list of devices or a message  *)
(* that follows it, a line of a shell's output.                            *)
(***************************************************************************)
EXTENDS Naturals, Sequences, FiniteSets

CONSTANTS
  NumDevices,   \* devices are numbered as the server lists them
  NumSockets,   \* bound: sockets that exist at a time
  None

ASSUME AdbServerAssumption ==
  /\ NumDevices \in Nat \ {0} /\ NumSockets \in Nat \ {0}

Devices == 1..NumDevices
Sockets == 1..NumSockets

\* Commands: the list of devices, a connection to a network device and its end,
\* a tunnel to a device, a shell command there.
ListDevices == [name |-> "host:devices", device |-> 0]
Disconnect(d) == [name |-> "host:disconnect", device |-> d]
Connect(d) == [name |-> "host:connect", device |-> d]
Transport(d) == [name |-> "host:transport", device |-> d]
GetProp(d) == [name |-> "shell:getprop", device |-> d]
Commands == {ListDevices} \cup UNION
  {{Disconnect(d), Connect(d), Transport(d), GetProp(d)} : d \in Devices}

\* What the server sends; the list carries the state of every device it knows.
Okay == [token |-> "OKAY"]
Failed == [token |-> "FAIL"]
Text == [token |-> "text"]
Line == [token |-> "line"]
List(known) == [token |-> "list", known |-> known]

States == {"absent", "offline", "device"}

\* A socket: whether it is there, what it leads to (0: the server), the
\* commands the server has not read, what it has sent, what the client has
\* received and not understood yet, and who waits for it to open.
NoSocket == [state |-> "none", to |-> 0, commands |-> <<>>, sent |-> <<>>,
             buffer |-> <<>>, waiter |-> None]
Opening(who) == [NoSocket EXCEPT !.state = "opening", !.waiter = who]

\* The server reads a command, and may end the connection after its answer.
Answer(socket, tokens, ended) ==
  [socket EXCEPT !.commands = Tail(@), !.sent = @ \o tokens,
                 !.state = IF ended THEN "ended" ELSE @]

\* The sockets that can follow when the server reads the next command, given the
\* states of the devices and those that hang.  What is written to a tunnel goes
\* to its device; a list asked for there may still be answered.
Served(socket, known, hung) ==
  LET command == Head(socket.commands) d == command.device
  IN IF socket.to = 0
     THEN CASE command = ListDevices ->
                 {Answer(socket, <<Okay, List(known)>>, FALSE)}
            [] command.name \in {"host:disconnect", "host:connect"} ->
                 {Answer(socket, <<Okay, Text>>, FALSE)}
            [] command = Transport(d) /\ known[d] = "device" ->
                 {[Answer(socket, <<Okay>>, FALSE) EXCEPT !.to = d]}
            [] OTHER -> {Answer(socket, <<Failed>>, TRUE)}
     ELSE CASE socket.to \in hung -> {[socket EXCEPT !.commands = Tail(@)]}
            [] socket.to \notin hung /\ command.name = "shell:getprop" ->
                 {Answer(socket, <<Okay, Line>>, TRUE)}
            [] socket.to \notin hung /\ command = ListDevices ->
                 {Answer(socket, <<Failed>>, TRUE), Answer(socket, <<Okay, List(known)>>, TRUE)}
            [] OTHER -> {Answer(socket, <<Failed>>, TRUE)}
=============================================================================
