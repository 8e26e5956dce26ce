------------------------------- MODULE CommUdp -------------------------------
(***************************************************************************)
(* The UDP server (comm/comm_udp.c) over recvfrom and sendto of socket.c,  *)
(* and comm.operation, through which it asks the TCP client                *)
(* (comm/comm_tcp3.c) for a connection and the client asks for DHCP.       *)
(*                                                                         *)
(* recvfrom returns a datagram in parts of MAX_EW_DGRAM bytes, here its    *)
(* chunks.  Each chunk is what comm_udp_server makes of those bytes:       *)
(* "ew hello" or any other text (answered), "ew con" (port), "ew delay"    *)
(* (ticks), or an "ew con" for somebody else (ignored).                    *)
(***************************************************************************)
EXTENDS Integers, Sequences

CONSTANTS
  Hosts,            \* addresses of the peers
  Nowhere,          \* 0.0.0.0, which sendto and connect refuse
  Datagrams,        \* what the peers may send: [from, chunks]
  RxMax,            \* datagrams that fit into the socket's receive memory
  MaxDatagrams,     \* bound: datagrams
  MaxResets         \* bound: losses of the chip's registers

Addresses == Hosts \cup {Nowhere}
Chunk == [kind : {"answered", "con", "delay", "ignored"}, arg : Int]
Datagram == [from : Hosts, chunks : Seq(Chunk)]

ASSUME DatagramsAssumption ==
  /\ Datagrams \subseteq Datagram
  /\ Nowhere \notin Hosts
ASSUME BoundsAssumption ==
  RxMax \in Nat /\ MaxDatagrams \in Nat /\ MaxResets \in Nat

VARIABLES
  sr,               \* Sn_SR of the server's socket
  rx,               \* its receive memory: datagrams, of the first what is left
  begun,            \* the header of the first one has been read
  client_sr,        \* Sn_SR of the client's socket; "BUSY" from SYNSENT on
  haveIp,           \* the source address register SIPR is not 0
  remained,         \* sock_remained_size of the server's socket, in chunks
  operation,        \* comm.operation
  host,             \* comm.host
  event_loop_delay,
  pc,               \* where the main loop is
  state,            \* the local copy of Sn_SR in either function
  sender,           \* comm_udp_server's local variable
  datagrams,        \* datagrams so far
  resets,           \* resets so far
  asked,            \* history: the last "ew con" and its true sender
  answered          \* history: the last chunk answered, its true sender,
                    \* and where the answer went

chip == <<sr, rx, begun, client_sr, haveIp>>
loop == <<remained, operation, host, event_loop_delay, pc, state, sender>>
history == <<asked, answered>>
vars == <<chip, loop, datagrams, resets, history>>

NoHost == [ip |-> Nowhere, port |-> 0]
NotAsked == [ip |-> Nowhere, port |-> 0, whole |-> FALSE]
NotAnswered == [from |-> Nowhere, to |-> Nowhere]

Init ==
  /\ sr = "CLOSED" /\ rx = << >> /\ begun = FALSE
  /\ client_sr = "CLOSED" /\ haveIp = FALSE
  /\ remained = 0 /\ operation = "DHCP" /\ host = NoHost
  /\ event_loop_delay = 0 /\ pc = "handler" /\ state = "CLOSED"
  /\ sender = Nowhere
  /\ datagrams = 0 /\ resets = 0
  /\ asked = NotAsked /\ answered = NotAnswered

-----------------------------------------------------------------------------
(***************************************************************************)
(* comm_handler.  HAL_Delay takes a negative delay for one of 49 days.     *)
(***************************************************************************)
Turn == pc = "handler" /\ event_loop_delay >= 0

\* OP_DHCP: wiz_set_dhcp_ip writes an address to the chip, leased or static.
SetDhcpIp ==
  /\ Turn /\ operation = "DHCP"
  /\ haveIp' = TRUE
  /\ operation' = "WAIT"
  /\ UNCHANGED <<sr, rx, begun, client_sr, remained, host, event_loop_delay,
                 pc, state, sender, datagrams, resets, history>>

PollServer ==
  /\ Turn /\ operation # "DHCP"
  /\ state' = sr
  /\ pc' = "server"
  /\ UNCHANGED <<chip, remained, operation, host, event_loop_delay, sender,
                 datagrams, resets, history>>

-----------------------------------------------------------------------------
(***************************************************************************)
(* comm_udp_server.                                                        *)
(***************************************************************************)
Serving == pc = "server" /\ state = "UDP"

\* Mutant of Reopened: close and socket keep sock_remained_size.
ReopenedOnly == remained

\* sock_remained_size after socket().
Reopened == 0

ServerClosed ==
  /\ pc = "server" /\ state = "CLOSED"
  /\ sr' = "UDP" /\ rx' = << >> /\ begun' = FALSE
  /\ remained' = Reopened
  /\ pc' = "client"
  /\ UNCHANGED <<client_sr, haveIp, operation, host, event_loop_delay, state,
                 sender, datagrams, resets, history>>

\* Mutant of Readable: an empty datagram does not count as one.
ReadableBytes == remained > 0 \/ (rx # << >> /\ Head(rx).chunks # << >>)

\* Sn_RX_RSR, or what recvfrom remembers of the last datagram.
Readable == remained > 0 \/ rx # << >>

\* recvfrom: SOCK_BUSY, or SOCKERR_SOCKMODE after a reset.
ReceiveNothing ==
  /\ Serving
  /\ sr = "CLOSED" \/ ~Readable
  /\ pc' = "client"
  /\ UNCHANGED <<chip, remained, operation, host, event_loop_delay, state,
                 sender, datagrams, resets, history>>

\* The receive memory without the chunk, or without an empty datagram.
Consume ==
  LET d == Head(rx)
  IN  IF Len(d.chunks) <= 1
        THEN rx' = Tail(rx) /\ begun' = FALSE
        ELSE /\ rx' = <<[d EXCEPT !.chunks = Tail(d.chunks)]>> \o Tail(rx)
             /\ begun' = TRUE

\* Mutant of Remaining: a whole part is taken off, of an empty datagram too.
RemainingLess(size) == size - 1

\* sock_remained_size after a part: no more than it is taken off.
Remaining(size) == IF size = 0 THEN 0 ELSE size - 1

\* recvfrom.  It writes the sender of a datagram's first part only: for the
\* others the local variable is what is on the stack.
recvfrom ==
  /\ sr = "UDP" /\ Readable /\ rx # << >>
  /\ IF remained = 0
       THEN /\ sender' = Head(rx).from
            /\ remained' = Remaining(Len(Head(rx).chunks))
       ELSE /\ sender' \in Addresses
            /\ remained' = Remaining(remained)
  /\ Consume

\* The part recvfrom returns.
Part == Head(Head(rx).chunks)
HasPart(kind) ==
  rx # << >> /\ Head(rx).chunks # << >> /\ Part.kind = kind

ReceiveEmpty ==
  /\ Serving /\ recvfrom
  /\ Head(rx).chunks = << >>
  /\ pc' = "client"
  /\ UNCHANGED <<sr, client_sr, haveIp, operation, host, event_loop_delay,
                 state, datagrams, resets, history>>

\* "ew hello", and the echo of anything else.
ReceiveAnswered ==
  /\ Serving /\ HasPart("answered") /\ recvfrom
  /\ pc' = "sendto"
  /\ answered' = [from |-> Head(rx).from, to |-> sender']
  /\ UNCHANGED <<sr, client_sr, haveIp, operation, host, event_loop_delay,
                 state, datagrams, resets, asked>>

Ports == 65536

\* Mutant of HostOf: the address of an earlier request is kept.
HostOfFirst(ip, port) ==
  [ip |-> IF host.ip = Nowhere THEN ip ELSE host.ip, port |-> port % Ports]

\* atoi's number is kept in a uint16_t, whatever it is.
HostOf(ip, port) == [ip |-> ip, port |-> port % Ports]

\* "ew con" with this device's name.
ReceiveConnect ==
  /\ Serving /\ HasPart("con") /\ recvfrom
  /\ host' = HostOf(sender', Part.arg)
  /\ operation' = "CONNECT_HOST"
  /\ asked' = [ip |-> Head(rx).from, port |-> Part.arg, whole |-> ~begun]
  /\ pc' = "client"
  /\ UNCHANGED <<sr, client_sr, haveIp, event_loop_delay, state, datagrams,
                 resets, answered>>

ReceiveDelay ==
  /\ Serving /\ HasPart("delay") /\ recvfrom
  /\ event_loop_delay' = Part.arg
  /\ pc' = "client"
  /\ UNCHANGED <<sr, client_sr, haveIp, operation, host, state, datagrams,
                 resets, history>>

ReceiveIgnored ==
  /\ Serving /\ HasPart("ignored") /\ recvfrom
  /\ pc' = "client"
  /\ UNCHANGED <<sr, client_sr, haveIp, operation, host, event_loop_delay,
                 state, datagrams, resets, history>>

\* sendto: SOCKERR_IPINVALID, SOCKERR_SOCKMODE, or a SEND command.
SendTo ==
  /\ pc = "sendto"
  /\ pc' = IF sender = Nowhere \/ sr = "CLOSED" THEN "client" ELSE "wait"
  /\ UNCHANGED <<chip, remained, operation, host, event_loop_delay, state,
                 sender, datagrams, resets, history>>

\* Sn_IR_SENDOK, or Sn_IR_TIMEOUT when nobody has the address.  sendto waits
\* for them without looking at Sn_SR again.
SendDone ==
  /\ pc = "wait" /\ sr = "UDP"
  /\ pc' = "client"
  /\ UNCHANGED <<chip, remained, operation, host, event_loop_delay, state,
                 sender, datagrams, resets, history>>

-----------------------------------------------------------------------------
(***************************************************************************)
(* comm_tcp_client, as far as comm.operation goes.                         *)
(***************************************************************************)
PollClient ==
  /\ pc = "client"
  /\ state' = client_sr
  /\ pc' = "switch"
  /\ UNCHANGED <<chip, remained, operation, host, event_loop_delay, sender,
                 datagrams, resets, history>>

\* Mutant of AfterOpen: a socket that could not be opened is left at that.
AfterOpenOnly == operation

\* socket() without an address returns SOCKERR_SOCKINIT.
AfterOpen == IF haveIp THEN operation ELSE "DHCP"

ClientClosed ==
  /\ pc = "switch" /\ state = "CLOSED"
  /\ client_sr' = IF haveIp THEN "INIT" ELSE "CLOSED"
  /\ operation' = AfterOpen
  /\ pc' = "handler"
  /\ UNCHANGED <<sr, rx, begun, haveIp, remained, host, event_loop_delay,
                 state, sender, datagrams, resets, history>>

\* connect checks the socket, the address and that the port it is given is not
\* 0; the request is over whatever it returns.
Connect ==
  /\ pc = "switch" /\ state = "INIT" /\ operation = "CONNECT_HOST"
  /\ client_sr' = IF client_sr = "INIT" /\ host.ip # Nowhere /\ host.port # 0
                    THEN "BUSY" ELSE client_sr
  /\ operation' = "WAIT"
  /\ asked' = NotAsked
  /\ pc' = "handler"
  /\ UNCHANGED <<sr, rx, begun, haveIp, remained, host, event_loop_delay,
                 state, sender, datagrams, resets, answered>>

ClientOther ==
  /\ pc = "switch"
  /\ state = "BUSY" \/ (state = "INIT" /\ operation # "CONNECT_HOST")
  /\ pc' = "handler"
  /\ UNCHANGED <<chip, remained, operation, host, event_loop_delay, state,
                 sender, datagrams, resets, history>>

-----------------------------------------------------------------------------
(***************************************************************************)
(* The chip and the peers.                                                 *)
(***************************************************************************)
Arrive(d) ==
  /\ sr = "UDP" /\ Len(rx) < RxMax /\ datagrams < MaxDatagrams
  /\ rx' = Append(rx, d)
  /\ datagrams' = datagrams + 1
  /\ UNCHANGED <<sr, begun, client_sr, haveIp, loop, resets, history>>

ConnectionEnds ==
  /\ client_sr = "BUSY"
  /\ client_sr' = "CLOSED"
  /\ UNCHANGED <<sr, rx, begun, haveIp, loop, datagrams, resets, history>>

ChipReset ==
  /\ resets < MaxResets
  /\ resets' = resets + 1
  /\ sr' = "CLOSED" /\ rx' = << >> /\ begun' = FALSE
  /\ client_sr' = "CLOSED" /\ haveIp' = FALSE
  /\ UNCHANGED <<loop, datagrams, history>>

-----------------------------------------------------------------------------
Receive ==
  ReceiveEmpty \/ ReceiveAnswered \/ ReceiveConnect \/ ReceiveDelay
    \/ ReceiveIgnored

Firmware ==
  \/ SetDhcpIp
  \/ PollServer \/ ServerClosed \/ ReceiveNothing \/ Receive \/ SendTo
  \/ PollClient \/ ClientClosed \/ Connect \/ ClientOther

Environment ==
  (\E d \in Datagrams : Arrive(d)) \/ ConnectionEnds \/ ChipReset

Next == Firmware \/ SendDone \/ Environment

Spec == Init /\ [][Next]_vars

\* The loop runs and the chip ends its SEND commands; no fairness for peers.
FairSpec == Spec /\ WF_vars(Firmware) /\ WF_vars(SendDone)

-----------------------------------------------------------------------------
(***************************************************************************)
(* Properties.                                                             *)
(***************************************************************************)
States == {"CLOSED", "UDP", "INIT", "BUSY"}

\* The variables keep their types; in particular recvfrom's count of what
\* remains of a datagram never passes below zero.
TypeOK ==
  /\ sr \in {"CLOSED", "UDP"} /\ client_sr \in {"CLOSED", "INIT", "BUSY"}
  /\ rx \in Seq(Datagram) /\ begun \in BOOLEAN
  /\ haveIp \in BOOLEAN /\ remained \in Nat
  /\ operation \in {"DHCP", "WAIT", "CONNECT_HOST"}
  /\ host \in [ip : Addresses, port : 0..Ports - 1] /\ event_loop_delay \in Int
  /\ pc \in {"handler", "server", "sendto", "wait", "client", "switch"}
  /\ state \in States /\ sender \in Addresses
  /\ datagrams \in 0..MaxDatagrams /\ resets \in 0..MaxResets
  /\ asked \in [ip : Addresses, port : Int, whole : BOOLEAN]
  /\ answered \in [from : Addresses, to : Addresses]

(***************************************************************************)
(* recvfrom's sock_remained_size agrees with the datagrams in the chip,    *)
(* whatever is received, lost or opened again in between: a header is      *)
(* read where a datagram starts, and nowhere else.                         *)
(***************************************************************************)
InStep ==
  sr = "UDP" =>
    remained = IF begun THEN Len(Head(rx).chunks) ELSE 0

(***************************************************************************)
(* connect goes to the address of one request, the last one made by the    *)
(* first part of a datagram, once for each, and to a port that is one      *)
(* (comm_udp_server, comm_tcp_client).  It is the port asked for if that   *)
(* is between 1 and 65535; of another number it is the lowest 16 bits:     *)
(* "ew con 65537" is taken for port 1 and "ew con -1" for port 65535.  Of  *)
(* requests inside longer datagrams nothing is said.                       *)
(***************************************************************************)
ConnectsAsAsked ==
  [][client_sr = "INIT" /\ client_sr' = "BUSY" =>
       /\ asked # NotAsked
       /\ host.port \in 1..Ports - 1
       /\ asked.whole =>
            host = [ip |-> asked.ip, port |-> asked.port % Ports]]_vars

\* sendto waits for a chip that lost its registers, or HAL_Delay for a
\* negative delay.
Stuck ==
  (pc = "wait" /\ sr = "CLOSED") \/ (pc = "handler" /\ event_loop_delay < 0)

\* A request is served, or overtaken by OP_DHCP, unless the client has a
\* connection already: OP_DHCP is never left unserved itself.
RequestServed ==
  operation # "WAIT" /\ client_sr # "BUSY"
    ~> (operation = "WAIT" \/ client_sr = "BUSY" \/ Stuck)

\* The server opens its socket again after a reset, and takes every datagram
\* from the chip.
DatagramsTaken == (sr = "CLOSED" \/ rx # << >>) ~> ((sr = "UDP" /\ rx = << >>) \/ Stuck)

\* Every answer goes to who sent the datagram.  recvfrom documents its addr as
\* valid for the first part of a datagram only (socket.h:318);
\* comm_udp_server uses it for all.
AnswersToSender == answered.to = answered.from
=============================================================================
