------------------------------- MODULE TcpSend -------------------------------
(***************************************************************************)
(* The replies of tcp_packet3_processor: send_tcp_packet3 and wiz_sendb    *)
(* (comm/comm_tcp3.c, tester/wiz_appl.c) over the non-blocking send of     *)
(* socket.c, which reports a busy socket as 0 bytes.  wiz_sendb does not   *)
(* return before the last byte is in the chip, and the loop reads nothing  *)
(* meanwhile.  The peer writes a batch of packets and then reads the       *)
(* replies, or reads while it writes.                                      *)
(*                                                                         *)
(* Bytes are counted; those of a reply are also told apart by the reply's  *)
(* number on its connection and their place in it, and carry its length.   *)
(***************************************************************************)
EXTENDS Integers, Sequences

CONSTANTS
  Batches,          \* sequences of packets [size, plain, cmdline] of a peer
  HEADER_SIZE,
  TxMax, RxMax,     \* the socket's memory in the chip
  Window,           \* the peer's receive buffer
  ReadsEarly,       \* the batches whose peer reads while it writes
  MaxConnections    \* bound: connections

\* size: the bytes of data.  plain: the bytes of the decrypted contents, or -1
\* for a packet that is not encrypted; the firmware takes that number from the
\* packet as it is.  cmdline: whether it is a command line.
Packet == [size : Nat, plain : Nat \cup {-1}, cmdline : BOOLEAN]

Whole(p) == HEADER_SIZE + p.size

\* The bytes of the packets of b.
Bytes(b) ==
  LET sum[j \in 0..Len(b)] == IF j = 0 THEN 0 ELSE sum[j - 1] + Whole(b[j])
  IN  sum[Len(b)]

ASSUME BatchesAssumption ==
  /\ Batches \subseteq Seq(Packet) /\ ReadsEarly \subseteq Batches
  /\ \A b \in Batches \cup {<< >>} : Bytes(b) \in Nat
ASSUME SizesAssumption ==
  /\ HEADER_SIZE \in Nat \ {0} /\ Window \in Nat
  /\ TxMax \in Nat \ {0} /\ RxMax \in Nat \ {0}
  /\ MaxConnections \in Nat

VARIABLES
  sr,               \* Sn_SR of socket 0
  rx,               \* bytes in the receive memory
  tx,               \* bytes in the transmit memory, not acknowledged
  sending,          \* a SEND command is under way
  sendok,           \* Sn_IR_SENDOK
  is_sending,       \* the socket's bit of sock_is_sending
  got,              \* bytes of the current packet received so far
  next,             \* packets received on this connection
  replies,          \* sizes of the packets still to be sent for the last one
  part,             \* what send_tcp_packet3 sends: "header" or "data"
  sent_size,        \* wiz_sendb's local sent_size
  batch,            \* what the peer writes on this connection
  wrote,            \* bytes it has written
  held,             \* bytes in its receive buffer
  connections,      \* connections so far
  reply,            \* history: the number of the current reply
  wire              \* history: bytes given to the chip, <<reply, place, length>>

chip == <<sr, rx, tx, sending, sendok, is_sending>>
loop == <<got, next, replies, part, sent_size, reply>>
peer == <<batch, wrote, held>>
vars == <<chip, loop, peer, connections, wire>>

Total == Bytes(batch)

Init ==
  /\ sr = "CLOSED" /\ rx = 0 /\ tx = 0
  /\ sending = FALSE /\ sendok = FALSE /\ is_sending = FALSE
  /\ got = 0 /\ next = 0 /\ replies = << >> /\ part = "header"
  /\ sent_size = 0 /\ reply = 0
  /\ batch = << >> /\ wrote = 0 /\ held = 0
  /\ connections = 0 /\ wire = << >>

-----------------------------------------------------------------------------
(***************************************************************************)
(* The main loop between replies.                                          *)
(***************************************************************************)
Idle == replies = << >>

\* comm_tcp_client on a closed socket: close, which clears the socket's flags,
\* and a new connection.
Reconnect(b) ==
  /\ Idle /\ sr = "CLOSED" /\ connections < MaxConnections
  /\ connections' = connections + 1
  /\ sr' = "ESTABLISHED"
  /\ rx' = 0 /\ tx' = 0
  /\ sending' = FALSE /\ sendok' = FALSE /\ is_sending' = FALSE
  /\ got' = 0 /\ next' = 0 /\ reply' = 0
  /\ batch' = b /\ wrote' = 0 /\ held' = 0 /\ wire' = << >>
  /\ UNCHANGED <<replies, part, sent_size>>

\* SOCK_CLOSE_WAIT: disconnect; what is in the receive memory is not read.
Disconnect ==
  /\ Idle /\ sr = "CLOSE_WAIT"
  /\ sr' = "LAST_ACK"
  /\ is_sending' = FALSE
  /\ UNCHANGED <<rx, tx, sending, sendok, loop, peer, connections, wire>>

\* Mutant of Replies: a command line is echoed twice.
RepliesTwice(p) ==
  LET echo == IF p.cmdline THEN <<p.size, p.size>> ELSE << >>
  IN  {echo} \cup (IF p.plain >= 0 /\ p.size > 0 THEN {<<p.plain>> \o echo}
                                                 ELSE {})

\* The packets the processor sends for p: the plain contents of an encrypted
\* one, unless there is no memory for them, and a command line itself.
Replies(p) ==
  LET echo == IF p.cmdline THEN <<p.size>> ELSE << >>
  IN  {echo} \cup (IF p.plain >= 0 /\ p.size > 0 THEN {<<p.plain>> \o echo}
                                                 ELSE {})

\* recv_tcp_packet3, and the processor once the packet is complete.
ReceiveBytes(n) ==
  /\ Idle /\ sr = "ESTABLISHED"
  /\ next < Len(batch)
  /\ n <= rx /\ got + n <= Whole(batch[next + 1])
  /\ rx' = rx - n
  /\ IF got + n < Whole(batch[next + 1])
       THEN got' = got + n /\ UNCHANGED <<next, replies, reply>>
       ELSE /\ got' = 0
            /\ next' = next + 1
            /\ replies' \in Replies(batch[next + 1])
            /\ reply' = IF replies' = << >> THEN reply ELSE reply + 1
  /\ UNCHANGED <<sr, tx, sending, sendok, is_sending, part, sent_size, peer,
                 connections, wire>>

-----------------------------------------------------------------------------
(***************************************************************************)
(* wiz_sendb and send.                                                     *)
(***************************************************************************)
Connected == sr \in {"ESTABLISHED", "CLOSE_WAIT"}

\* What wiz_sendb was asked to send, and where it starts in the reply.
Size == IF part = "header" THEN HEADER_SIZE ELSE Head(replies)
Before == IF part = "header" THEN 0 ELSE HEADER_SIZE

\* send never gives the chip more than the whole of its memory.
Length == IF Size - sent_size > TxMax THEN TxMax ELSE Size - sent_size

\* Mutant of Room: the memory must be larger than the bytes.
RoomToSpare == Length < TxMax - tx
\* Mutant of Room: the free size is not looked at.
RoomAssumed == Length <= TxMax

\* Sn_TX_FSR
Room == Length <= TxMax - tx

\* Mutant of MaySend: the last SEND command may be under way.
MaySendAnyTime == TRUE

\* sock_is_sending is only cleared by a SENDOK.
MaySend == ~is_sending \/ sendok

Advance(n) == sent_size + n

\* Mutant of Remains: wiz_sendb returns with what its first call has sent.
RemainsNot(n) == FALSE

\* wiz_sendb calls send again.
Remains(n) == sent_size + n < Size

\* send_tcp_packet3 goes on to the data, the processor to the next reply.
NextReply ==
  /\ replies' = Tail(replies)
  /\ reply' = IF Len(replies) > 1 THEN reply + 1 ELSE reply
  /\ part' = "header"

Sent ==
  /\ sent_size' = 0
  /\ IF part = "header" /\ Head(replies) > 0
       THEN part' = "data" /\ UNCHANGED <<replies, reply>>
       ELSE NextReply

\* send gives bytes to the chip.
Send ==
  /\ ~Idle /\ Connected /\ MaySend /\ Room
  /\ tx' = tx + Length
  /\ sending' = TRUE /\ is_sending' = TRUE
  /\ sendok' = (sendok /\ ~is_sending)
  /\ wire' = wire \o [i \in 1..Length |->
                        <<reply, Before + sent_size + i, HEADER_SIZE + Head(replies)>>]
  /\ IF Remains(Length)
       THEN sent_size' = Advance(Length) /\ UNCHANGED <<replies, reply, part>>
       ELSE Sent
  /\ UNCHANGED <<sr, rx, got, next, peer, connections>>

\* send clears the flag of the last SEND, and finds no room.
SendBusy ==
  /\ ~Idle /\ Connected /\ is_sending /\ sendok /\ ~Room
  /\ sendok' = FALSE /\ is_sending' = FALSE
  /\ UNCHANGED <<sr, rx, tx, sending, loop, peer, connections, wire>>

\* The socket is no longer connected: wiz_sendb returns the error, and
\* send_tcp_packet3 gives its packet up.  Whether send closed the socket
\* depends on which of its two looks at Sn_SR came first.
SendError ==
  /\ ~Idle /\ ~Connected
  /\ is_sending' \in {is_sending, FALSE}
  /\ NextReply
  /\ sent_size' = 0
  /\ UNCHANGED <<sr, rx, tx, sending, sendok, got, next, peer, connections, wire>>

-----------------------------------------------------------------------------
(***************************************************************************)
(* The chip and the peer.                                                  *)
(***************************************************************************)

\* The peer's stack takes bytes as long as its window is open.
Transmit(n) ==
  /\ Connected
  /\ n <= tx /\ held + n <= Window
  /\ tx' = tx - n
  /\ held' = held + n
  /\ UNCHANGED <<sr, rx, sending, sendok, is_sending, loop, batch, wrote,
                 connections, wire>>

\* The SEND command is complete, whether or not all is acknowledged yet.
SendOk ==
  /\ Connected /\ sending
  /\ sending' = FALSE /\ sendok' = TRUE
  /\ UNCHANGED <<sr, rx, tx, is_sending, loop, peer, connections, wire>>

\* A reset, a retransmission timeout or the last ACK.
SocketCloses ==
  /\ sr \in {"ESTABLISHED", "CLOSE_WAIT", "LAST_ACK"}
  /\ sr' = "CLOSED"
  /\ UNCHANGED <<rx, tx, sending, sendok, is_sending, loop, peer, connections,
                 wire>>

PeerWrite(n) ==
  /\ sr = "ESTABLISHED"
  /\ wrote + n <= Total /\ rx + n <= RxMax
  /\ wrote' = wrote + n
  /\ rx' = rx + n
  /\ UNCHANGED <<sr, tx, sending, sendok, is_sending, loop, batch, held,
                 connections, wire>>

PeerRead(n) ==
  /\ Connected
  /\ batch \in ReadsEarly \/ wrote = Total
  /\ n <= held
  /\ held' = held - n
  /\ UNCHANGED <<chip, loop, batch, wrote, connections, wire>>

\* The peer shuts its side down once everything is written.
PeerClose ==
  /\ sr = "ESTABLISHED" /\ wrote = Total
  /\ sr' = "CLOSE_WAIT"
  /\ UNCHANGED <<rx, tx, sending, sendok, is_sending, loop, peer, connections,
                 wire>>

-----------------------------------------------------------------------------
Reading == \E n \in 1..RxMax : ReceiveBytes(n)
Sending == Send \/ SendBusy \/ SendError
Transmitting == \E n \in 1..TxMax : Transmit(n)
PeerWriting == \E n \in 1..RxMax : PeerWrite(n)
PeerReading == \E n \in 1..Window : PeerRead(n)

Next ==
  \/ \E b \in Batches : Reconnect(b)
  \/ Disconnect
  \/ Reading
  \/ Sending
  \/ Transmitting
  \/ SendOk
  \/ SocketCloses
  \/ PeerWriting
  \/ PeerReading
  \/ PeerClose

Spec == Init /\ [][Next]_vars

\* The loop runs, the chip transmits, and the peer goes on with its program;
\* connections need not be made, nor end.
Fairness ==
  /\ WF_vars(Reading) /\ WF_vars(Sending)
  /\ WF_vars(Transmitting) /\ WF_vars(SendOk)
  /\ WF_vars(PeerWriting) /\ WF_vars(PeerReading)

FairSpec == Spec /\ Fairness

-----------------------------------------------------------------------------
(***************************************************************************)
(* Properties.                                                             *)
(***************************************************************************)

\* The variables keep their types; in particular send never gives the chip
\* more than its transmit memory has room for.
TypeOK ==
  /\ sr \in {"CLOSED", "ESTABLISHED", "CLOSE_WAIT", "LAST_ACK"}
  /\ rx \in 0..RxMax /\ tx \in 0..TxMax
  /\ sending \in BOOLEAN /\ sendok \in BOOLEAN /\ is_sending \in BOOLEAN
  /\ got \in Nat /\ next \in 0..Len(batch)
  /\ replies \in Seq(Nat) /\ part \in {"header", "data"} /\ sent_size \in Nat
  /\ batch \in Batches \cup {<< >>} /\ wrote \in Nat /\ held \in 0..Window
  /\ connections \in 0..MaxConnections /\ reply \in Nat
  /\ wire \in Seq(Nat \X Nat \X Nat)

\* Byte y of the wire comes after x: the next byte of its reply, or the first
\* one of the next reply when x is the last byte of its own.
Follows(x, y) ==
  \/ y = <<x[1], x[2] + 1, x[3]>>
  \/ y = <<x[1] + 1, 1, y[3]>> /\ x[2] = x[3]

(***************************************************************************)
(* On a connection the peer gets the replies one after the other and each  *)
(* of them from its first byte to its last, however often wiz_sendb had to *)
(* call send for it: the first byte of a reply comes after the last one of *)
(* the reply before it, and the processor is done with a packet when the   *)
(* last byte of its last reply is in the chip (wiz_sendb,                  *)
(* send_tcp_packet3).                                                      *)
(***************************************************************************)
WireIsReplies ==
  Connected =>
    IF wire = << >>
      THEN IF Idle THEN reply = 0 ELSE reply = 1 /\ Before + sent_size = 0
      ELSE
        /\ wire[1] = <<1, 1, wire[1][3]>>
        /\ \A i \in 1..Len(wire) - 1 : Follows(wire[i], wire[i + 1])
        /\ LET last == wire[Len(wire)]
           IN  IF Idle
                 THEN last[1] = reply /\ last[2] = last[3]
                 ELSE \/ last = <<reply, Before + sent_size,
                                  HEADER_SIZE + Head(replies)>>
                      \/ /\ Before + sent_size = 0
                         /\ last[1] + 1 = reply /\ last[2] = last[3]

\* A SEND command is given to the chip when the one before it is complete:
\* sock_is_sending is never out of date, not even after disconnect or close.
OneSendAtATime == [][tx' > tx => ~sending]_vars

MutualWait ==
  /\ sr = "ESTABLISHED"
  /\ ~Idle /\ ~Room /\ held = Window
  /\ wrote < Total /\ rx = RxMax

\* No packet's plain contents are longer than its data.
NoneLonger(b) == \A k \in 1..Len(b) : b[k].plain <= b[k].size

(***************************************************************************)
(* wiz_sendb and a peer that writes before it reads wait for one another   *)
(* only when the peer writes more than the receive memory and the replies  *)
(* to it more than the transmit memory and the peer's window can hold: a   *)
(* packet has at most two replies.  That neither is larger than the packet *)
(* is up to the peer: org_size is taken from the packet and the echo is as *)
(* long as it says (fill_tcp_packet3_data_field).                          *)
(***************************************************************************)
MutualWaitOversized ==
  MutualWait /\ NoneLonger(batch) => 2 * (Total - 1 - RxMax) > TxMax + Window

\* With a peer that reads, every packet written is received and every reply
\* of it read, or the connection ends: wiz_sendb does not wait for ever.
RepliesRead ==
  (sr = "ESTABLISHED" /\ batch \in ReadsEarly)
    ~> (sr # "ESTABLISHED" \/ (next = Len(batch) /\ Idle /\ tx = 0 /\ held = 0))
=============================================================================
