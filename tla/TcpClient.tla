------------------------------ MODULE TcpClient ------------------------------
(***************************************************************************)
(* The TCP half of the firmware's super-loop: comm_handler,                *)
(* comm_tcp_client and recv_tcp_packet3 (comm/comm_base.c,                 *)
(* comm/comm_tcp3.c) over socket 0 of the W5500, with the peer and the     *)
(* chip as environment.                                                    *)
(*                                                                         *)
(* The receive state - header, received_size, recv_mode, packet - lives in *)
(* static variables of recv_tcp_packet3.  It survives the connection it    *)
(* was filled from: nothing in comm_tcp_client resets it when the socket   *)
(* is closed and opened again.                                             *)
(***************************************************************************)
EXTENDS Integers, Sequences

CONSTANTS
  Packets,              \* packets the peer may send: [flag, type, data]
  MaxSent,              \* bound: packets sent per connection
  MaxConnections,       \* bound: connections established
  MaxFailures           \* bound: failed allocations and chip resets

RC_FS == 28
RC_MAGIC == 66
RC_GS == 29
VERSION == 1
HEADER_SIZE == 8
EAT_SIZE == 128         \* sizeof(buf) in eat_tcp_data

Byte == 0..255
Short == {n \in Nat : n < 65536}          \* unsigned short

ASSUME PacketsAssumption ==
  \A p \in Packets :
    /\ p \in [flag : Byte, type : Byte, data : Seq(Byte)]
    /\ Len(p.data) < 256 * 256
ASSUME BoundsAssumption ==
  MaxSent \in Nat /\ MaxConnections \in Nat /\ MaxFailures \in Nat

VARIABLES
  sr,             \* Sn_SR of socket 0
  haveIp,         \* the source address register SIPR is not 0
  stream,         \* bytes the peer has sent on this connection
  arrived,        \* how many of them are in the chip (Sn_RX_WR)
  rpos,           \* how many of them have been read (Sn_RX_RD)
  operation,      \* comm.operation
  pc,             \* where the main loop is
  state,          \* comm_tcp_client's local copy of Sn_SR
  header,         \* static header[]; header[i] is the C header[i-1]
  received_size,  \* static received_size
  recv_mode,      \* static recv_mode
  packet,         \* static packet
  remain,         \* eat_tcp_data's local remain
  packet_list,    \* packets received, not yet taken by the processor
  connections,    \* connections established so far
  failures,       \* allocation failures and chip resets so far
  sent,           \* history: packets the peer sent on this connection
  starts,         \* history: where in stream each of them starts, and the end
  delivered,      \* history: packets the processor took on this connection
  dropped,        \* history: packets eaten on this connection
  aligned         \* history: the connection began between two packets

chip == <<sr, haveIp, stream, arrived, rpos>>
receiver == <<header, received_size, recv_mode, packet, remain, packet_list>>
history == <<sent, starts, delivered, dropped, aligned>>
vars == <<chip, operation, pc, state, receiver, connections, failures, history>>

Operations == {"DHCP", "WAIT", "CONNECT_HOST"}
SocketStates ==
  {"CLOSED", "INIT", "SYNSENT", "ESTABLISHED", "CLOSE_WAIT", "LAST_ACK"}

NoHeader == [i \in 1..HEADER_SIZE |-> 0]
NoPacket == [flag |-> 0, type |-> 0, data_size |-> 0, data |-> << >>]

\* The bytes create_tcp_packet3_header and send_tcp_packet3 put on the wire.
Encode(p) ==
  <<RC_FS, RC_MAGIC, VERSION, p.flag, p.type,
    Len(p.data) % 256, Len(p.data) \div 256, RC_GS>> \o p.data

\* convert_buf2short of the two size bytes: little-endian.
get_tcp_packet3_header_data_size(h) == h[6] + 256 * h[7]

is_tcp_packet3_header(h) == h[1] = RC_FS /\ h[2] = RC_MAGIC /\ h[8] = RC_GS

(***************************************************************************)
(* The index, counted from 0 as in C, of a header that starts inside h.    *)
(* memchr stops at the first RC_FS: one that RC_MAGIC does not follow      *)
(* hides every later one.                                                  *)
(***************************************************************************)
contains_tcp_packet3_fragment(h) ==
  LET found == {i \in 1..HEADER_SIZE - 1 : h[i + 1] = RC_FS}
      first == CHOOSE i \in found : \A j \in found : i <= j
  IN  IF found = {} THEN -1
      ELSE IF first = HEADER_SIZE - 1 THEN HEADER_SIZE - 1
      ELSE IF h[first + 2] = RC_MAGIC THEN first
      ELSE -1

-----------------------------------------------------------------------------
Init ==
  /\ sr = "CLOSED" /\ haveIp = FALSE
  /\ stream = << >> /\ arrived = 0 /\ rpos = 0
  /\ operation = "DHCP" /\ pc = "handler" /\ state = "CLOSED"
  /\ header = NoHeader /\ received_size = 0 /\ recv_mode = "HEADER"
  /\ packet = NoPacket /\ remain = 0 /\ packet_list = << >>
  /\ connections = 0 /\ failures = 0
  /\ sent = << >> /\ starts = <<0>> /\ delivered = << >> /\ dropped = 0
  /\ aligned = FALSE

(***************************************************************************)
(* recv() on the non-blocking socket.  It returns what has arrived, up to  *)
(* the size asked for (0 is SOCK_BUSY); a socket that is no longer usable  *)
(* is closed and an error returned.  In CLOSE_WAIT both may happen: the    *)
(* outcome depends on whether the peer has acknowledged all that was sent, *)
(* and the size is read before the state, so that bytes which come with    *)
(* the FIN between the two reads count as none.  (How long bytes have been *)
(* in the chip is not recorded: the error is possible with any unread.)    *)
(***************************************************************************)
Available == arrived - rpos

\* Mutant of recv: returns all that has arrived, whatever the size asked for.
recv_unlimited(size, n) ==
  /\ sr \in {"ESTABLISHED", "CLOSE_WAIT"}
  /\ n = Available
  /\ rpos' = rpos + n
  /\ UNCHANGED <<sr, haveIp, stream, arrived>>

recv(size, n) ==
  /\ sr \in {"ESTABLISHED", "CLOSE_WAIT"}
  /\ n = IF size < Available THEN size ELSE Available
  /\ rpos' = rpos + n
  /\ UNCHANGED <<sr, haveIp, stream, arrived>>

recv_error ==
  /\ sr # "ESTABLISHED"
  /\ sr' = "CLOSED"
  /\ UNCHANGED <<haveIp, stream, arrived, rpos>>

\* The next n unread bytes.
Chunk(n) == SubSeq(stream, rpos + 1, rpos + n)

\* Mutant of FilledHeader: every read goes to the start of header[].
HeaderOverwritten(n) ==
  [i \in 1..HEADER_SIZE |-> IF i \in 1..n THEN stream[rpos + i] ELSE header[i]]

\* header[] with the next n unread bytes after those it already holds.
FilledHeader(n) ==
  [i \in 1..HEADER_SIZE |->
     IF i \in received_size + 1 .. received_size + n
       THEN stream[rpos + i - received_size]
       ELSE header[i]]

-----------------------------------------------------------------------------
(***************************************************************************)
(* comm_handler.                                                           *)
(***************************************************************************)

\* OP_DHCP: wiz_set_dhcp_ip blocks, then writes an address to the chip, the
\* leased one or else the static one of netinfo.
SetDhcpIp ==
  /\ pc = "handler" /\ operation = "DHCP"
  /\ haveIp' = TRUE
  /\ operation' = "WAIT"
  /\ UNCHANGED <<sr, stream, arrived, rpos, pc, state, receiver, connections,
                 failures, history>>

\* Otherwise comm_udp_server runs, which may take an "ew con" datagram, and
\* comm_tcp_client reads the socket's state.
PollSocket ==
  /\ pc = "handler" /\ operation # "DHCP"
  /\ operation' \in {operation, "CONNECT_HOST"}
  /\ state' = sr
  /\ pc' = "client"
  /\ UNCHANGED <<chip, receiver, connections, failures, history>>

-----------------------------------------------------------------------------
(***************************************************************************)
(* comm_tcp_client, SOCK_ESTABLISHED: recv_tcp_packet3.                    *)
(***************************************************************************)
Receiving(mode) == pc = "client" /\ state = "ESTABLISHED" /\ recv_mode = mode

\* recv returned an error: the statics are left as they are.
ReceiveError ==
  /\ pc = "client" /\ state = "ESTABLISHED"
  /\ recv_error
  /\ pc' = "handler"
  /\ UNCHANGED <<operation, state, receiver, connections, failures, history>>

\* A full packet: fill_tcp_packet3_data_field, list_add_tail, return 1.
PacketReceived(p) ==
  /\ packet_list' = Append(packet_list, [flag |-> p.flag, type |-> p.type,
                                         data |-> p.data])
  /\ pc' = "process"

\* More of packet->data is still to come; its mutant waits for one byte more.
DataMissingMutant(n) == received_size + n <= packet.data_size
DataMissing(n) == received_size + n < packet.data_size

\* Mutant of clear_header: header[] is zeroed, its fill level kept.
clear_header_only == header' = NoHeader /\ UNCHANGED received_size

clear_header ==
  /\ header' = NoHeader
  /\ received_size' = 0

ReceiveData(n) ==
  /\ Receiving("DATA")
  /\ recv(packet.data_size - received_size, n)
  /\ LET p == [packet EXCEPT !.data = @ \o Chunk(n)] IN
     IF DataMissing(n)
       THEN /\ packet' = p
            /\ received_size' = received_size + n
            /\ pc' = "handler"
            /\ UNCHANGED <<header, recv_mode, packet_list>>
       ELSE /\ PacketReceived(p)
            /\ packet' = NoPacket
            /\ recv_mode' = "HEADER"
            /\ clear_header
  /\ UNCHANGED <<operation, state, remain, connections, failures, history>>

\* Fewer than the eight bytes of a header so far.
ReceivePartOfHeader(n) ==
  /\ Receiving("HEADER")
  /\ recv(HEADER_SIZE - received_size, n)
  /\ received_size + n < HEADER_SIZE
  /\ header' = FilledHeader(n)
  /\ received_size' = received_size + n
  /\ pc' = "handler"
  /\ UNCHANGED <<operation, state, recv_mode, packet, remain, packet_list,
                 connections, failures, history>>

ReceiveRestOfHeader(n) ==
  /\ Receiving("HEADER")
  /\ recv(HEADER_SIZE - received_size, n)
  /\ received_size + n >= HEADER_SIZE
  /\ UNCHANGED <<operation, state, connections, history>>

\* A header, and memory for its packet.
AcceptHeader(n) ==
  /\ ReceiveRestOfHeader(n)
  /\ LET h == FilledHeader(n)
         size == get_tcp_packet3_header_data_size(h)
         p == [flag |-> h[4], type |-> h[5], data_size |-> size, data |-> << >>]
     IN  /\ is_tcp_packet3_header(h)
         /\ IF size > 0
              THEN /\ packet' = p
                   /\ recv_mode' = "DATA"
                   /\ pc' = "handler"
                   /\ UNCHANGED packet_list
              ELSE /\ PacketReceived(p)
                   /\ UNCHANGED <<packet, recv_mode>>
  /\ clear_header
  /\ UNCHANGED <<remain, failures>>

\* Mutant of RejectHeader: the packet's data is not eaten.
RejectHeaderWithoutEating(n) ==
  /\ ReceiveRestOfHeader(n)
  /\ is_tcp_packet3_header(FilledHeader(n))
  /\ failures < MaxFailures
  /\ failures' = failures + 1
  /\ clear_header
  /\ pc' = "handler"
  /\ UNCHANGED <<recv_mode, packet, remain, packet_list>>

\* A header, and alloc_tcp_packet3_mem returns NULL: eat_tcp_data is called.
RejectHeader(n) ==
  /\ ReceiveRestOfHeader(n)
  /\ is_tcp_packet3_header(FilledHeader(n))
  /\ failures < MaxFailures
  /\ failures' = failures + 1
  /\ header' = FilledHeader(n)
  /\ received_size' = received_size + n
  /\ remain' = get_tcp_packet3_header_data_size(FilledHeader(n))
  /\ pc' = "eat"
  /\ UNCHANGED <<recv_mode, packet, packet_list>>

(***************************************************************************)
(* No header: look for the start of one inside.  Index -1 makes the memcpy *)
(* read header[-1] and leaves received_size at 9, and the next recv_size   *)
(* at -1, a length of 65535: what follows is undefined, and the loop stops *)
(* here.                                                                   *)
(***************************************************************************)
Resynchronise(n) ==
  /\ ReceiveRestOfHeader(n)
  /\ ~is_tcp_packet3_header(FilledHeader(n))
  /\ LET h == FilledHeader(n)
         start_idx == contains_tcp_packet3_fragment(h)
     IN  /\ IF start_idx = 0
              THEN clear_header
              ELSE /\ header' = [i \in 1..HEADER_SIZE |->
                         IF i \in 1..HEADER_SIZE - start_idx
                               /\ i + start_idx \in 1..HEADER_SIZE
                           THEN h[i + start_idx]
                           ELSE h[i]]
                   /\ received_size' = received_size + n - start_idx
         /\ pc' = IF start_idx < 0 THEN "undefined" ELSE "handler"
  /\ UNCHANGED <<recv_mode, packet, remain, packet_list, failures>>

\* eat_tcp_data: one turn of its loop, and the return of recv_tcp_packet3.
Eat(n) ==
  /\ pc = "eat" /\ remain > 0
  /\ recv(IF remain < EAT_SIZE THEN remain ELSE EAT_SIZE, n)
  /\ remain' = remain - n
  /\ UNCHANGED <<operation, pc, state, header, received_size, recv_mode, packet,
                 packet_list, connections, failures, history>>

\* On an error it waits 10 ms and tries again, for ever.
EatError ==
  /\ pc = "eat" /\ remain > 0
  /\ recv_error
  /\ UNCHANGED <<operation, pc, state, receiver, connections, failures, history>>

EatDone ==
  /\ pc = "eat" /\ remain = 0
  /\ clear_header
  /\ dropped' = dropped + 1
  /\ pc' = "handler"
  /\ UNCHANGED <<chip, operation, state, recv_mode, packet, remain, packet_list,
                 connections, failures, sent, starts, delivered, aligned>>

-----------------------------------------------------------------------------
(***************************************************************************)
(* comm_tcp_client, the other socket states.                               *)
(***************************************************************************)
ClientDone == pc = "client" /\ pc' = "handler"

\* disconnect at once: bytes not yet read are never read.
ClientCloseWait ==
  /\ ClientDone /\ state = "CLOSE_WAIT"
  /\ sr' = IF sr = "CLOSE_WAIT" THEN "LAST_ACK" ELSE sr
  /\ UNCHANGED <<haveIp, stream, arrived, rpos, operation, state, receiver,
                 connections, failures, history>>

\* Mutant of ClientClosed: a failed socket() does not ask for DHCP.
ClientClosedNoDhcp ==
  /\ ClientDone /\ state = "CLOSED"
  /\ packet_list' = << >>
  /\ sr' = IF haveIp THEN "INIT" ELSE "CLOSED"
  /\ UNCHANGED <<haveIp, stream, arrived, rpos, operation, state, header,
                 received_size, recv_mode, packet, remain, connections,
                 failures, history>>

\* close, free the list, socket(): which fails on a chip without an address.
ClientClosed ==
  /\ ClientDone /\ state = "CLOSED"
  /\ packet_list' = << >>
  /\ IF haveIp
       THEN sr' = "INIT" /\ UNCHANGED operation
       ELSE sr' = "CLOSED" /\ operation' = "DHCP"
  /\ UNCHANGED <<haveIp, stream, arrived, rpos, state, header, received_size,
                 recv_mode, packet, remain, connections, failures, history>>

\* connect's result is only logged: an address or a port it refuses, or a
\* socket that is no longer in SOCK_INIT, uses the request up all the same.
ClientInit ==
  /\ ClientDone /\ state = "INIT"
  /\ IF operation = "CONNECT_HOST"
       THEN /\ operation' = "WAIT"
            /\ sr' \in {sr} \cup (IF sr = "INIT" THEN {"SYNSENT"} ELSE {})
       ELSE UNCHANGED <<operation, sr>>
  /\ UNCHANGED <<haveIp, stream, arrived, rpos, state, receiver, connections,
                 failures, history>>

ClientOther ==
  /\ ClientDone /\ state \in {"SYNSENT", "LAST_ACK"}
  /\ UNCHANGED <<chip, operation, state, receiver, connections, failures, history>>

\* comm_tcp_packet_handler: one packet is taken off the list and freed.
ProcessPacket ==
  /\ pc = "process"
  /\ pc' = "handler"
  /\ IF packet_list = << >>
       THEN UNCHANGED <<packet_list, delivered>>
       ELSE /\ delivered' = Append(delivered, Head(packet_list))
            /\ packet_list' = Tail(packet_list)
  /\ UNCHANGED <<chip, operation, state, header, received_size, recv_mode,
                 packet, remain, connections, failures, sent, starts, dropped,
                 aligned>>

-----------------------------------------------------------------------------
(***************************************************************************)
(* The peer, the network and the chip.                                     *)
(***************************************************************************)
Loop == <<operation, pc, state, receiver>>

\* The peer accepts the connection.
Established ==
  /\ sr = "SYNSENT" /\ connections < MaxConnections
  /\ sr' = "ESTABLISHED"
  /\ connections' = connections + 1
  /\ stream' = << >> /\ arrived' = 0 /\ rpos' = 0
  /\ sent' = << >> /\ starts' = <<0>> /\ delivered' = << >> /\ dropped' = 0
  /\ aligned' = (received_size = 0 /\ recv_mode = "HEADER")
  /\ UNCHANGED <<haveIp, Loop, failures>>

\* The peer sends a packet; the network brings bytes of it to the chip.
PeerSend(p) ==
  /\ sr = "ESTABLISHED" /\ Len(sent) < MaxSent
  /\ stream' = stream \o Encode(p)
  /\ sent' = Append(sent, p)
  /\ starts' = Append(starts, Len(stream) + HEADER_SIZE + Len(p.data))
  /\ UNCHANGED <<sr, haveIp, arrived, rpos, Loop, connections, failures,
                 delivered, dropped, aligned>>

Arrive(n) ==
  /\ sr = "ESTABLISHED"
  /\ arrived < n /\ n <= Len(stream)
  /\ arrived' = n
  /\ UNCHANGED <<sr, haveIp, stream, rpos, Loop, connections, failures, history>>

\* The peer's FIN is in order: all it sent has arrived.
PeerClose ==
  /\ sr = "ESTABLISHED" /\ arrived = Len(stream)
  /\ sr' = "CLOSE_WAIT"
  /\ UNCHANGED <<haveIp, stream, arrived, rpos, Loop, connections, failures,
                 history>>

\* A reset by the peer, the last ACK, or a retransmission timeout.
SocketCloses ==
  /\ sr \in {"SYNSENT", "ESTABLISHED", "CLOSE_WAIT", "LAST_ACK"}
  /\ sr' = "CLOSED"
  /\ UNCHANGED <<haveIp, stream, arrived, rpos, Loop, connections, failures,
                 history>>

\* The chip loses its registers, the address among them.
ChipReset ==
  /\ failures < MaxFailures
  /\ failures' = failures + 1
  /\ sr' = "CLOSED" /\ haveIp' = FALSE
  /\ UNCHANGED <<stream, arrived, rpos, Loop, connections, history>>

-----------------------------------------------------------------------------
Receive ==
  \/ \E n \in 0..Len(stream) :
       \/ ReceiveData(n)
       \/ ReceivePartOfHeader(n)
       \/ AcceptHeader(n)
       \/ RejectHeader(n)
       \/ Resynchronise(n)
       \/ Eat(n)
  \/ ReceiveError
  \/ EatError
  \/ EatDone

Firmware ==
  \/ SetDhcpIp
  \/ PollSocket
  \/ Receive
  \/ ClientCloseWait
  \/ ClientClosed
  \/ ClientInit
  \/ ClientOther
  \/ ProcessPacket

Environment ==
  \/ Established
  \/ \E p \in Packets : PeerSend(p)
  \/ \E n \in 1..Len(stream) : Arrive(n)
  \/ PeerClose
  \/ SocketCloses
  \/ ChipReset

\* Out of bounds in static memory: nothing more is said of the firmware.
Undefined == pc = "undefined" /\ UNCHANGED vars

Next == Firmware \/ Environment \/ Undefined

Spec == Init /\ [][Next]_vars

(***************************************************************************)
(* The loop never stops running, and the network brings what was sent as   *)
(* long as the connection lasts.  Peers need not connect, send or close,   *)
(* but they read their echoes: TcpSend shows when wiz_sendb, which is part *)
(* of ProcessPacket here, would not return otherwise.                      *)
(***************************************************************************)
Fairness ==
  /\ WF_vars(Firmware)
  /\ WF_vars(\E n \in 1..Len(stream) : Arrive(n))

FairSpec == Spec /\ Fairness

-----------------------------------------------------------------------------
(***************************************************************************)
(* Properties.                                                             *)
(***************************************************************************)
ReceivedPackets == [flag : Byte, type : Byte, data : Seq(Byte)]

ChipType ==
  /\ sr \in SocketStates /\ haveIp \in BOOLEAN
  /\ stream \in Seq(Byte)
  /\ arrived \in 0..Len(stream) /\ rpos \in 0..arrived

LoopType ==
  /\ operation \in Operations
  /\ pc \in {"handler", "client", "eat", "process", "undefined"}
  /\ state \in SocketStates

ReceiverType ==
  /\ header \in [1..HEADER_SIZE -> Byte]
  /\ recv_mode \in {"HEADER", "DATA"}
  /\ packet \in [flag : Byte, type : Byte, data_size : Short,
                 data : Seq(Byte)]
  /\ received_size \in Nat
  /\ recv_mode = "DATA" => received_size <= packet.data_size
  /\ recv_mode = "HEADER" /\ pc # "undefined" => received_size <= HEADER_SIZE
  /\ remain \in Short
  /\ packet_list \in Seq(ReceivedPackets)

HistoryType ==
  /\ connections \in 0..MaxConnections /\ failures \in 0..MaxFailures
  /\ sent \in Seq(Packets) /\ Len(sent) <= MaxSent
  /\ starts \in Seq(Nat) /\ Len(starts) = Len(sent) + 1
  /\ delivered \in Seq(ReceivedPackets) /\ dropped \in Nat
  /\ aligned \in BOOLEAN

\* The variables keep their types: in particular received_size never leaves
\* the eight bytes of header[], or the data of packet, except where
\* Resynchronise has left the defined behaviour of the code.
TypeOK == ChipType /\ LoopType /\ ReceiverType /\ HistoryType

\* Packets of this connection taken off the stream, whole.
Taken == Len(delivered) + dropped + Len(packet_list)

\* Where in the stream the packet being received starts.
Base == starts[Taken + 1]

\* header[] holds what has been read of the next packet.
InHeader ==
  /\ rpos = Base + received_size
  /\ received_size < HEADER_SIZE
  /\ \A i \in 1..received_size : header[i] = stream[Base + i]

\* packet holds what has been read of the data of the next packet.
InData ==
  /\ Taken < Len(sent)
  /\ LET p == sent[Taken + 1] IN
       /\ rpos = Base + HEADER_SIZE + received_size
       /\ received_size < Len(p.data)
       /\ packet = [flag |-> p.flag, type |-> p.type, data_size |-> Len(p.data),
                    data |-> SubSeq(p.data, 1, received_size)]

\* What remains to be eaten is the rest of the next packet.
InEat ==
  /\ Taken < Len(sent)
  /\ rpos + remain = starts[Taken + 2]

(***************************************************************************)
(* On a connection that begins between two packets the receiver stays in   *)
(* step with the peer (recv_tcp_packet3): what it has read since the last  *)
(* packet boundary is a prefix of the peer's next packet, kept in header[] *)
(* or in packet, whatever the sizes of the segments; the search for a      *)
(* header inside eight other bytes is never entered.                       *)
(***************************************************************************)
InStep ==
  aligned =>
    /\ pc # "undefined"
    /\ Taken <= Len(sent)
    /\ packet_list # << >> => packet_list = <<sent[Taken]>>
    /\ pc # "eat" /\ recv_mode = "HEADER" => InHeader
    /\ recv_mode = "DATA" => InData
    /\ pc = "eat" => InEat

(***************************************************************************)
(* The receive path implements FrameDelivery on every connection that      *)
(* begins between two packets: each packet is delivered whole, once and in *)
(* order, even though list handling, closing and reconnecting come in      *)
(* between.  Of the other connections nothing is promised.                 *)
(***************************************************************************)
Delivery == INSTANCE FrameDelivery WITH
  sent <- IF aligned THEN sent ELSE << >>,
  delivered <- IF aligned THEN delivered ELSE << >>,
  dropped <- IF aligned THEN dropped ELSE 0

DeliverySpec == Delivery!Spec

(***************************************************************************)
(* Whenever recv_tcp_packet3 calls recv it asks for at least one byte, on  *)
(* every connection, also where it is out of step: asked for none, recv    *)
(* answers SOCKERR_DATALEN and reads nothing, and since an error leaves    *)
(* the statics as they are the receiver would ask for none for ever, on    *)
(* this connection and the next.  What it holds of a packet is counted.    *)
(***************************************************************************)
AsksForBytes ==
  /\ Receiving("HEADER") => received_size < HEADER_SIZE
  /\ Receiving("DATA") => /\ received_size < packet.data_size
                          /\ received_size = Len(packet.data)

\* A packet the peer has sent on a connection that begins between two packets
\* is eventually delivered, or skipped for want of memory, unless the
\* connection ends first (comm_tcp_client, recv_tcp_packet3 and eat_tcp_data
\* all make progress).
EventuallyTaken ==
  \A k \in 1..MaxSent :
    (aligned /\ sr = "ESTABLISHED" /\ Len(sent) >= k)
      ~> (sr # "ESTABLISHED" \/ Len(delivered) + dropped >= k)

\* comm_tcp_client always opens a closed socket again, through OP_DHCP when
\* the chip has lost its address - unless eat_tcp_data is waiting for bytes
\* of a packet that will never come, or the receiver is out of bounds.
SocketReopens ==
  sr = "CLOSED" ~> (sr = "INIT" \/ pc \in {"eat", "undefined"})

(***************************************************************************)
(* contains_tcp_packet3_fragment is documented to return 0 or 1..7         *)
(* (comm_tcp3.c:173), and recv_tcp_packet3 relies on it.                   *)
(***************************************************************************)
FragmentIndexDocumented == pc # "undefined"
=============================================================================
