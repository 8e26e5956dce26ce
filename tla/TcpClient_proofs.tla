-------------------------- MODULE TcpClient_proofs --------------------------
(***************************************************************************)
(* Proofs about TcpClient, for every set of packets and every bound.       *)
(***************************************************************************)
EXTENDS TcpClient, TLAPS

LEMMA ByteRange == \A x : x \in Byte <=> x \in Nat /\ x < 256
BY SMT DEF Byte

LEMMA ShortRange == \A x : x \in Short <=> x \in Nat /\ x < 65536
BY SMT DEF Short

\* What a call of recv that returns n bytes does.
LEMMA RecvFacts ==
  ASSUME ChipType, NEW size \in Nat, NEW n \in Nat, recv(size, n)
  PROVE  /\ n <= size /\ rpos + n <= arrived
         /\ rpos' = rpos + n /\ rpos' \in 0..arrived
         /\ UNCHANGED <<sr, haveIp, stream, arrived>>
         /\ sr \in {"ESTABLISHED", "CLOSE_WAIT"}
         /\ ChipType'
<1>1. arrived \in Nat /\ rpos \in Nat /\ rpos <= arrived
  BY DEF ChipType
<1>2. Available \in Nat /\ n <= Available
  BY <1>1 DEF recv, Available
<1>3. n <= size /\ rpos + n <= arrived /\ rpos' = rpos + n
  BY <1>1, <1>2 DEF recv, Available
<1>4. UNCHANGED <<sr, haveIp, stream, arrived>> /\ sr \in {"ESTABLISHED", "CLOSE_WAIT"}
  BY DEF recv
<1> QED
  BY <1>1, <1>3, <1>4 DEF ChipType

\* The bytes of a read are in the stream.
LEMMA ReadBytes ==
  ASSUME ChipType, NEW n \in Nat, rpos + n <= arrived
  PROVE  /\ Len(stream) \in Nat /\ rpos \in Nat
         /\ \A i \in 1..n : rpos + i \in 1..Len(stream) /\ stream[rpos + i] \in Byte
         /\ Chunk(n) \in Seq(Byte)
         /\ Len(Chunk(n)) = n
         /\ \A i \in 1..n : Chunk(n)[i] = stream[rpos + i]
<1>1. /\ stream \in Seq(Byte) /\ Len(stream) \in Nat /\ arrived \in Nat
      /\ arrived <= Len(stream) /\ rpos \in Nat
  BY DEF ChipType
<1>2. \A i \in 1..n : rpos + i \in 1..Len(stream)
  BY <1>1
<1>3. \A i \in 1..n : stream[rpos + i] \in Byte
  BY <1>1, <1>2
<1>4. rpos + n - (rpos + 1) + 1 = n
  BY <1>1
<1>5. Chunk(n) \in Seq(Byte) /\ Len(Chunk(n)) = n
  BY <1>1, <1>2, <1>4 DEF Chunk
<1>6. \A i \in 1..n : Chunk(n)[i] = stream[rpos + i]
  BY <1>1, <1>2, <1>4 DEF Chunk
<1> QED
  BY <1>1, <1>2, <1>3, <1>5, <1>6

LEMMA FilledHeaderType ==
  ASSUME ChipType, ReceiverType, NEW n \in Nat, rpos + n <= arrived
  PROVE  FilledHeader(n) \in [1..HEADER_SIZE -> Byte]
<1>1. ASSUME NEW i \in 1..HEADER_SIZE, i \in received_size + 1 .. received_size + n
      PROVE  stream[rpos + i - received_size] \in Byte
  <2>1. i - received_size \in 1..n /\ rpos + (i - received_size) = rpos + i - received_size
    BY <1>1 DEF ReceiverType, ChipType
  <2> QED
    BY <2>1, ReadBytes
<1>2. header \in [1..HEADER_SIZE -> Byte]
  BY DEF ReceiverType
<1> QED
  BY <1>1, <1>2 DEF FilledHeader

LEMMA HeaderFields ==
  ASSUME NEW h \in [1..HEADER_SIZE -> Byte]
  PROVE  /\ h[4] \in Byte /\ h[5] \in Byte
         /\ get_tcp_packet3_header_data_size(h) \in Short
<1>1. h[4] \in Byte /\ h[5] \in Byte /\ h[6] \in Byte /\ h[7] \in Byte
  BY DEF HEADER_SIZE
<1>2. \A a, b \in Byte : a + 256 * b \in Short
  BY ByteRange, ShortRange
<1> QED
  BY <1>1, <1>2 DEF get_tcp_packet3_header_data_size

\* The search finds an index inside the header, or -1.
LEMMA FragmentIndex ==
  ASSUME NEW h \in [1..HEADER_SIZE -> Byte]
  PROVE  contains_tcp_packet3_fragment(h) \in {-1} \cup 1..7
<1> DEFINE found == {i \in 1..HEADER_SIZE - 1 : h[i + 1] = RC_FS}
           first == CHOOSE i \in found : \A j \in found : i <= j
<1>1. found \subseteq 1..7
  BY DEF HEADER_SIZE
<1>2. CASE found = {}
  BY <1>2 DEF contains_tcp_packet3_fragment
<1>3. CASE found # {}
  <2>1. \E i \in found : \A j \in found : i <= j
    <3> HIDE DEF found
    <3>1. CASE 1 \in found
      BY <1>1, <3>1
    <3>2. CASE 1 \notin found /\ 2 \in found
      BY <1>1, <3>2
    <3>3. CASE 1 \notin found /\ 2 \notin found /\ 3 \in found
      BY <1>1, <3>3
    <3>4. CASE 1 \notin found /\ 2 \notin found /\ 3 \notin found /\ 4 \in found
      BY <1>1, <3>4
    <3>5. CASE found \subseteq 5..7
      <4>1. CASE 5 \in found
        BY <3>5, <4>1
      <4>2. CASE 5 \notin found /\ 6 \in found
        BY <3>5, <4>2
      <4>3. CASE found \subseteq {7}
        <5>1. PICK i \in found : TRUE
          BY <1>3, Zenon
        <5> QED
          BY <4>3, <5>1
      <4> QED
        BY <3>5, <4>1, <4>2, <4>3
    <3> QED
      BY <1>1, <3>1, <3>2, <3>3, <3>4, <3>5
  <2>2. first \in found
    <3> HIDE DEF found
    <3> QED
      BY <2>1
  <2>3. first \in 1..7
    BY <1>1, <2>2
  <2> HIDE DEF first
  <2>4. contains_tcp_packet3_fragment(h) \in {7, first, -1}
    BY <1>3 DEF contains_tcp_packet3_fragment, first, HEADER_SIZE
  <2> QED
    BY <2>3, <2>4
<1> QED
  BY <1>2, <1>3

LEMMA Concatenation ==
  ASSUME NEW S, NEW a \in Seq(S), NEW b \in Seq(S)
  PROVE  /\ a \o b \in Seq(S)
         /\ Len(a \o b) = Len(a) + Len(b)
         /\ \A i \in 1..Len(a) : (a \o b)[i] = a[i]
         /\ \A i \in 1..Len(b) : (a \o b)[Len(a) + i] = b[i]
OBVIOUS

LEMMA AppendAndTail ==
  ASSUME NEW S, NEW s \in Seq(S)
  PROVE  /\ \A e \in S : Append(s, e) \in Seq(S) /\ Len(Append(s, e)) = Len(s) + 1
         /\ s # << >> => /\ Tail(s) \in Seq(S) /\ Len(Tail(s)) = Len(s) - 1
                         /\ Head(s) \in S /\ Len(s) \in Nat \ {0}
OBVIOUS

LEMMA OnlyOne ==
  ASSUME NEW S, NEW s \in Seq(S), Len(s) = 1
  PROVE  s # << >> /\ Tail(s) = << >> /\ Head(s) = s[1] /\ s = <<Head(s)>>
<1>1. s # << >>
  <2>1. Len(<< >>) = 0 /\ 0 # 1
    OBVIOUS
  <2> QED
    BY <2>1, Zenon
<1>2. Tail(s) \in Seq(S) /\ Len(Tail(s)) = Len(s) - 1
  BY <1>1, AppendAndTail, Zenon
<1>3. \A t \in Seq(S) : Len(t) = 0 => t = << >>
  OBVIOUS
<1>4. Len(Tail(s)) = 0
  BY <1>2
<1>5. Tail(s) = << >>
  BY <1>2, <1>3, <1>4, Zenon
<1>6. Head(s) = s[1]
  OBVIOUS
<1>7. s = <<Head(s)>>
  OBVIOUS
<1> QED
  BY <1>1, <1>5, <1>6, <1>7

LEMMA SeqEqual ==
  ASSUME NEW S, NEW s \in Seq(S), NEW t \in Seq(S), Len(s) = Len(t),
         \A i \in 1..Len(t) : s[i] = t[i]
  PROVE  s = t
OBVIOUS

LEMMA WholeSequence ==
  ASSUME NEW S, NEW s \in Seq(S)
  PROVE  SubSeq(s, 1, Len(s)) = s
OBVIOUS

\* A prefix, extended by the bytes that follow it.
LEMMA Extended ==
  ASSUME NEW S, NEW s \in Seq(S), NEW k \in Nat, NEW c \in Seq(S),
         k + Len(c) <= Len(s), \A i \in 1..Len(c) : c[i] = s[k + i]
  PROVE  SubSeq(s, 1, k) \o c = SubSeq(s, 1, k + Len(c))
<1> DEFINE t == SubSeq(s, 1, k)
           u == SubSeq(s, 1, k + Len(c))
<1>1. Len(c) \in Nat /\ Len(s) \in Nat /\ k <= Len(s)
  OBVIOUS
<1>2. /\ t \in Seq(S) /\ Len(t) = k /\ \A i \in 1..k : t[i] = s[i]
  BY <1>1
<1>3. /\ u \in Seq(S) /\ Len(u) = k + Len(c) /\ \A i \in 1..k + Len(c) : u[i] = s[i]
  BY <1>1
<1> HIDE DEF t, u
<1>4. /\ t \o c \in Seq(S) /\ Len(t \o c) = Len(t) + Len(c)
      /\ \A i \in 1..Len(t) : (t \o c)[i] = t[i]
      /\ \A i \in 1..Len(c) : (t \o c)[Len(t) + i] = c[i]
  <2>1. t \in Seq(S)
    BY <1>2
  <2> QED
    BY <2>1, Concatenation
<1>5. ASSUME NEW i \in 1..k + Len(c) PROVE (t \o c)[i] = u[i]
  <2>1. CASE i \in 1..k
    BY <1>2, <1>3, <1>4, <2>1, Zenon
  <2>2. CASE i \notin 1..k
    <3>1. i - k \in 1..Len(c) /\ k + (i - k) = i
      BY <1>1, <2>2
    <3>2. (t \o c)[Len(t) + (i - k)] = c[i - k]
      BY <1>4, <3>1, Zenon
    <3>3. (t \o c)[i] = c[i - k]
      BY <1>2, <3>1, <3>2, Zenon
    <3>4. c[i - k] = s[k + (i - k)]
      BY <3>1, Zenon
    <3> QED
      BY <1>3, <3>1, <3>3, <3>4, Zenon
  <2> QED
    BY <2>1, <2>2
<1>6. Len(t \o c) = Len(u)
  BY <1>2, <1>3, <1>4, Zenon
<1>7. \A i \in 1..Len(u) : (t \o c)[i] = u[i]
  BY <1>3, <1>5, Zenon
<1> QED
  BY <1>3, <1>4, <1>6, <1>7, SeqEqual, Zenon DEF t, u

LEMMA EightBytes ==
  ASSUME NEW a \in Byte, NEW b \in Byte, NEW c \in Byte, NEW d \in Byte,
         NEW e \in Byte, NEW f \in Byte, NEW g \in Byte, NEW h \in Byte
  PROVE  <<a, b, c, d, e, f, g, h>> \in Seq(Byte) /\ Len(<<a, b, c, d, e, f, g, h>>) = 8
OBVIOUS

\* The bytes of a packet are bytes.
LEMMA EncodeType ==
  ASSUME NEW p \in Packets
  PROVE  /\ Encode(p) \in Seq(Byte)
         /\ Len(p.data) \in Nat /\ p.data \in Seq(Byte)
         /\ Len(Encode(p)) = HEADER_SIZE + Len(p.data)
         /\ p \in ReceivedPackets
<1>1. /\ p.flag \in Byte /\ p.type \in Byte /\ p.data \in Seq(Byte)
      /\ Len(p.data) \in Nat /\ Len(p.data) < 256 * 256 /\ p \in ReceivedPackets
  BY PacketsAssumption DEF ReceivedPackets
<1>2. \A l \in Nat : l < 256 * 256 => l % 256 < 256 /\ l \div 256 < 256
                                      /\ l % 256 \in Nat /\ l \div 256 \in Nat
  OBVIOUS
<1>3. Len(p.data) % 256 \in Byte /\ Len(p.data) \div 256 \in Byte
  BY <1>1, <1>2, ByteRange
<1>4. RC_FS \in Byte /\ RC_MAGIC \in Byte /\ VERSION \in Byte /\ RC_GS \in Byte
  BY ByteRange DEF RC_FS, RC_MAGIC, VERSION, RC_GS
<1> DEFINE head == <<RC_FS, RC_MAGIC, VERSION, p.flag, p.type,
                     Len(p.data) % 256, Len(p.data) \div 256, RC_GS>>
<1>5. head \in Seq(Byte) /\ Len(head) = 8
  BY <1>1, <1>3, <1>4, EightBytes
<1>6. Encode(p) = head \o p.data
  BY DEF Encode
<1> HIDE DEF head
<1>7. /\ head \o p.data \in Seq(Byte)
      /\ Len(head \o p.data) = Len(head) + Len(p.data)
  BY <1>1, <1>5, Concatenation, Zenon
<1>8. Len(Encode(p)) = HEADER_SIZE + Len(p.data)
  BY <1>5, <1>6, <1>7, Zenon DEF HEADER_SIZE
<1> QED
  BY <1>1, <1>6, <1>7, <1>8, Zenon

-----------------------------------------------------------------------------
(***************************************************************************)
(* The type invariant, one group of variables at a time.                   *)
(***************************************************************************)

\* What the four actions that read from the socket have in common.
LEMMA ReadStep ==
  ASSUME TypeOK, NEW n \in 0..Len(stream),
         \/ ReceiveData(n) \/ ReceivePartOfHeader(n) \/ ReceiveRestOfHeader(n)
         \/ Eat(n)
  PROVE  /\ n \in Nat /\ rpos + n <= arrived /\ rpos' = rpos + n
         /\ ChipType'
         /\ UNCHANGED <<sr, haveIp, stream, arrived, operation, state>>
         /\ ReceiveData(n) => received_size + n <= packet.data_size
         /\ ReceivePartOfHeader(n) \/ ReceiveRestOfHeader(n)
              => received_size + n <= HEADER_SIZE
         /\ Eat(n) => n <= remain
<1>1. ChipType /\ ReceiverType /\ LoopType
  BY DEF TypeOK
<1>2. n \in Nat
  BY <1>1 DEF ChipType
<1>3. /\ received_size \in Nat /\ remain \in Nat /\ packet.data_size \in Nat
      /\ recv_mode = "DATA" => received_size <= packet.data_size
      /\ recv_mode = "HEADER" /\ pc # "undefined" => received_size <= HEADER_SIZE
  BY <1>1, ShortRange DEF ReceiverType
<1>4. CASE ReceiveData(n)
  <2>1. recv_mode = "DATA" /\ recv(packet.data_size - received_size, n)
    BY <1>4 DEF ReceiveData, Receiving
  <2>2. packet.data_size - received_size \in Nat
    BY <1>3, <2>1
  <2>3. ~ReceivePartOfHeader(n) /\ ~ReceiveRestOfHeader(n) /\ ~Eat(n)
    BY <1>4 DEF ReceivePartOfHeader, ReceiveRestOfHeader, Eat, ReceiveData, Receiving
  <2>4. UNCHANGED <<operation, state>>
    BY <1>4 DEF ReceiveData
  <2>5. /\ n <= packet.data_size - received_size /\ rpos + n <= arrived
        /\ rpos' = rpos + n /\ ChipType'
        /\ UNCHANGED <<sr, haveIp, stream, arrived>>
    BY <1>1, <1>2, <2>1, <2>2, RecvFacts
  <2>6. received_size + n <= packet.data_size
    BY <1>2, <1>3, <2>5
  <2> QED
    BY <1>2, <2>3, <2>4, <2>5, <2>6
<1>5. CASE ReceivePartOfHeader(n) \/ ReceiveRestOfHeader(n)
  <2>1. pc = "client" /\ recv_mode = "HEADER" /\ recv(HEADER_SIZE - received_size, n)
    BY <1>5 DEF ReceivePartOfHeader, ReceiveRestOfHeader, Receiving
  <2>2. HEADER_SIZE - received_size \in Nat
    BY <1>3, <2>1 DEF HEADER_SIZE
  <2>3. ~ReceiveData(n) /\ ~Eat(n)
    BY <2>1 DEF Eat, ReceiveData, Receiving
  <2>4. UNCHANGED <<operation, state>>
    BY <1>5 DEF ReceivePartOfHeader, ReceiveRestOfHeader
  <2>5. /\ n <= HEADER_SIZE - received_size /\ rpos + n <= arrived
        /\ rpos' = rpos + n /\ ChipType'
        /\ UNCHANGED <<sr, haveIp, stream, arrived>>
    BY <1>1, <1>2, <2>1, <2>2, RecvFacts
  <2>6. received_size + n <= HEADER_SIZE
    BY <1>2, <1>3, <2>5 DEF HEADER_SIZE
  <2> QED
    BY <1>2, <2>3, <2>4, <2>5, <2>6
<1>6. CASE Eat(n)
  <2> DEFINE size == IF remain < EAT_SIZE THEN remain ELSE EAT_SIZE
  <2>1. recv(size, n) /\ pc = "eat"
    BY <1>6 DEF Eat
  <2>2. size \in Nat /\ size <= remain
    BY <1>3 DEF EAT_SIZE
  <2> HIDE DEF size
  <2>3. ~ReceiveData(n) /\ ~ReceivePartOfHeader(n) /\ ~ReceiveRestOfHeader(n)
    BY <2>1 DEF ReceiveData, ReceivePartOfHeader, ReceiveRestOfHeader, Receiving
  <2>4. UNCHANGED <<operation, state>>
    BY <1>6 DEF Eat
  <2>5. /\ n <= size /\ rpos + n <= arrived
        /\ rpos' = rpos + n /\ ChipType'
        /\ UNCHANGED <<sr, haveIp, stream, arrived>>
    BY <1>1, <1>2, <2>1, <2>2, RecvFacts
  <2>6. n <= remain
    BY <1>2, <1>3, <2>2, <2>5
  <2> QED
    BY <1>2, <2>3, <2>4, <2>5, <2>6
<1> QED
  BY <1>4, <1>5, <1>6

LEMMA ChipTypePreserved ==
  ASSUME TypeOK, Next
  PROVE  ChipType'
<1>1. ChipType
  BY DEF TypeOK
<1>2. /\ sr \in SocketStates /\ stream \in Seq(Byte) /\ Len(stream) \in Nat
      /\ arrived \in 0..Len(stream) /\ rpos \in 0..arrived
  BY <1>1 DEF ChipType
<1>3. CASE UNCHANGED <<stream, arrived, rpos, haveIp>> /\ sr' \in SocketStates
  BY <1>1, <1>3 DEF ChipType
<1>4. ASSUME NEW n \in 0..Len(stream),
             \/ ReceiveData(n) \/ ReceivePartOfHeader(n) \/ AcceptHeader(n)
             \/ RejectHeader(n) \/ Resynchronise(n) \/ Eat(n)
      PROVE  ChipType'
  BY <1>4, ReadStep DEF AcceptHeader, RejectHeader, Resynchronise
<1>5. CASE ReceiveError \/ EatError
  BY <1>3, <1>5 DEF ReceiveError, EatError, recv_error, SocketStates
<1>6. CASE SetDhcpIp
  BY <1>2, <1>6 DEF SetDhcpIp, ChipType
<1>7. CASE PollSocket \/ EatDone \/ ClientOther \/ ProcessPacket \/ Undefined
  BY <1>2, <1>3, <1>7 DEF PollSocket, EatDone, ClientOther, ProcessPacket,
                          Undefined, chip, vars
<1>8. CASE ClientCloseWait \/ ClientClosed \/ ClientInit \/ SocketCloses \/ PeerClose
  <2>1. UNCHANGED <<stream, arrived, rpos, haveIp>>
    BY <1>8 DEF ClientCloseWait, ClientClosed, ClientInit, SocketCloses, PeerClose
  <2>2. sr' \in {sr, "LAST_ACK", "INIT", "CLOSED", "SYNSENT", "CLOSE_WAIT"}
    BY <1>8 DEF ClientCloseWait, ClientClosed, ClientInit, SocketCloses, PeerClose
  <2> QED
    BY <1>2, <1>3, <2>1, <2>2 DEF SocketStates
<1>9. CASE Established
  <2>1. stream' = << >> /\ arrived' = 0 /\ rpos' = 0 /\ sr' = "ESTABLISHED"
        /\ haveIp' = haveIp
    BY <1>9 DEF Established
  <2>2. << >> \in Seq(Byte) /\ Len(<< >>) = 0
    OBVIOUS
  <2>3. stream' \in Seq(Byte) /\ arrived' \in 0..Len(stream') /\ rpos' \in 0..arrived'
    BY <2>1, <2>2
  <2>4. haveIp' \in BOOLEAN
    BY <1>1, <2>1, Zenon DEF ChipType
  <2> QED
    BY <2>1, <2>3, <2>4, Zenon DEF ChipType, SocketStates
<1>10. ASSUME NEW p \in Packets, PeerSend(p)
       PROVE  ChipType'
  <2>1. stream' = stream \o Encode(p) /\ UNCHANGED <<sr, haveIp, arrived, rpos>>
    BY <1>10 DEF PeerSend
  <2>2. stream' \in Seq(Byte) /\ Len(stream') = Len(stream) + Len(Encode(p))
        /\ Len(Encode(p)) \in Nat
    BY <1>2, <2>1, EncodeType, Concatenation
  <2>3. arrived' \in 0..Len(stream') /\ rpos' \in 0..arrived'
    BY <1>2, <2>1, <2>2
  <2>4. haveIp' \in BOOLEAN /\ sr' \in SocketStates
    BY <1>1, <2>1, Zenon DEF ChipType
  <2> QED
    BY <2>2, <2>3, <2>4, Zenon DEF ChipType
<1>11. ASSUME NEW n \in 1..Len(stream), Arrive(n)
       PROVE  ChipType'
  <2>1. arrived < n /\ n <= Len(stream) /\ arrived' = n /\ n \in Nat
        /\ UNCHANGED <<sr, haveIp, stream, rpos>>
    BY <1>2, <1>11 DEF Arrive
  <2>2. arrived' \in 0..Len(stream') /\ rpos' \in 0..arrived' /\ stream' \in Seq(Byte)
    BY <1>2, <2>1
  <2>4. haveIp' \in BOOLEAN /\ sr' \in SocketStates
    BY <1>1, <2>1, Zenon DEF ChipType
  <2> QED
    BY <2>2, <2>4, Zenon DEF ChipType
<1>12. CASE ChipReset
  BY <1>2, <1>12 DEF ChipReset, ChipType, SocketStates
<1> QED
  BY <1>4, <1>5, <1>6, <1>7, <1>8, <1>9, <1>10, <1>11, <1>12
     DEF Next, Firmware, Receive, Environment

LEMMA LoopTypePreserved ==
  ASSUME TypeOK, Next
  PROVE  LoopType'
<1>1. LoopType /\ sr \in SocketStates
  BY DEF TypeOK, ChipType
<1> USE <1>1 DEF LoopType, Operations
<1>2. CASE SetDhcpIp \/ PollSocket \/ ReceiveError \/ EatError \/ EatDone
  BY <1>2 DEF SetDhcpIp, PollSocket, ReceiveError, EatError, EatDone
<1>3. ASSUME NEW n \in 0..Len(stream),
             \/ ReceiveData(n) \/ ReceivePartOfHeader(n) \/ AcceptHeader(n)
             \/ RejectHeader(n) \/ Resynchronise(n) \/ Eat(n)
      PROVE  LoopType'
  <2>1. UNCHANGED <<operation, state>>
    BY <1>3 DEF ReceiveData, ReceivePartOfHeader, AcceptHeader, RejectHeader,
                Resynchronise, ReceiveRestOfHeader, Eat
  <2>2. pc' \in {pc, "handler", "process", "eat", "undefined"}
    BY <1>3 DEF ReceiveData, ReceivePartOfHeader, AcceptHeader, RejectHeader,
                Resynchronise, Eat, PacketReceived
  <2> QED
    BY <2>1, <2>2
<1>4. CASE ClientCloseWait \/ ClientClosed \/ ClientInit \/ ClientOther \/ ProcessPacket
  BY <1>4 DEF ClientCloseWait, ClientClosed, ClientInit, ClientOther,
              ProcessPacket, ClientDone
<1>5. CASE Established \/ PeerClose \/ SocketCloses \/ ChipReset \/ Undefined
  BY <1>5 DEF Established, PeerClose, SocketCloses, ChipReset, Undefined, Loop, vars
<1>6. ASSUME \/ \E p \in Packets : PeerSend(p)
             \/ \E n \in 1..Len(stream) : Arrive(n)
      PROVE  LoopType'
  BY <1>6 DEF PeerSend, Arrive, Loop
<1> QED
  BY <1>2, <1>3, <1>4, <1>5, <1>6 DEF Next, Firmware, Receive, Environment

\* A type-correct header, accepted, describes a type-correct packet.
LEMMA AcceptedPacket ==
  ASSUME NEW h \in [1..HEADER_SIZE -> Byte]
  PROVE  /\ [flag |-> h[4], type |-> h[5],
             data_size |-> get_tcp_packet3_header_data_size(h), data |-> << >>]
              \in [flag : Byte, type : Byte, data_size : Short, data : Seq(Byte)]
         /\ [flag |-> h[4], type |-> h[5], data |-> << >>] \in ReceivedPackets
<1>1. h[4] \in Byte /\ h[5] \in Byte /\ get_tcp_packet3_header_data_size(h) \in Short
  BY HeaderFields
<1>2. << >> \in Seq(Byte)
  OBVIOUS
<1> QED
  BY <1>1, <1>2 DEF ReceivedPackets

LEMMA Zeroed ==
  /\ NoHeader \in [1..HEADER_SIZE -> Byte]
  /\ NoPacket \in [flag : Byte, type : Byte, data_size : Short, data : Seq(Byte)]
<1>1. 0 \in Byte /\ 0 \in Short
  BY ByteRange, ShortRange
<1>2. << >> \in Seq(Byte)
  OBVIOUS
<1> QED
  BY <1>1, <1>2 DEF NoHeader, NoPacket

LEMMA ReceivedType ==
  ASSUME packet_list \in Seq(ReceivedPackets), NEW p, PacketReceived(p),
         [flag |-> p.flag, type |-> p.type, data |-> p.data] \in ReceivedPackets
  PROVE  packet_list' \in Seq(ReceivedPackets)
<1> DEFINE e == [flag |-> p.flag, type |-> p.type, data |-> p.data]
<1>1. packet_list' = Append(packet_list, e) /\ e \in ReceivedPackets
  BY DEF PacketReceived
<1> HIDE DEF e
<1> QED
  BY <1>1, AppendAndTail

LEMMA ReceiverTypePreserved ==
  ASSUME TypeOK, Next
  PROVE  ReceiverType'
<1>1. ChipType /\ ReceiverType
  BY DEF TypeOK
<1>2. /\ header \in [1..HEADER_SIZE -> Byte]
      /\ recv_mode \in {"HEADER", "DATA"}
      /\ packet \in [flag : Byte, type : Byte, data_size : Short, data : Seq(Byte)]
      /\ received_size \in Nat /\ packet.data_size \in Nat
      /\ remain \in Short /\ remain \in Nat
      /\ packet_list \in Seq(ReceivedPackets)
      /\ recv_mode = "DATA" => received_size <= packet.data_size
      /\ recv_mode = "HEADER" /\ pc # "undefined" => received_size <= HEADER_SIZE
  BY <1>1, ShortRange DEF ReceiverType
<1>3. \* nothing of the receiver changes
      CASE UNCHANGED receiver /\ (pc = "undefined" => pc' = "undefined")
  BY <1>1, <1>3 DEF ReceiverType, receiver
<1>4. \* a header is zeroed and the mode is the old one or HEADER
      ASSUME header' = NoHeader, received_size' = 0,
             recv_mode' \in {"HEADER", "DATA"},
             packet' \in [flag : Byte, type : Byte, data_size : Short, data : Seq(Byte)],
             remain' \in Short, packet_list' \in Seq(ReceivedPackets)
      PROVE  ReceiverType'
  <2>1. packet'.data_size \in Nat
    BY <1>4, ShortRange
  <2> QED
    BY <1>4, <2>1, Zeroed DEF ReceiverType, HEADER_SIZE
<1>5. ASSUME NEW n \in 0..Len(stream), ReceiveData(n)
      PROVE  ReceiverType'
  <2> DEFINE p == [packet EXCEPT !.data = @ \o Chunk(n)]
  <2>1. n \in Nat /\ rpos + n <= arrived /\ received_size + n <= packet.data_size
    BY <1>5, ReadStep
  <2>2. Chunk(n) \in Seq(Byte)
    BY <1>1, <2>1, ReadBytes
  <2>3. packet.data \in Seq(Byte) /\ packet.flag \in Byte /\ packet.type \in Byte
    BY <1>2
  <2>4. packet.data \o Chunk(n) \in Seq(Byte)
    BY <2>2, <2>3, Concatenation
  <2>5. /\ p \in [flag : Byte, type : Byte, data_size : Short, data : Seq(Byte)]
        /\ p.data_size = packet.data_size
        /\ p.flag = packet.flag /\ p.type = packet.type /\ p.data \in Seq(Byte)
    BY <1>2, <2>4
  <2> HIDE DEF p
  <2>6. recv_mode = "DATA" /\ UNCHANGED remain
    BY <1>5 DEF ReceiveData, Receiving
  <2>7. CASE DataMissing(n)
    <3>1. /\ packet' = p /\ received_size' = received_size + n
          /\ UNCHANGED <<header, recv_mode, packet_list>>
      BY <1>5, <2>7 DEF ReceiveData, p
    <3> QED
      BY <1>2, <2>1, <2>5, <2>6, <3>1 DEF ReceiverType
  <2>8. CASE ~DataMissing(n)
    <3>1. /\ PacketReceived(p) /\ packet' = NoPacket /\ recv_mode' = "HEADER"
          /\ header' = NoHeader /\ received_size' = 0
      BY <1>5, <2>8 DEF ReceiveData, p, clear_header
    <3>2. [flag |-> p.flag, type |-> p.type, data |-> p.data] \in ReceivedPackets
      BY <2>3, <2>5 DEF ReceivedPackets
    <3>3. packet_list' \in Seq(ReceivedPackets)
      BY <1>2, <3>1, <3>2, ReceivedType
    <3> QED
      BY <1>2, <1>4, <2>6, <3>1, <3>3, Zeroed
  <2> QED
    BY <2>7, <2>8
<1>6. ASSUME NEW n \in 0..Len(stream), ReceivePartOfHeader(n)
      PROVE  ReceiverType'
  <2>1. /\ n \in Nat /\ rpos + n <= arrived /\ received_size + n <= HEADER_SIZE
    BY <1>6, ReadStep
  <2>2. FilledHeader(n) \in [1..HEADER_SIZE -> Byte]
    BY <1>1, <2>1, FilledHeaderType
  <2>3. /\ header' = FilledHeader(n) /\ received_size' = received_size + n
        /\ recv_mode = "HEADER" /\ UNCHANGED <<recv_mode, packet, remain, packet_list>>
    BY <1>6 DEF ReceivePartOfHeader, Receiving
  <2> QED
    BY <1>2, <2>1, <2>2, <2>3 DEF ReceiverType
<1>7. ASSUME NEW n \in 0..Len(stream), AcceptHeader(n) \/ RejectHeader(n) \/ Resynchronise(n)
      PROVE  ReceiverType'
  <2>1. ReceiveRestOfHeader(n)
    BY <1>7 DEF AcceptHeader, RejectHeader, Resynchronise
  <2>2. n \in Nat /\ rpos + n <= arrived /\ received_size + n <= HEADER_SIZE
    BY <2>1, ReadStep
  <2>3. received_size + n = HEADER_SIZE /\ recv_mode = "HEADER"
    BY <1>2, <2>1, <2>2 DEF ReceiveRestOfHeader, HEADER_SIZE, Receiving
  <2> DEFINE h == FilledHeader(n)
  <2>4. h \in [1..HEADER_SIZE -> Byte]
    BY <1>1, <2>2, FilledHeaderType
  <2> HIDE DEF h
  <2>5. CASE AcceptHeader(n)
    <3> DEFINE size == get_tcp_packet3_header_data_size(h)
               p == [flag |-> h[4], type |-> h[5], data_size |-> size, data |-> << >>]
    <3>1. /\ p \in [flag : Byte, type : Byte, data_size : Short, data : Seq(Byte)]
          /\ [flag |-> p.flag, type |-> p.type, data |-> p.data] \in ReceivedPackets
      BY <2>4, AcceptedPacket
    <3> HIDE DEF p
    <3>2. header' = NoHeader /\ received_size' = 0 /\ UNCHANGED remain
      BY <2>5 DEF AcceptHeader, clear_header
    <3>3. \/ packet' = p /\ recv_mode' = "DATA" /\ UNCHANGED packet_list
          \/ PacketReceived(p) /\ UNCHANGED <<packet, recv_mode>>
      BY <2>5 DEF AcceptHeader, p, h
    <3>4. packet_list' \in Seq(ReceivedPackets)
      <4>1. CASE PacketReceived(p)
        BY <1>2, <3>1, <4>1, ReceivedType
      <4> QED
        BY <1>2, <3>3, <4>1
    <3> QED
      BY <1>2, <1>4, <3>1, <3>2, <3>3, <3>4
  <2>6. CASE RejectHeader(n)
    <3>1. /\ header' = h /\ received_size' = received_size + n
          /\ remain' = get_tcp_packet3_header_data_size(h)
          /\ UNCHANGED <<recv_mode, packet, packet_list>>
      BY <2>6 DEF RejectHeader, h
    <3>2. remain' \in Short
      BY <2>4, <3>1, HeaderFields
    <3> QED
      BY <1>2, <2>2, <2>3, <2>4, <3>1, <3>2 DEF ReceiverType
  <2>7. CASE Resynchronise(n)
    <3> DEFINE start_idx == contains_tcp_packet3_fragment(h)
    <3>1. start_idx \in {-1} \cup 1..7
      BY <2>4, FragmentIndex
    <3> HIDE DEF start_idx
    <3>2. /\ header' = [i \in 1..HEADER_SIZE |->
                 IF i \in 1..HEADER_SIZE - start_idx /\ i + start_idx \in 1..HEADER_SIZE
                   THEN h[i + start_idx] ELSE h[i]]
          /\ received_size' = received_size + n - start_idx
          /\ pc' = IF start_idx < 0 THEN "undefined" ELSE "handler"
          /\ UNCHANGED <<recv_mode, packet, remain, packet_list>>
      BY <2>7, <3>1 DEF Resynchronise, h, start_idx
    <3>3. header' \in [1..HEADER_SIZE -> Byte]
      BY <2>4, <3>2
    <3>4. /\ received_size' \in Nat
          /\ pc' # "undefined" => received_size' <= HEADER_SIZE
      BY <2>3, <1>2, <2>2, <3>1, <3>2 DEF HEADER_SIZE
    <3> QED
      BY <1>2, <2>3, <3>2, <3>3, <3>4 DEF ReceiverType
  <2> QED
    BY <1>7, <2>5, <2>6, <2>7
<1>8. ASSUME NEW n \in 0..Len(stream), Eat(n)
      PROVE  ReceiverType'
  <2>1. /\ n \in Nat /\ n <= remain /\ remain' = remain - n /\ pc' = pc
        /\ UNCHANGED <<header, received_size, recv_mode, packet, packet_list>>
    BY <1>8, ReadStep DEF Eat
  <2>2. remain' \in Short
    BY <1>2, <2>1, ShortRange
  <2> QED
    BY <1>2, <2>1, <2>2 DEF ReceiverType
<1>9. CASE EatDone
  BY <1>2, <1>4, <1>9 DEF EatDone, clear_header
<1>10. CASE ProcessPacket
  <2>1. packet_list \in Seq(ReceivedPackets)
    BY <1>2
  <2>2. packet_list' = packet_list \/ (packet_list # << >> /\ packet_list' = Tail(packet_list))
    BY <1>10, Zenon DEF ProcessPacket
  <2>3. packet_list' \in Seq(ReceivedPackets)
    BY <2>1, <2>2, AppendAndTail, Zenon
  <2> QED
    BY <1>2, <1>10, <2>3 DEF ProcessPacket, ReceiverType
<1>11. CASE ClientClosed
  <2>1. packet_list' = << >> /\ pc = "client"
        /\ UNCHANGED <<header, received_size, recv_mode, packet, remain>>
    BY <1>11 DEF ClientClosed, ClientDone
  <2>2. packet_list' \in Seq(ReceivedPackets)
    BY <2>1
  <2> QED
    BY <1>2, <2>1, <2>2 DEF ReceiverType
<1>12. CASE \/ SetDhcpIp \/ PollSocket \/ ReceiveError \/ EatError
            \/ ClientCloseWait \/ ClientInit \/ ClientOther
  BY <1>3, <1>12 DEF SetDhcpIp, PollSocket, ReceiveError, EatError,
     ClientCloseWait, ClientInit, ClientOther, ClientDone
<1>13. CASE Environment \/ Undefined
  <2>1. UNCHANGED <<receiver, pc>>
    BY <1>13 DEF Environment, Established, PeerSend, Arrive, PeerClose,
                 SocketCloses, ChipReset, Undefined, Loop, vars
  <2> QED
    BY <1>3, <2>1
<1> QED
  BY <1>5, <1>6, <1>7, <1>8, <1>9, <1>10, <1>11, <1>12, <1>13
     DEF Next, Firmware, Receive

LEMMA HistoryTypePreserved ==
  ASSUME TypeOK, Next
  PROVE  HistoryType'
<1>1. HistoryType /\ ReceiverType /\ ChipType
  BY DEF TypeOK
<1>2. /\ connections \in 0..MaxConnections /\ failures \in 0..MaxFailures
      /\ sent \in Seq(Packets) /\ Len(sent) <= MaxSent
      /\ starts \in Seq(Nat) /\ Len(starts) = Len(sent) + 1
      /\ delivered \in Seq(ReceivedPackets) /\ dropped \in Nat
      /\ MaxConnections \in Nat /\ MaxFailures \in Nat /\ MaxSent \in Nat
  BY <1>1, BoundsAssumption DEF HistoryType
<1>3. aligned' \in BOOLEAN
  <2>1. aligned \in BOOLEAN
    BY <1>1 DEF HistoryType
  <2>2. CASE UNCHANGED aligned
    BY <2>1, <2>2
  <2>3. CASE Established
    BY <2>3, Zenon DEF Established
  <2>4. Established \/ UNCHANGED aligned
    BY DEF Next, Firmware, Receive, Environment, SetDhcpIp, PollSocket, ReceiveData,
       ReceivePartOfHeader, AcceptHeader, RejectHeader, Resynchronise,
       ReceiveRestOfHeader, Eat, ReceiveError, EatError, EatDone, ClientCloseWait,
       ClientClosed, ClientInit, ClientOther, ProcessPacket, PeerSend, Arrive,
       PeerClose, SocketCloses, ChipReset, Undefined, vars, history
  <2> QED
    BY <2>2, <2>3, <2>4
<1>4. connections' \in 0..MaxConnections /\ failures' \in 0..MaxFailures
  <2>1. \/ connections' = connections
        \/ connections < MaxConnections /\ connections' = connections + 1
    BY DEF Next, Firmware, Receive, Environment, SetDhcpIp, PollSocket, ReceiveData,
       ReceivePartOfHeader, AcceptHeader, RejectHeader, Resynchronise,
       ReceiveRestOfHeader, Eat, ReceiveError, EatError, EatDone, ClientCloseWait,
       ClientClosed, ClientInit, ClientOther, ProcessPacket, Established, PeerSend,
       Arrive, PeerClose, SocketCloses, ChipReset, Undefined, vars
  <2>2. \/ failures' = failures
        \/ failures < MaxFailures /\ failures' = failures + 1
    BY DEF Next, Firmware, Receive, Environment, SetDhcpIp, PollSocket, ReceiveData,
       ReceivePartOfHeader, AcceptHeader, RejectHeader, Resynchronise,
       Eat, ReceiveError, EatError, EatDone, ClientCloseWait,
       ClientClosed, ClientInit, ClientOther, ProcessPacket, Established, PeerSend,
       Arrive, PeerClose, SocketCloses, ChipReset, Undefined, vars
  <2> QED
    BY <1>2, <2>1, <2>2
<1> DEFINE Histories == /\ sent \in Seq(Packets) /\ Len(sent) <= MaxSent
                        /\ starts \in Seq(Nat) /\ Len(starts) = Len(sent) + 1
                        /\ delivered \in Seq(ReceivedPackets) /\ dropped \in Nat
<1>5. Histories'
  <2>1. CASE UNCHANGED <<sent, starts, delivered, dropped>>
    BY <1>2, <2>1
  <2>2. CASE EatDone
    BY <1>2, <2>2 DEF EatDone
  <2>3. CASE ProcessPacket
    <3>1. packet_list \in Seq(ReceivedPackets) /\ UNCHANGED <<sent, starts, dropped>>
      BY <1>1, <2>3 DEF ReceiverType, ProcessPacket
    <3>2. delivered' \in Seq(ReceivedPackets)
      <4>1. CASE packet_list = << >>
        BY <1>2, <2>3, <4>1 DEF ProcessPacket
      <4>2. CASE packet_list # << >>
        <5>1. Head(packet_list) \in ReceivedPackets
          BY <3>1, <4>2, AppendAndTail
        <5>2. delivered' = Append(delivered, Head(packet_list))
          BY <2>3, <4>2 DEF ProcessPacket
        <5> QED
          BY <1>2, <5>1, <5>2, AppendAndTail
      <4> QED
        BY <4>1, <4>2
    <3> QED
      BY <1>2, <3>1, <3>2
  <2>4. CASE Established
    <3>1. sent' = << >> /\ starts' = <<0>> /\ delivered' = << >> /\ dropped' = 0
      BY <2>4 DEF Established
    <3>2. /\ << >> \in Seq(Packets) /\ << >> \in Seq(ReceivedPackets)
          /\ <<0>> \in Seq(Nat) /\ Len(<<0>>) = 1 /\ Len(<< >>) = 0
      OBVIOUS
    <3> QED
      BY <1>2, <3>1, <3>2
  <2>5. ASSUME NEW p \in Packets, PeerSend(p)
        PROVE  Histories'
    <3> DEFINE e == Len(stream) + HEADER_SIZE + Len(p.data)
    <3>1. /\ sent' = Append(sent, p) /\ starts' = Append(starts, e)
          /\ Len(sent) < MaxSent /\ UNCHANGED <<delivered, dropped>>
      BY <2>5 DEF PeerSend
    <3>2. e \in Nat
      <4>1. Len(stream) \in Nat
        BY <1>1 DEF ChipType
      <4>2. Len(p.data) \in Nat
        BY EncodeType
      <4>3. \A l, k \in Nat : k + HEADER_SIZE + l \in Nat
        BY DEF HEADER_SIZE
      <4> QED
        BY <4>1, <4>2, <4>3, Zenon
    <3> HIDE DEF e
    <3>3. /\ sent' \in Seq(Packets) /\ Len(sent') = Len(sent) + 1
          /\ starts' \in Seq(Nat) /\ Len(starts') = Len(starts) + 1
      BY <1>2, <3>1, <3>2, AppendAndTail
    <3> QED
      BY <1>2, <3>1, <3>3
  <2>6. \/ UNCHANGED <<sent, starts, delivered, dropped>>
        \/ EatDone \/ ProcessPacket \/ Established
        \/ \E p \in Packets : PeerSend(p)
    BY DEF Next, Firmware, Receive, Environment, SetDhcpIp, PollSocket, ReceiveData,
       ReceivePartOfHeader, AcceptHeader, RejectHeader, Resynchronise,
       ReceiveRestOfHeader, Eat, ReceiveError, EatError, ClientCloseWait,
       ClientClosed, ClientInit, ClientOther, Arrive,
       PeerClose, SocketCloses, ChipReset, Undefined, vars, history
  <2> QED
    BY <2>1, <2>2, <2>3, <2>4, <2>5, <2>6
<1> QED
  BY <1>3, <1>4, <1>5, Zenon DEF HistoryType, Histories

LEMMA TypePreserved ==
  ASSUME TypeOK, [Next]_vars
  PROVE  TypeOK'
<1>1. CASE Next
  BY <1>1, ChipTypePreserved, LoopTypePreserved, ReceiverTypePreserved,
     HistoryTypePreserved DEF TypeOK
<1>2. CASE UNCHANGED vars
  BY <1>2 DEF TypeOK, ChipType, LoopType, ReceiverType, HistoryType, vars, chip,
     receiver, history
<1> QED
  BY <1>1, <1>2

LEMMA InitType ==
  Init => TypeOK
<1> SUFFICES ASSUME Init PROVE TypeOK
  OBVIOUS
<1> USE DEF Init
<1>1. ChipType
  <2>1. << >> \in Seq(Byte) /\ Len(<< >>) = 0
    OBVIOUS
  <2>2. stream \in Seq(Byte) /\ arrived \in 0..Len(stream) /\ rpos \in 0..arrived
    BY <2>1
  <2>3. sr \in SocketStates /\ haveIp \in BOOLEAN
    BY Zenon DEF SocketStates
  <2> QED
    BY <2>2, <2>3, Zenon DEF ChipType
<1>2. LoopType
  BY DEF Init, LoopType, Operations, SocketStates
<1>3. ReceiverType
  BY Zeroed, ShortRange DEF Init, ReceiverType, HEADER_SIZE
<1>4. HistoryType
  <2>1. connections \in 0..MaxConnections /\ failures \in 0..MaxFailures
    BY BoundsAssumption
  <2>2. /\ sent \in Seq(Packets) /\ starts \in Seq(Nat) /\ dropped \in Nat
        /\ delivered \in Seq(ReceivedPackets)
        /\ Len(sent) = 0 /\ Len(starts) = 1
    OBVIOUS
  <2>3. Len(sent) <= MaxSent /\ Len(starts) = Len(sent) + 1
    BY <2>2, BoundsAssumption
  <2>4. aligned \in BOOLEAN
    BY Zenon
  <2> QED
    BY <2>1, <2>2, <2>3, <2>4, Zenon DEF HistoryType
<1> QED
  BY <1>1, <1>2, <1>3, <1>4 DEF TypeOK

\* The variables of comm_tcp_client and recv_tcp_packet3 keep their types
\* whatever the peer sends and however the network cuts it up: received_size
\* stays within header[] and within packet, as long as the behaviour of the
\* code is defined.
THEOREM TypeCorrect ==
  Spec => []TypeOK
BY InitType, TypePreserved, PTL DEF Spec

-----------------------------------------------------------------------------
(***************************************************************************)
(* InStep.  It is not inductive alone: it needs the control state to say   *)
(* where packet_list may hold a packet, and the stream to be made of the   *)
(* packets sent.                                                           *)
(***************************************************************************)
Size(p) == HEADER_SIZE + Len(p.data)

StreamOfPackets ==
  /\ starts[1] = 0 /\ starts[Len(sent) + 1] = Len(stream)
  /\ \A k \in 1..Len(sent) :
       /\ starts[k + 1] = starts[k] + Size(sent[k])
       /\ starts[k + 1] <= Len(stream)
       /\ \A i \in 1..Size(sent[k]) : stream[starts[k] + i] = Encode(sent[k])[i]

Control ==
  /\ pc = "process" => Len(packet_list) = 1
  /\ pc # "process" => packet_list = << >>
  /\ pc = "eat" => recv_mode = "HEADER"
  /\ sr = "SYNSENT" => pc = "handler" \/ (pc = "client" /\ state = "SYNSENT")

Invariant == TypeOK /\ StreamOfPackets /\ Control /\ InStep

\* The fields of a packet on the wire.
LEMMA EncodeFields ==
  ASSUME NEW p \in Packets
  PROVE  /\ Size(p) \in Nat /\ Len(Encode(p)) = Size(p) /\ Len(p.data) \in Nat
         /\ Size(p) = HEADER_SIZE + Len(p.data)
         /\ Encode(p)[1] = RC_FS /\ Encode(p)[2] = RC_MAGIC /\ Encode(p)[8] = RC_GS
         /\ Encode(p)[4] = p.flag /\ Encode(p)[5] = p.type
         /\ Encode(p)[6] + 256 * Encode(p)[7] = Len(p.data)
         /\ \A i \in 1..Len(p.data) : Encode(p)[HEADER_SIZE + i] = p.data[i]
<1>1. /\ p.flag \in Byte /\ p.type \in Byte /\ p.data \in Seq(Byte)
      /\ Len(p.data) \in Nat /\ Len(p.data) < 256 * 256
  BY PacketsAssumption
<1>2. \A l \in Nat : l < 256 * 256 => l % 256 \in Byte /\ l \div 256 \in Byte
                                      /\ (l % 256) + 256 * (l \div 256) = l
  <2>1. \A l \in Nat : l < 256 * 256 => l % 256 < 256 /\ l \div 256 < 256
                                        /\ l % 256 \in Nat /\ l \div 256 \in Nat
                                        /\ (l % 256) + 256 * (l \div 256) = l
    OBVIOUS
  <2> QED
    BY <2>1, ByteRange
<1>3. RC_FS \in Byte /\ RC_MAGIC \in Byte /\ VERSION \in Byte /\ RC_GS \in Byte
  BY ByteRange DEF RC_FS, RC_MAGIC, VERSION, RC_GS
<1> DEFINE head == <<RC_FS, RC_MAGIC, VERSION, p.flag, p.type,
                     Len(p.data) % 256, Len(p.data) \div 256, RC_GS>>
<1>4. head \in Seq(Byte) /\ Len(head) = 8
  BY <1>1, <1>2, <1>3, EightBytes
<1>5. /\ head[1] = RC_FS /\ head[2] = RC_MAGIC /\ head[8] = RC_GS
      /\ head[4] = p.flag /\ head[5] = p.type
      /\ head[6] = Len(p.data) % 256 /\ head[7] = Len(p.data) \div 256
  OBVIOUS
<1>6. Encode(p) = head \o p.data
  BY DEF Encode
<1> HIDE DEF head
<1> DEFINE data == p.data
<1>7. /\ \A i \in 1..8 : Encode(p)[i] = head[i]
      /\ \A i \in 1..Len(data) : Encode(p)[HEADER_SIZE + i] = data[i]
  <2>1. head \in Seq(Byte) /\ data \in Seq(Byte)
    BY <1>1, <1>4
  <2> HIDE DEF data
  <2>2. /\ \A i \in 1..Len(head) : (head \o data)[i] = head[i]
        /\ \A i \in 1..Len(data) : (head \o data)[Len(head) + i] = data[i]
    BY <2>1, Concatenation
  <2>3. Len(head) = 8 /\ HEADER_SIZE = 8 /\ Encode(p) = head \o data
    BY <1>4, <1>6 DEF HEADER_SIZE, data
  <2> QED
    BY <2>2, <2>3, Zenon
<1>8. \A i \in 1..Len(p.data) : Encode(p)[HEADER_SIZE + i] = p.data[i]
  BY <1>7
<1>9. Encode(p)[6] + 256 * Encode(p)[7] = Len(p.data)
  <2>1. Encode(p)[6] = head[6] /\ Encode(p)[7] = head[7]
    BY <1>7
  <2>2. (Len(p.data) % 256) + 256 * (Len(p.data) \div 256) = Len(p.data)
    BY <1>1, <1>2
  <2> QED
    BY <1>5, <2>1, <2>2, Zenon
<1>10. Len(Encode(p)) = Size(p) /\ Size(p) \in Nat /\ Size(p) = HEADER_SIZE + Len(p.data)
  <2>1. \A l \in Nat : HEADER_SIZE + l \in Nat
    BY DEF HEADER_SIZE
  <2> QED
    BY <1>1, <2>1, EncodeType, Zenon DEF Size
<1> QED
  BY <1>1, <1>5, <1>7, <1>8, <1>9, <1>10

LEMMA TakenType ==
  ASSUME TypeOK
  PROVE  /\ Len(sent) \in Nat /\ Taken \in Nat
         /\ Len(delivered) \in Nat /\ dropped \in Nat /\ Len(packet_list) \in Nat
<1>1. /\ Len(sent) \in Nat /\ Len(delivered) \in Nat /\ dropped \in Nat
      /\ Len(packet_list) \in Nat
  BY DEF TypeOK, HistoryType, ReceiverType
<1> QED
  BY <1>1 DEF Taken

\* Sizes and places that the other lemmas use.
LEMMA Places ==
  ASSUME TypeOK, StreamOfPackets, Taken <= Len(sent)
  PROVE  /\ Taken \in Nat /\ Len(sent) \in Nat /\ Base \in Nat
         /\ Len(stream) \in Nat /\ rpos \in Nat /\ rpos <= Len(stream)
         /\ Taken = Len(sent) => Base = Len(stream)
         /\ Taken < Len(sent) =>
              /\ sent[Taken + 1] \in Packets
              /\ starts[Taken + 2] = Base + Size(sent[Taken + 1])
              /\ starts[Taken + 2] <= Len(stream)
              /\ \A i \in 1..Size(sent[Taken + 1]) :
                    stream[Base + i] = Encode(sent[Taken + 1])[i]
<1>1. /\ sent \in Seq(Packets) /\ Len(sent) \in Nat /\ starts \in Seq(Nat)
      /\ Len(starts) = Len(sent) + 1
      /\ delivered \in Seq(ReceivedPackets) /\ dropped \in Nat
      /\ packet_list \in Seq(ReceivedPackets)
  BY DEF TypeOK, HistoryType, ReceiverType
<1>2. Taken \in Nat
  BY <1>1 DEF Taken
<1>3. Base \in Nat
  BY <1>1, <1>2 DEF Base
<1>4. /\ Len(stream) \in Nat /\ rpos \in Nat /\ rpos <= Len(stream)
  BY DEF TypeOK, ChipType
<1>5. Taken = Len(sent) => Base = Len(stream)
  BY DEF Base, StreamOfPackets
<1>6. ASSUME Taken < Len(sent)
      PROVE  /\ sent[Taken + 1] \in Packets
             /\ starts[Taken + 2] = Base + Size(sent[Taken + 1])
             /\ starts[Taken + 2] <= Len(stream)
             /\ \A i \in 1..Size(sent[Taken + 1]) :
                   stream[Base + i] = Encode(sent[Taken + 1])[i]
  <2>1. Taken + 1 \in 1..Len(sent) /\ (Taken + 1) + 1 = Taken + 2
    BY <1>1, <1>2, <1>6
  <2>2. /\ starts[(Taken + 1) + 1] = starts[Taken + 1] + Size(sent[Taken + 1])
        /\ starts[(Taken + 1) + 1] <= Len(stream)
        /\ \A i \in 1..Size(sent[Taken + 1]) :
              stream[starts[Taken + 1] + i] = Encode(sent[Taken + 1])[i]
    BY <2>1, Zenon DEF StreamOfPackets
  <2>3. sent[Taken + 1] \in Packets
    BY <1>1, <2>1
  <2> QED
    BY <2>1, <2>2, <2>3, Zenon DEF Base
<1> QED
  BY <1>1, <1>2, <1>3, <1>4, <1>5, <1>6

LEMMA StreamPreserved ==
  ASSUME TypeOK, StreamOfPackets, Next
  PROVE  StreamOfPackets'
<1>1. CASE UNCHANGED <<stream, sent, starts>>
  BY <1>1, Zenon DEF StreamOfPackets
<1>2. CASE Established
  <2>1. stream' = << >> /\ sent' = << >> /\ starts' = <<0>>
    BY <1>2 DEF Established
  <2>2. Len(<< >>) = 0 /\ <<0>>[1] = 0 /\ 1..0 = {}
    OBVIOUS
  <2> QED
    BY <2>1, <2>2 DEF StreamOfPackets
<1>3. ASSUME NEW p \in Packets, PeerSend(p)
      PROVE  StreamOfPackets'
  <2> DEFINE e == Len(stream) + HEADER_SIZE + Len(p.data)
             l == Len(sent)
  <2>1. /\ stream' = stream \o Encode(p) /\ sent' = Append(sent, p)
        /\ starts' = Append(starts, e)
    BY <1>3 DEF PeerSend
  <2>2. /\ sent \in Seq(Packets) /\ l \in Nat /\ starts \in Seq(Nat)
        /\ Len(starts) = l + 1 /\ stream \in Seq(Byte) /\ Len(stream) \in Nat
    BY DEF TypeOK, HistoryType, ChipType
  <2>3. /\ Size(p) \in Nat /\ Len(Encode(p)) = Size(p) /\ Encode(p) \in Seq(Byte)
    BY EncodeFields, EncodeType
  <2>4. e = Len(stream) + Size(p) /\ e \in Nat
    <3>1. Len(p.data) \in Nat /\ Size(p) = HEADER_SIZE + Len(p.data)
      BY EncodeFields
    <3>2. \A a, b \in Nat : a + HEADER_SIZE + b = a + (HEADER_SIZE + b)
                            /\ a + HEADER_SIZE + b \in Nat
      BY DEF HEADER_SIZE
    <3> QED
      BY <2>2, <3>1, <3>2, Zenon
  <2> HIDE DEF e
  <2>5. /\ Len(sent') = l + 1
        /\ \A k \in 1..l : sent'[k] = sent[k]
        /\ sent'[l + 1] = p
    BY <2>1, <2>2
  <2>6. /\ \A k \in 1..l + 1 : starts'[k] = starts[k]
        /\ starts'[l + 2] = e
    BY <2>1, <2>2, <2>4
  <2>7. /\ Len(stream') = Len(stream) + Len(Encode(p))
        /\ \A i \in 1..Len(stream) : stream'[i] = stream[i]
        /\ \A i \in 1..Len(Encode(p)) : stream'[Len(stream) + i] = Encode(p)[i]
    <3>1. stream \in Seq(Byte) /\ Encode(p) \in Seq(Byte) /\ stream' = stream \o Encode(p)
      BY <2>1, <2>2, <2>3
    <3> QED
      BY <3>1, Concatenation
  <2>8. Len(stream') = e
    BY <2>3, <2>4, <2>7
  <2> HIDE DEF l
  <2>9. starts[1] = 0 /\ starts[l + 1] = Len(stream)
    BY DEF StreamOfPackets, l
  <2>10. starts'[1] = 0 /\ starts'[Len(sent') + 1] = Len(stream')
    BY <2>2, <2>5, <2>6, <2>8, <2>9
  <2>11. ASSUME NEW k \in 1..Len(sent')
         PROVE  /\ starts'[k + 1] = starts'[k] + Size(sent'[k])
                /\ starts'[k + 1] <= Len(stream')
                /\ \A i \in 1..Size(sent'[k]) :
                      stream'[starts'[k] + i] = Encode(sent'[k])[i]
    <3>1. CASE k \in 1..l
      <4>1. /\ starts[k + 1] = starts[k] + Size(sent[k])
            /\ starts[k + 1] <= Len(stream)
            /\ \A i \in 1..Size(sent[k]) : stream[starts[k] + i] = Encode(sent[k])[i]
        BY <3>1 DEF StreamOfPackets, l
      <4>2. starts[k] \in Nat /\ starts[k + 1] \in Nat /\ sent[k] \in Packets
        BY <2>2, <3>1 DEF l
      <4>3. Size(sent[k]) \in Nat
        BY <4>2, EncodeFields
      <4>4. starts'[k] = starts[k] /\ starts'[k + 1] = starts[k + 1] /\ sent'[k] = sent[k]
        BY <2>2, <2>5, <2>6, <3>1
      <4>5. starts[k + 1] <= Len(stream')
        BY <2>2, <2>3, <2>4, <2>8, <4>1, <4>2
      <4>6. ASSUME NEW i \in 1..Size(sent[k])
            PROVE  stream'[starts[k] + i] = Encode(sent[k])[i]
        <5>1. \A a, s, b \in Nat : \A j \in 1..s : a + s <= b => a + j \in 1..b
          OBVIOUS
        <5>2. starts[k] + Size(sent[k]) <= Len(stream)
          BY <4>1
        <5>3. starts[k] + i \in 1..Len(stream)
          BY <2>2, <4>2, <4>3, <5>1, <5>2
        <5> QED
          BY <2>7, <4>1, <5>3, Zenon
      <4> QED
        BY <4>1, <4>4, <4>5, <4>6, Zenon
    <3>2. CASE k = l + 1
      <4>1. /\ starts'[k] = Len(stream) /\ starts'[k + 1] = e /\ sent'[k] = p
        BY <2>2, <2>5, <2>6, <2>9, <3>2
      <4>2. e <= Len(stream') /\ e = Len(stream) + Size(p)
        BY <2>4, <2>8
      <4>3. \A i \in 1..Size(p) : stream'[Len(stream) + i] = Encode(p)[i]
        BY <2>3, <2>7, Zenon
      <4> QED
        BY <4>1, <4>2, <4>3, Zenon
    <3> QED
      BY <2>2, <2>5, <3>1, <3>2
  <2> QED
    BY <2>10, <2>11, Zenon DEF StreamOfPackets
<1>4. \/ UNCHANGED <<stream, sent, starts>> \/ Established
      \/ \E p \in Packets : PeerSend(p)
  BY DEF Next, Firmware, Receive, Environment, SetDhcpIp, PollSocket, ReceiveData,
     ReceivePartOfHeader, AcceptHeader, RejectHeader, Resynchronise,
     ReceiveRestOfHeader, Eat, ReceiveError, EatError, EatDone, ClientCloseWait,
     ClientClosed, ClientInit, ClientOther, ProcessPacket, Arrive,
     PeerClose, SocketCloses, ChipReset, Undefined, vars, history, chip, recv,
     recv_error
<1> QED
  BY <1>1, <1>2, <1>3, <1>4

LEMMA ControlPreserved ==
  ASSUME TypeOK, Control, Next
  PROVE  Control'
<1>1. /\ recv_mode \in {"HEADER", "DATA"} /\ packet_list \in Seq(ReceivedPackets)
  BY DEF TypeOK, ReceiverType
<1>2. CASE SetDhcpIp \/ PollSocket
  BY <1>2 DEF SetDhcpIp, PollSocket, Control, receiver, chip
<1>3. ASSUME NEW n \in 0..Len(stream), ReceiveData(n) \/ AcceptHeader(n)
      PROVE  Control'
  <2>1. /\ pc = "client" /\ packet_list = << >>
        /\ sr \in {"ESTABLISHED", "CLOSE_WAIT"} /\ sr' = sr
    BY <1>3 DEF ReceiveData, AcceptHeader, ReceiveRestOfHeader, Receiving, recv, Control
  <2>2. \/ pc' = "handler" /\ UNCHANGED packet_list
        \/ \E p : PacketReceived(p)
    BY <1>3 DEF ReceiveData, AcceptHeader
  <2>3. CASE pc' = "handler" /\ UNCHANGED packet_list
    BY <2>1, <2>3 DEF Control
  <2>4. CASE \E p : PacketReceived(p)
    <3>1. \A e : Len(Append(<< >>, e)) = 1
      OBVIOUS
    <3>2. pc' = "process" /\ Len(packet_list') = 1
      BY <2>1, <2>4, <3>1 DEF PacketReceived
    <3> QED
      BY <2>1, <3>2 DEF Control
  <2> QED
    BY <2>2, <2>3, <2>4
<1>4. ASSUME NEW n \in 0..Len(stream),
             \/ ReceivePartOfHeader(n) \/ RejectHeader(n) \/ Resynchronise(n)
      PROVE  Control'
  BY <1>4 DEF ReceivePartOfHeader, RejectHeader, Resynchronise,
              ReceiveRestOfHeader, Receiving, recv, Control
<1>5. ASSUME NEW n \in 0..Len(stream), Eat(n)
      PROVE  Control'
  BY <1>5 DEF Eat, recv, Control
<1>6. CASE ReceiveError \/ EatError \/ EatDone
  BY <1>6 DEF ReceiveError, EatError, EatDone, recv_error, Control, receiver, chip
<1>7. CASE ClientCloseWait \/ ClientClosed \/ ClientInit \/ ClientOther
  BY <1>7 DEF ClientCloseWait, ClientClosed, ClientInit, ClientOther, ClientDone,
              Control, receiver, chip
<1>8. CASE ProcessPacket
  <2>1. /\ pc = "process" /\ pc' = "handler" /\ Len(packet_list) = 1
        /\ UNCHANGED <<sr, state, recv_mode>>
    BY <1>8 DEF ProcessPacket, Control, chip
  <2>2. \A s \in Seq(ReceivedPackets) : Len(s) = 1 => Tail(s) = << >> /\ s # << >>
    BY OnlyOne
  <2>3. packet_list' = << >>
    BY <1>1, <1>8, <2>1, <2>2 DEF ProcessPacket
  <2> QED
    BY <2>1, <2>3 DEF Control
<1>9. CASE Environment
  BY <1>9 DEF Environment, Established, PeerSend, Arrive, PeerClose, SocketCloses,
              ChipReset, Loop, receiver, Control
<1>10. CASE Undefined
  BY <1>10 DEF Undefined, vars, chip, receiver, Control
<1> QED
  BY <1>2, <1>3, <1>4, <1>5, <1>6, <1>7, <1>8, <1>9, <1>10
     DEF Next, Firmware, Receive

\* A step that leaves the receiver and its history alone keeps it in step.
LEMMA InStepUnchanged ==
  ASSUME TypeOK, StreamOfPackets, InStep,
         UNCHANGED <<stream, rpos, receiver, history>>,
         pc' = "eat" <=> pc = "eat", pc' = "undefined" => pc = "undefined"
  PROVE  InStep'
<1>1. /\ UNCHANGED <<stream, rpos, header, received_size, recv_mode, packet, remain,
                     packet_list, sent, starts, delivered, dropped, aligned>>
  BY DEF receiver, history
<1>2. Taken' = Taken /\ Base' = Base
  BY <1>1 DEF Taken, Base
<1>3. (InHeader' <=> InHeader) /\ (InData' <=> InData) /\ (InEat' <=> InEat)
  BY <1>1, <1>2, Zenon DEF InHeader, InData, InEat
<1> QED
  BY <1>1, <1>2, <1>3, Zenon DEF InStep

\* A new connection.
LEMMA InStepEstablished ==
  ASSUME TypeOK, Control, Established
  PROVE  InStep'
<1>1. /\ sr = "SYNSENT" /\ stream' = << >> /\ rpos' = 0
      /\ sent' = << >> /\ starts' = <<0>> /\ delivered' = << >> /\ dropped' = 0
      /\ aligned' = (received_size = 0 /\ recv_mode = "HEADER")
      /\ UNCHANGED <<pc, received_size, recv_mode, packet_list>>
  BY DEF Established, Loop, receiver
<1>2. /\ pc \in {"handler", "client"} /\ packet_list = << >>
  BY <1>1 DEF Control
<1>3. Len(<< >>) = 0 /\ <<0>>[1] = 0
  OBVIOUS
<1>4. Taken' = 0
  BY <1>1, <1>2, <1>3 DEF Taken
<1>5. Base' = 0
  BY <1>1, <1>3, <1>4 DEF Base
<1> SUFFICES ASSUME aligned' PROVE InStep'
  BY Zenon DEF InStep
<1>6. received_size' = 0 /\ recv_mode' = "HEADER"
  BY <1>1
<1>7. InHeader'
  BY <1>1, <1>5, <1>6 DEF InHeader, HEADER_SIZE
<1>8. pc' \in {"handler", "client"} /\ packet_list' = << >> /\ Taken' <= Len(sent')
  BY <1>1, <1>2, <1>3, <1>4
<1> QED
  BY <1>6, <1>7, <1>8 DEF InStep

\* The peer sends one more packet.
LEMMA InStepSend ==
  ASSUME TypeOK, StreamOfPackets, Control, InStep, NEW p \in Packets, PeerSend(p)
  PROVE  InStep'
<1> DEFINE e == Len(stream) + HEADER_SIZE + Len(p.data)
<1>1. /\ stream' = stream \o Encode(p) /\ sent' = Append(sent, p)
      /\ starts' = Append(starts, e)
      /\ UNCHANGED <<rpos, pc, header, received_size, recv_mode, packet, remain,
                     packet_list, delivered, dropped, aligned>>
  BY DEF PeerSend, Loop, receiver
<1> HIDE DEF e
<1> SUFFICES ASSUME aligned PROVE InStep'
  BY <1>1, Zenon DEF InStep
<1>2. Taken <= Len(sent) /\ Taken' = Taken
  BY <1>1 DEF InStep, Taken
<1>3. /\ sent \in Seq(Packets) /\ starts \in Seq(Nat) /\ Len(starts) = Len(sent) + 1
      /\ stream \in Seq(Byte) /\ Len(sent) \in Nat
      /\ received_size \in Nat
  BY DEF TypeOK, HistoryType, ChipType, ReceiverType
<1>4. /\ Taken \in Nat /\ Base \in Nat /\ rpos \in Nat /\ rpos <= Len(stream)
      /\ Len(stream) \in Nat
  BY <1>2, Places
<1>5. /\ \A k \in 1..Len(sent) : sent'[k] = sent[k]
      /\ Len(sent') = Len(sent) + 1
  BY <1>1, <1>3
<1>6. \A k \in 1..Len(sent) + 1 : starts'[k] = starts[k]
  BY <1>1, <1>3
<1>7. Base' = Base
  BY <1>2, <1>3, <1>4, <1>6 DEF Base
<1>8. \A i \in 1..Len(stream) : stream'[i] = stream[i]
  <2>1. Encode(p) \in Seq(Byte)
    BY EncodeType
  <2> QED
    BY <1>1, <1>3, <2>1, Concatenation
<1>9. Taken' <= Len(sent')
  BY <1>2, <1>3, <1>4, <1>5
<1>10. ASSUME packet_list' # << >> PROVE packet_list' = <<sent'[Taken']>>
  <2>1. packet_list = <<sent[Taken]>>
    BY <1>1, <1>10 DEF InStep
  <2>2. Taken \in 1..Len(sent)
    <3>1. Len(packet_list) = 1
      BY <1>1, <1>10 DEF Control
    <3>2. Len(delivered) \in Nat /\ dropped \in Nat
      BY DEF TypeOK, HistoryType
    <3> QED
      BY <1>2, <1>3, <3>1, <3>2 DEF Taken
  <2> QED
    BY <1>1, <1>2, <1>5, <2>1, <2>2
<1>11. ASSUME pc' # "eat", recv_mode' = "HEADER" PROVE InHeader'
  <2>1. InHeader
    BY <1>1, <1>11 DEF InStep
  <2>2. \A i \in 1..received_size : Base + i \in 1..Len(stream)
    BY <1>3, <1>4, <2>1 DEF InHeader
  <2>3. \A i \in 1..received_size : header[i] = stream'[Base + i]
    BY <1>8, <2>1, <2>2, Zenon DEF InHeader
  <2> QED
    BY <1>1, <1>7, <2>1, <2>3, Zenon DEF InHeader
<1>12. Taken < Len(sent) => /\ sent'[Taken + 1] = sent[Taken + 1]
                            /\ starts'[Taken + 2] = starts[Taken + 2]
                            /\ Taken < Len(sent')
  <2>1. ASSUME Taken < Len(sent)
        PROVE  /\ Taken + 1 \in 1..Len(sent) /\ Taken + 2 \in 1..Len(sent) + 1
               /\ Taken < Len(sent')
    BY <1>3, <1>4, <1>5, <2>1
  <2> QED
    BY <1>5, <1>6, <2>1, Zenon
<1>13. ASSUME recv_mode' = "DATA" PROVE InData'
  <2>1. InData
    BY <1>1, <1>13 DEF InStep
  <2> QED
    BY <1>1, <1>2, <1>7, <1>12, <2>1, Zenon DEF InData
<1>14. ASSUME pc' = "eat" PROVE InEat'
  <2>1. InEat
    BY <1>1, <1>14 DEF InStep
  <2> QED
    BY <1>1, <1>2, <1>12, <2>1, Zenon DEF InEat
<1>15. pc' # "undefined"
  BY <1>1 DEF InStep
<1> QED
  BY <1>9, <1>10, <1>11, <1>13, <1>14, <1>15, Zenon DEF InStep

(***************************************************************************)
(* The packet being received, while the receiver is in step.  In particular*)
(* eight bytes are only ever read when there is such a packet, and they    *)
(* are its header.                                                         *)
(***************************************************************************)

\* The bytes read next, in terms of the packet they belong to.
LEMMA NextBytes ==
  ASSUME TypeOK, StreamOfPackets, Taken < Len(sent), NEW n \in Nat,
         rpos + n <= arrived, NEW k \in Nat, rpos = Base + k,
         k + n <= Size(sent[Taken + 1])
  PROVE  \A i \in 1..n : /\ stream[rpos + i] = Encode(sent[Taken + 1])[k + i]
                         /\ Chunk(n)[i] = Encode(sent[Taken + 1])[k + i]
<1> DEFINE p == sent[Taken + 1]
<1>1. Len(sent) \in Nat /\ Taken <= Len(sent)
  <2>1. Len(sent) \in Nat /\ Taken \in Nat
    BY TakenType
  <2> QED
    BY <2>1
<1>2. /\ Base \in Nat /\ p \in Packets
      /\ \A i \in 1..Size(p) : stream[Base + i] = Encode(p)[i]
  BY <1>1, Places
<1>3. Size(p) \in Nat /\ k + n <= Size(p)
  BY <1>2, EncodeFields
<1> HIDE DEF p
<1>4. ASSUME NEW i \in 1..n
      PROVE  k + i \in 1..Size(p) /\ rpos + i = Base + (k + i)
  BY <1>2, <1>3
<1>5. \A i \in 1..n : stream[rpos + i] = Encode(p)[k + i]
  BY <1>2, <1>4, Zenon
<1>6. \A i \in 1..n : Chunk(n)[i] = stream[rpos + i]
  BY ReadBytes DEF TypeOK
<1> QED
  BY <1>5, <1>6, Zenon DEF p

\* What FilledHeader(n) holds, while the receiver is in step.
LEMMA HeaderBytes ==
  ASSUME TypeOK, StreamOfPackets, Taken <= Len(sent), InHeader, NEW n \in Nat,
         rpos + n <= arrived, received_size + n <= HEADER_SIZE
  PROVE  \A i \in 1..received_size + n : FilledHeader(n)[i] = stream[Base + i]
<1>1. received_size \in Nat /\ rpos \in Nat /\ Base \in Nat /\ rpos = Base + received_size
  BY Places DEF TypeOK, ReceiverType, InHeader
<1>2. ASSUME NEW i \in 1..received_size + n
      PROVE  FilledHeader(n)[i] = stream[Base + i]
  <2>1. i \in 1..HEADER_SIZE
    BY <1>1, <1>2 DEF HEADER_SIZE
  <2>2. CASE i \in received_size + 1 .. received_size + n
    <3>1. rpos + i - received_size = Base + i
      BY <1>1, <2>1, <1>2
    <3> QED
      BY <2>1, <2>2, <3>1, Zenon DEF FilledHeader
  <2>3. CASE i \notin received_size + 1 .. received_size + n
    <3>1. i \in 1..received_size
      BY <1>1, <1>2, <2>3
    <3> QED
      BY <2>1, <2>3, <3>1, Zenon DEF FilledHeader, InHeader
  <2> QED
    BY <2>2, <2>3
<1> QED
  BY <1>2

\* Eight bytes in step are the header of the next packet.
LEMMA WholeHeader ==
  ASSUME TypeOK, StreamOfPackets, Taken <= Len(sent), InHeader, NEW n \in Nat,
         rpos + n <= arrived, received_size + n = HEADER_SIZE
  PROVE  /\ Taken < Len(sent)
         /\ is_tcp_packet3_header(FilledHeader(n))
         /\ get_tcp_packet3_header_data_size(FilledHeader(n))
              = Len(sent[Taken + 1].data)
         /\ FilledHeader(n)[4] = sent[Taken + 1].flag
         /\ FilledHeader(n)[5] = sent[Taken + 1].type
<1> DEFINE p == sent[Taken + 1]
           h == FilledHeader(n)
<1>1. /\ Taken \in Nat /\ Len(sent) \in Nat /\ Base \in Nat /\ Len(stream) \in Nat
      /\ rpos = Base + received_size /\ received_size < HEADER_SIZE
      /\ arrived <= Len(stream) /\ received_size \in Nat /\ arrived \in Nat
  BY Places DEF InHeader, TypeOK, ChipType, ReceiverType
<1>2. Base # Len(stream)
  BY <1>1 DEF HEADER_SIZE
<1>3. Taken < Len(sent)
  BY <1>1, <1>2, Places
<1>4. /\ p \in Packets
      /\ \A i \in 1..Size(p) : stream[Base + i] = Encode(p)[i]
  BY <1>3, Places
<1>5. \A i \in 1..8 : h[i] = stream[Base + i]
  <2>1. received_size + n <= HEADER_SIZE
    BY <1>1 DEF HEADER_SIZE
  <2>2. \A i \in 1..received_size + n : h[i] = stream[Base + i]
    BY <2>1, HeaderBytes
  <2> QED
    BY <2>2, Zenon DEF HEADER_SIZE
<1> HIDE DEF h, p
<1>6. \A i \in 1..8 : i \in 1..Size(p)
  BY <1>4, EncodeFields DEF HEADER_SIZE
<1>7. \A i \in 1..8 : h[i] = Encode(p)[i]
  BY <1>4, <1>5, <1>6, Zenon
<1>8. /\ h[1] = Encode(p)[1] /\ h[2] = Encode(p)[2] /\ h[8] = Encode(p)[8]
      /\ h[4] = Encode(p)[4] /\ h[5] = Encode(p)[5]
      /\ h[6] = Encode(p)[6] /\ h[7] = Encode(p)[7]
  BY <1>7
<1>9. is_tcp_packet3_header(h)
  BY <1>4, <1>8, EncodeFields, Zenon DEF is_tcp_packet3_header
<1>10. get_tcp_packet3_header_data_size(h) = Len(p.data)
  BY <1>4, <1>8, EncodeFields, Zenon DEF get_tcp_packet3_header_data_size
<1>11. h[4] = p.flag /\ h[5] = p.type
  BY <1>4, <1>8, EncodeFields, Zenon
<1> QED
  BY <1>3, <1>9, <1>10, <1>11 DEF h, p

\* Part of a header.
LEMMA InStepPartOfHeader ==
  ASSUME Invariant, NEW n \in 0..Len(stream), ReceivePartOfHeader(n)
  PROVE  InStep'
<1>1. /\ n \in Nat /\ rpos + n <= arrived /\ rpos' = rpos + n
      /\ received_size + n <= HEADER_SIZE /\ UNCHANGED stream
  BY ReadStep DEF Invariant
<1>2. /\ pc = "client" /\ recv_mode = "HEADER" /\ received_size + n < HEADER_SIZE
      /\ header' = FilledHeader(n) /\ received_size' = received_size + n
      /\ pc' = "handler"
      /\ UNCHANGED <<recv_mode, packet_list, sent, starts, delivered, dropped, aligned>>
  BY DEF ReceivePartOfHeader, Receiving, history
<1> SUFFICES ASSUME aligned PROVE InStep'
  BY <1>2, Zenon DEF InStep
<1>3. /\ InHeader /\ Taken <= Len(sent)
      /\ packet_list # << >> => packet_list = <<sent[Taken]>>
  BY <1>2 DEF Invariant, InStep
<1>4. Taken' = Taken /\ Base' = Base
  BY <1>2 DEF Taken, Base
<1>5. received_size \in Nat /\ rpos \in Nat /\ Base \in Nat
  BY <1>3, Places DEF Invariant, TypeOK, ReceiverType
<1>6. \A i \in 1..received_size + n : FilledHeader(n)[i] = stream[Base + i]
  BY <1>1, <1>3, HeaderBytes DEF Invariant
<1>7. rpos' = Base' + received_size'
  BY <1>1, <1>2, <1>3, <1>4, <1>5 DEF InHeader
<1>8. InHeader'
  BY <1>1, <1>2, <1>4, <1>6, <1>7, Zenon DEF InHeader
<1> QED
  BY <1>2, <1>3, <1>4, <1>8 DEF InStep

\* A whole header is never anything else than the header of the next packet.
LEMMA NeverResynchronises ==
  ASSUME Invariant, aligned, NEW n \in 0..Len(stream), ReceiveRestOfHeader(n)
  PROVE  /\ InHeader /\ n \in Nat /\ rpos' = rpos + n
         /\ received_size + n = HEADER_SIZE
         /\ rpos' = Base + HEADER_SIZE
         /\ Taken < Len(sent) /\ packet_list = << >>
         /\ is_tcp_packet3_header(FilledHeader(n))
         /\ get_tcp_packet3_header_data_size(FilledHeader(n))
              = Len(sent[Taken + 1].data)
         /\ FilledHeader(n)[4] = sent[Taken + 1].flag
         /\ FilledHeader(n)[5] = sent[Taken + 1].type
<1>1. /\ n \in Nat /\ rpos + n <= arrived /\ rpos' = rpos + n
      /\ received_size + n <= HEADER_SIZE
  BY ReadStep DEF Invariant
<1>2. pc = "client" /\ recv_mode = "HEADER" /\ received_size + n >= HEADER_SIZE
  BY DEF ReceiveRestOfHeader, Receiving
<1>3. InHeader /\ Taken <= Len(sent) /\ packet_list = << >>
  BY <1>2 DEF Invariant, InStep, Control
<1>4. received_size \in Nat
  BY DEF Invariant, TypeOK, ReceiverType
<1>5. received_size + n = HEADER_SIZE
  BY <1>1, <1>2, <1>4 DEF HEADER_SIZE
<1>6. rpos \in Nat /\ Base \in Nat
  BY <1>3, Places DEF Invariant
<1>7. rpos' = Base + HEADER_SIZE
  BY <1>1, <1>3, <1>4, <1>5, <1>6 DEF InHeader, HEADER_SIZE
<1>8. /\ Taken < Len(sent)
      /\ is_tcp_packet3_header(FilledHeader(n))
      /\ get_tcp_packet3_header_data_size(FilledHeader(n))
           = Len(sent[Taken + 1].data)
      /\ FilledHeader(n)[4] = sent[Taken + 1].flag
      /\ FilledHeader(n)[5] = sent[Taken + 1].type
  BY <1>1, <1>3, <1>5, WholeHeader DEF Invariant
<1> QED
  BY <1>1, <1>3, <1>5, <1>7, <1>8

\* Places after one packet more has been taken.
LEMMA OneMoreTaken ==
  ASSUME TypeOK, StreamOfPackets, Taken < Len(sent), Taken' = Taken + 1,
         UNCHANGED <<sent, starts>>
  PROVE  /\ Taken' <= Len(sent') /\ Base' = starts[Taken + 2]
         /\ Base' = Base + Size(sent[Taken + 1]) /\ sent'[Taken'] = sent[Taken + 1]
<1>1. Len(sent) \in Nat /\ Taken \in Nat
  BY TakenType
<1>2. Taken <= Len(sent) /\ Taken' <= Len(sent') /\ Taken' + 1 = Taken + 2
  BY <1>1
<1>3. starts[Taken + 2] = Base + Size(sent[Taken + 1])
  BY <1>2, Places
<1> QED
  BY <1>2, <1>3 DEF Base

LEMMA InStepAcceptHeader ==
  ASSUME Invariant, NEW n \in 0..Len(stream), AcceptHeader(n)
  PROVE  InStep'
<1> DEFINE h == FilledHeader(n)
           size == get_tcp_packet3_header_data_size(h)
           p == [flag |-> h[4], type |-> h[5], data_size |-> size, data |-> << >>]
           q == sent[Taken + 1]
<1>1. /\ ReceiveRestOfHeader(n) /\ header' = NoHeader /\ received_size' = 0
      /\ UNCHANGED <<stream, sent, starts, delivered, dropped, aligned>>
  BY DEF AcceptHeader, clear_header, ReceiveRestOfHeader, recv, history
<1> SUFFICES ASSUME aligned PROVE InStep'
  BY <1>1, Zenon DEF InStep
<1>2. /\ rpos' = Base + HEADER_SIZE /\ Taken < Len(sent) /\ packet_list = << >>
      /\ size = Len(q.data) /\ h[4] = q.flag /\ h[5] = q.type
  BY <1>1, NeverResynchronises
<1>3. recv_mode = "HEADER"
  BY <1>1 DEF ReceiveRestOfHeader, Receiving
<1>4. Taken \in Nat /\ Len(sent) \in Nat /\ Base \in Nat /\ q \in Packets
  <2>1. Taken <= Len(sent)
    BY DEF Invariant, InStep
  <2> QED
    BY <1>2, <2>1, Places DEF Invariant
<1>5. Len(q.data) \in Nat /\ Size(q) = HEADER_SIZE + Len(q.data) /\ q.data \in Seq(Byte)
  BY <1>4, EncodeFields, EncodeType
<1> HIDE DEF h, size, q
<1>6. CASE size > 0
  <2>1. packet' = p /\ recv_mode' = "DATA" /\ pc' = "handler" /\ UNCHANGED packet_list
    BY <1>6 DEF AcceptHeader, h, size
  <2>2. Taken' = Taken /\ Base' = Base
    BY <1>1, <2>1 DEF Taken, Base
  <2>3. rpos' = Base' + HEADER_SIZE + received_size'
    BY <1>1, <1>2, <1>4, <2>2 DEF HEADER_SIZE
  <2>4. SubSeq(q.data, 1, 0) = << >>
    BY <1>5
  <2>5. packet' = [flag |-> q.flag, type |-> q.type, data_size |-> Len(q.data),
                   data |-> SubSeq(q.data, 1, received_size')]
    BY <1>1, <1>2, <2>1, <2>4
  <2>6. InData'
    <3>1. q' = q /\ q' = (sent[Taken + 1])'
      BY <1>1, <2>2 DEF q
    <3>2. Taken' < Len(sent') /\ received_size' < Len(q.data)
      BY <1>1, <1>2, <1>6, <2>2
    <3> QED
      BY <1>1, <2>2, <2>3, <2>5, <3>2, Zenon DEF InData, q
  <2> QED
    BY <1>1, <1>2, <1>4, <2>1, <2>2, <2>6 DEF InStep
<1>7. CASE ~(size > 0)
  <2>1. PacketReceived(p) /\ UNCHANGED recv_mode
    BY <1>7 DEF AcceptHeader, h, size
  <2>2. pc' = "process" /\ packet_list' = Append(<< >>, [flag |-> h[4], type |-> h[5], data |-> << >>])
    BY <1>2, <2>1 DEF PacketReceived
  <2>3. Len(q.data) = 0
    BY <1>2, <1>5, <1>7
  <2>4. q = [flag |-> h[4], type |-> h[5], data |-> << >>]
    <3>1. q = [flag |-> q.flag, type |-> q.type, data |-> q.data]
      BY <1>4, PacketsAssumption
    <3>2. q.data = << >>
      BY <1>5, <2>3
    <3> QED
      BY <1>2, <3>1, <3>2
  <2>5. packet_list' = <<q>>
    <3>1. \A x : Append(<< >>, x) = <<x>>
      OBVIOUS
    <3> QED
      BY <2>2, <2>4, <3>1, Zenon
  <2>6. Len(packet_list') = Len(packet_list) + 1
    <3>1. \A x : Len(<<x>>) = Len(<< >>) + 1
      OBVIOUS
    <3> QED
      BY <1>2, <2>5, <3>1, Zenon
  <2>7. Taken' = Taken + 1
    <3>1. Len(delivered) \in Nat /\ dropped \in Nat /\ Len(packet_list) \in Nat
      BY DEF Invariant, TypeOK, HistoryType, ReceiverType
    <3> QED
      BY <1>1, <2>6, <3>1 DEF Taken
  <2>8. /\ Taken' <= Len(sent') /\ sent'[Taken'] = q /\ Base' = Base + Size(q)
    BY <1>1, <1>2, <2>7, OneMoreTaken DEF Invariant, q
  <2>9. rpos' = Base' + received_size'
    BY <1>1, <1>2, <1>4, <1>5, <2>3, <2>8 DEF HEADER_SIZE
  <2>10. InHeader'
    BY <1>1, <2>9 DEF InHeader, HEADER_SIZE
  <2> QED
    BY <1>3, <2>1, <2>2, <2>5, <2>8, <2>10, Zenon DEF InStep
<1> QED
  BY <1>6, <1>7

LEMMA InStepRejectHeader ==
  ASSUME Invariant, NEW n \in 0..Len(stream), RejectHeader(n)
  PROVE  InStep'
<1>1. /\ ReceiveRestOfHeader(n) /\ pc' = "eat"
      /\ remain' = get_tcp_packet3_header_data_size(FilledHeader(n))
      /\ UNCHANGED <<stream, recv_mode, packet_list, sent, starts, delivered,
                     dropped, aligned>>
  BY DEF RejectHeader, ReceiveRestOfHeader, recv, history
<1> SUFFICES ASSUME aligned PROVE InStep'
  BY <1>1, Zenon DEF InStep
<1>2. /\ rpos' = Base + HEADER_SIZE /\ Taken < Len(sent) /\ packet_list = << >>
      /\ remain' = Len(sent[Taken + 1].data)
  BY <1>1, NeverResynchronises
<1>3. /\ Taken <= Len(sent) /\ Taken' = Taken
  BY <1>1 DEF Invariant, InStep, Taken
<1>4. /\ Base \in Nat /\ sent[Taken + 1] \in Packets
      /\ starts[Taken + 2] = Base + Size(sent[Taken + 1])
  BY <1>2, <1>3, Places DEF Invariant
<1>5. /\ Len(sent[Taken + 1].data) \in Nat
      /\ Size(sent[Taken + 1]) = HEADER_SIZE + Len(sent[Taken + 1].data)
  BY <1>4, EncodeFields
<1>6. rpos' + remain' = starts[Taken + 2]
  <2>1. \A a, l \in Nat : (a + HEADER_SIZE) + l = a + (HEADER_SIZE + l)
    BY DEF HEADER_SIZE
  <2> QED
    BY <1>2, <1>4, <1>5, <2>1, Zenon
<1>7. InEat'
  BY <1>1, <1>2, <1>3, <1>6 DEF InEat
<1>8. recv_mode = "HEADER"
  BY <1>1 DEF ReceiveRestOfHeader, Receiving
<1> QED
  BY <1>1, <1>2, <1>3, <1>7, <1>8 DEF InStep

LEMMA InStepReceiveData ==
  ASSUME Invariant, NEW n \in 0..Len(stream), ReceiveData(n)
  PROVE  InStep'
<1> DEFINE p == [packet EXCEPT !.data = @ \o Chunk(n)]
           q == sent[Taken + 1]
           full == SubSeq(q.data, 1, received_size + n)
<1>1. /\ n \in Nat /\ rpos + n <= arrived /\ rpos' = rpos + n
      /\ received_size + n <= packet.data_size /\ UNCHANGED stream
  BY ReadStep DEF Invariant
<1>2. /\ pc = "client" /\ recv_mode = "DATA" /\ packet_list = << >>
      /\ UNCHANGED <<sent, starts, delivered, dropped, aligned>>
  BY DEF ReceiveData, Receiving, Invariant, Control, history
<1> SUFFICES ASSUME aligned PROVE InStep'
  BY <1>2, Zenon DEF InStep
<1>3. /\ Taken < Len(sent) /\ rpos = Base + HEADER_SIZE + received_size
      /\ received_size < Len(q.data)
      /\ packet = [flag |-> q.flag, type |-> q.type, data_size |-> Len(q.data),
                   data |-> SubSeq(q.data, 1, received_size)]
  BY <1>2, Zenon DEF Invariant, InStep, InData
<1>4. /\ Taken <= Len(sent) /\ Base \in Nat /\ q \in Packets
      /\ received_size \in Nat
  <2>1. Taken <= Len(sent)
    BY DEF Invariant, InStep
  <2> QED
    BY <1>3, <2>1, Places DEF Invariant, TypeOK, ReceiverType
<1>5. /\ Len(q.data) \in Nat /\ Size(q) = HEADER_SIZE + Len(q.data)
      /\ q.data \in Seq(Byte)
      /\ \A i \in 1..Len(q.data) : Encode(q)[HEADER_SIZE + i] = q.data[i]
  BY <1>4, EncodeFields, EncodeType
<1> HIDE DEF q
<1>6. received_size + n <= Len(q.data)
  BY <1>1, <1>3
<1>7. Chunk(n) \in Seq(Byte) /\ Len(Chunk(n)) = n
  BY <1>1, ReadBytes DEF Invariant, TypeOK
<1>8. ASSUME NEW i \in 1..n
      PROVE  Chunk(n)[i] = q.data[received_size + i]
  <2> DEFINE k == HEADER_SIZE + received_size
  <2>1. k \in Nat /\ rpos = Base + k /\ k + n <= Size(q)
    <3>1. \A b, s \in Nat : /\ HEADER_SIZE + s \in Nat
                            /\ b + HEADER_SIZE + s = b + (HEADER_SIZE + s)
      BY DEF HEADER_SIZE
    <3>2. \A s, m, l \in Nat : s + m <= l => HEADER_SIZE + s + m <= HEADER_SIZE + l
      BY DEF HEADER_SIZE
    <3>3. k \in Nat /\ rpos = Base + k
      BY <1>3, <1>4, <3>1, Zenon
    <3>4. k + n <= HEADER_SIZE + Len(q.data)
      BY <1>1, <1>4, <1>5, <1>6, <3>2, Zenon
    <3> QED
      BY <1>5, <3>3, <3>4, Zenon
  <2>2. k + i = HEADER_SIZE + (received_size + i) /\ received_size + i \in 1..Len(q.data)
    BY <1>1, <1>4, <1>5, <1>6 DEF HEADER_SIZE
  <2> HIDE DEF k
  <2>3. Chunk(n)[i] = Encode(q)[k + i]
    BY <1>1, <1>3, <2>1, NextBytes DEF Invariant, q
  <2> QED
    BY <1>5, <2>2, <2>3
<1>9. SubSeq(q.data, 1, received_size) \o Chunk(n) = full
  <2> DEFINE c == Chunk(n)
             s == q.data
  <2>1. c \in Seq(Byte) /\ s \in Seq(Byte)
    BY <1>5, <1>7
  <2>2. received_size + Len(c) <= Len(s) /\ \A i \in 1..Len(c) : c[i] = s[received_size + i]
    BY <1>6, <1>7, <1>8, Zenon
  <2> HIDE DEF c, s
  <2>3. SubSeq(s, 1, received_size) \o c = SubSeq(s, 1, received_size + Len(c))
    BY <1>4, <2>1, <2>2, Extended
  <2> QED
    BY <1>7, <2>3, Zenon DEF c, s
<1>10. p = [flag |-> q.flag, type |-> q.type, data_size |-> Len(q.data), data |-> full]
  <2>1. \A a, b, c, d, x :
          [[flag |-> a, type |-> b, data_size |-> c, data |-> d] EXCEPT !.data = x]
            = [flag |-> a, type |-> b, data_size |-> c, data |-> x]
    OBVIOUS
  <2>2. packet.data = SubSeq(q.data, 1, received_size)
    BY <1>3
  <2>3. p = [packet EXCEPT !.data = full]
    BY <1>9, <2>2, Zenon
  <2> HIDE DEF p, full
  <2> QED
    BY <1>3, <2>1, <2>3, Zenon
<1> HIDE DEF full, p
<1>11. CASE DataMissing(n)
  <2>1. /\ packet' = p /\ received_size' = received_size + n /\ pc' = "handler"
        /\ UNCHANGED <<recv_mode, packet_list>>
    BY <1>11 DEF ReceiveData, p
  <2>2. Taken' = Taken /\ Base' = Base
    BY <1>2, <2>1 DEF Taken, Base
  <2>3. rpos' = Base' + HEADER_SIZE + received_size' /\ received_size' < Len(q.data)
    <3>1. received_size + n < Len(q.data)
      BY <1>3, <1>11 DEF DataMissing
    <3> QED
      BY <1>1, <1>3, <1>4, <2>1, <2>2, <3>1 DEF HEADER_SIZE
  <2>4. packet' = [flag |-> q.flag, type |-> q.type, data_size |-> Len(q.data),
                   data |-> SubSeq(q.data, 1, received_size')]
    BY <1>10, <2>1 DEF full
  <2>5. InData'
    <3>1. Taken' < Len(sent')
      BY <1>2, <1>3, <2>2
    <3> QED
      BY <1>2, <2>2, <2>3, <2>4, <3>1, Zenon DEF InData, q
  <2> QED
    BY <1>2, <1>4, <2>1, <2>2, <2>5 DEF InStep
<1>12. CASE ~DataMissing(n)
  <2>1. /\ PacketReceived(p) /\ packet' = NoPacket /\ recv_mode' = "HEADER"
        /\ received_size' = 0
    BY <1>12 DEF ReceiveData, p, clear_header
  <2>2. received_size + n = Len(q.data)
    <3>1. ~(received_size + n < Len(q.data))
      BY <1>3, <1>12 DEF DataMissing
    <3> QED
      BY <1>1, <1>4, <1>5, <1>6, <3>1
  <2>3. full = q.data
    BY <1>5, <2>2, WholeSequence DEF full
  <2>4. /\ pc' = "process"
        /\ packet_list' = Append(<< >>, [flag |-> p.flag, type |-> p.type, data |-> p.data])
    BY <1>2, <2>1 DEF PacketReceived
  <2>5. q = [flag |-> p.flag, type |-> p.type, data |-> p.data]
    <3>1. q = [flag |-> q.flag, type |-> q.type, data |-> q.data]
      BY <1>4, PacketsAssumption
    <3>2. p.flag = q.flag /\ p.type = q.type /\ p.data = q.data
      BY <1>10, <2>3
    <3> QED
      BY <3>1, <3>2
  <2>6. packet_list' = <<q>>
    <3>1. \A x : Append(<< >>, x) = <<x>>
      OBVIOUS
    <3> QED
      BY <2>4, <2>5, <3>1, Zenon
  <2>7. Len(packet_list') = Len(packet_list) + 1
    <3>1. \A x : Len(<<x>>) = Len(<< >>) + 1
      OBVIOUS
    <3> QED
      BY <1>2, <2>6, <3>1, Zenon
  <2>8. Taken' = Taken + 1
    <3>1. Len(delivered) \in Nat /\ dropped \in Nat /\ Len(packet_list) \in Nat
      BY TakenType DEF Invariant
    <3> QED
      BY <1>2, <2>7, <3>1 DEF Taken
  <2>9. /\ Taken' <= Len(sent') /\ sent'[Taken'] = q /\ Base' = Base + Size(q)
    BY <1>2, <1>3, <2>8, OneMoreTaken DEF Invariant, q
  <2>10. rpos' = Base' + received_size'
    <3>1. \A b, s, m \in Nat :
            b + HEADER_SIZE + s + m = b + (HEADER_SIZE + (s + m)) + 0
      BY DEF HEADER_SIZE
    <3>2. Base + HEADER_SIZE + received_size + n = Base + (HEADER_SIZE + Len(q.data)) + 0
      <4>1. Base + HEADER_SIZE + received_size + n
              = Base + (HEADER_SIZE + (received_size + n)) + 0
        BY <1>1, <1>4, <3>1, Zenon
      <4> QED
        BY <2>2, <4>1, Zenon
    <3>3. rpos' = Base + HEADER_SIZE + received_size + n
      BY <1>1, <1>3, Zenon
    <3> QED
      BY <1>5, <2>1, <2>9, <3>2, <3>3, Zenon
  <2>11. InHeader'
    BY <2>1, <2>10 DEF InHeader, HEADER_SIZE
  <2> QED
    BY <2>1, <2>4, <2>6, <2>9, <2>11, Zenon DEF InStep
<1> QED
  BY <1>11, <1>12

\* eat_tcp_data reads on, and returns at the next packet.
LEMMA InStepEat ==
  ASSUME Invariant, NEW n \in 0..Len(stream), Eat(n)
  PROVE  InStep'
<1>1. /\ n \in Nat /\ rpos' = rpos + n /\ n <= remain /\ UNCHANGED stream
  BY ReadStep DEF Invariant
<1>2. /\ pc = "eat" /\ remain' = remain - n
      /\ UNCHANGED <<pc, header, received_size, recv_mode, packet, packet_list,
                     sent, starts, delivered, dropped, aligned>>
  BY DEF Eat, history
<1>3. recv_mode = "HEADER"
  BY <1>2 DEF Invariant, Control
<1> SUFFICES ASSUME aligned PROVE InStep'
  BY <1>2, Zenon DEF InStep
<1>4. /\ InEat /\ Taken <= Len(sent)
      /\ packet_list # << >> => packet_list = <<sent[Taken]>>
  BY <1>2 DEF Invariant, InStep
<1>5. Taken' = Taken
  BY <1>2 DEF Taken
<1>6. rpos \in Nat /\ remain \in Nat
  BY ShortRange DEF Invariant, TypeOK, ChipType, ReceiverType
<1>7. rpos' + remain' = rpos + remain
  BY <1>1, <1>2, <1>6
<1>8. InEat'
  BY <1>2, <1>4, <1>5, <1>7, Zenon DEF InEat
<1> QED
  BY <1>2, <1>3, <1>4, <1>5, <1>8 DEF InStep

LEMMA InStepEatDone ==
  ASSUME Invariant, EatDone
  PROVE  InStep'
<1>1. /\ pc = "eat" /\ remain = 0 /\ pc' = "handler" /\ received_size' = 0
      /\ dropped' = dropped + 1
      /\ UNCHANGED <<stream, rpos, recv_mode, packet_list, sent, starts,
                     delivered, aligned>>
  BY DEF EatDone, clear_header, chip
<1>2. recv_mode = "HEADER" /\ packet_list = << >>
  BY <1>1 DEF Invariant, Control
<1> SUFFICES ASSUME aligned PROVE InStep'
  BY <1>1, Zenon DEF InStep
<1>3. InEat
  BY <1>1 DEF Invariant, InStep
<1>4. Taken' = Taken + 1
  BY <1>1, TakenType DEF Taken, Invariant
<1>5. Taken' <= Len(sent') /\ Base' = starts[Taken + 2]
  BY <1>1, <1>3, <1>4, OneMoreTaken DEF Invariant, InEat
<1>6. rpos \in Nat
  BY DEF Invariant, TypeOK, ChipType
<1>7. rpos' = Base' + received_size'
  <2>1. rpos + 0 = Base'
    BY <1>1, <1>3, <1>5, Zenon DEF InEat
  <2>2. rpos + 0 = rpos
    BY <1>6
  <2>3. rpos' = Base' + 0
    BY <1>1, <2>1, <2>2, Zenon
  <2> QED
    BY <1>1, <2>3, Zenon
<1>8. InHeader'
  BY <1>1, <1>7 DEF InHeader, HEADER_SIZE
<1> QED
  BY <1>1, <1>2, <1>5, <1>8 DEF InStep

LEMMA InStepProcessPacket ==
  ASSUME Invariant, ProcessPacket
  PROVE  InStep'
<1>1. /\ pc = "process" /\ pc' = "handler"
      /\ UNCHANGED <<stream, rpos, header, received_size, recv_mode, packet,
                     sent, starts, dropped, aligned>>
  BY DEF ProcessPacket, chip
<1>2. packet_list \in Seq(ReceivedPackets) /\ Len(packet_list) = 1
  BY <1>1 DEF Invariant, TypeOK, ReceiverType, Control
<1>3. packet_list # << >> /\ Tail(packet_list) = << >>
  BY <1>2, OnlyOne
<1>4. packet_list' = << >> /\ delivered' = Append(delivered, Head(packet_list))
  BY <1>3 DEF ProcessPacket
<1>5. Taken' = Taken
  <2>1. delivered \in Seq(ReceivedPackets) /\ dropped \in Nat /\ Len(delivered) \in Nat
    BY DEF Invariant, TypeOK, HistoryType
  <2>2. Head(packet_list) \in ReceivedPackets
    BY <1>2, <1>3, AppendAndTail
  <2>3. Len(delivered') = Len(delivered) + 1
    BY <1>4, <2>1, <2>2, AppendAndTail
  <2>4. Len(packet_list') = 0
    BY <1>4
  <2>5. Taken' = (Len(delivered) + 1) + dropped + 0
    BY <1>1, <2>3, <2>4, Zenon DEF Taken
  <2>6. Taken = Len(delivered) + dropped + 1
    BY <1>2, Zenon DEF Taken
  <2> QED
    BY <2>1, <2>5, <2>6
<1>6. Base' = Base
  BY <1>1, <1>5, Zenon DEF Base
<1> SUFFICES ASSUME aligned PROVE InStep'
  BY <1>1, Zenon DEF InStep
<1>7. /\ Taken <= Len(sent)
      /\ recv_mode = "HEADER" => InHeader
      /\ recv_mode = "DATA" => InData
  BY <1>1 DEF Invariant, InStep
<1>8. (InHeader => InHeader') /\ (InData => InData')
  BY <1>1, <1>5, <1>6, Zenon DEF InHeader, InData
<1> QED
  BY <1>1, <1>4, <1>5, <1>7, <1>8 DEF InStep

LEMMA InStepPreserved ==
  ASSUME Invariant, Next
  PROVE  InStep'
<1> USE DEF Invariant
<1>1. ASSUME NEW n \in 0..Len(stream),
             \/ ReceiveData(n) \/ ReceivePartOfHeader(n) \/ AcceptHeader(n)
             \/ RejectHeader(n) \/ Eat(n)
      PROVE  InStep'
  BY <1>1, InStepReceiveData, InStepPartOfHeader, InStepAcceptHeader,
     InStepRejectHeader, InStepEat
<1>2. ASSUME NEW n \in 0..Len(stream), Resynchronise(n)
      PROVE  InStep'
  <2>1. ReceiveRestOfHeader(n) /\ ~is_tcp_packet3_header(FilledHeader(n))
    BY <1>2 DEF Resynchronise
  <2>2. ~aligned
    BY <2>1, NeverResynchronises
  <2>3. aligned' = aligned
    BY <2>1 DEF ReceiveRestOfHeader, history
  <2> QED
    BY <2>2, <2>3, Zenon DEF InStep
<1>3. CASE EatDone \/ ProcessPacket
  BY <1>3, InStepEatDone, InStepProcessPacket
<1>4. CASE \/ SetDhcpIp \/ PollSocket \/ ReceiveError \/ EatError \/ ClientCloseWait
           \/ ClientInit \/ ClientOther \/ PeerClose \/ SocketCloses \/ ChipReset
           \/ Undefined
  <2>1. UNCHANGED <<stream, rpos, receiver, history>>
    BY <1>4 DEF SetDhcpIp, PollSocket, ReceiveError, EatError, ClientCloseWait,
       ClientInit, ClientOther, PeerClose, SocketCloses, ChipReset, Undefined,
       vars, chip, recv_error, Loop
  <2>2. (pc' = "eat" <=> pc = "eat") /\ (pc' = "undefined" => pc = "undefined")
    BY <1>4 DEF SetDhcpIp, PollSocket, ReceiveError, EatError, ClientCloseWait,
       ClientInit, ClientOther, ClientDone, PeerClose, SocketCloses, ChipReset,
       Undefined, vars, Loop
  <2> QED
    BY <2>1, <2>2, InStepUnchanged
<1>5. CASE ClientClosed
  <2>1. pc = "client" /\ pc' = "handler" /\ packet_list' = << >>
        /\ UNCHANGED <<stream, rpos, header, received_size, recv_mode, packet,
                       remain, history>>
    BY <1>5 DEF ClientClosed, ClientDone
  <2>2. packet_list = << >>
    BY <2>1 DEF Control
  <2>3. UNCHANGED <<stream, rpos, receiver, history>>
    BY <2>1, <2>2 DEF receiver
  <2> QED
    BY <2>1, <2>3, InStepUnchanged
<1>6. ASSUME NEW n \in 1..Len(stream), Arrive(n)
      PROVE  InStep'
  <2>1. UNCHANGED <<stream, rpos, receiver, history, pc>>
    BY <1>6 DEF Arrive, Loop
  <2> QED
    BY <2>1, InStepUnchanged
<1>7. CASE Established
  BY <1>7, InStepEstablished
<1>8. ASSUME NEW p \in Packets, PeerSend(p)
      PROVE  InStep'
  BY <1>8, InStepSend
<1> QED
  BY <1>1, <1>2, <1>3, <1>4, <1>5, <1>6, <1>7, <1>8
     DEF Next, Firmware, Receive, Environment

LEMMA InvariantPreserved ==
  ASSUME Invariant, [Next]_vars
  PROVE  Invariant'
<1>1. CASE Next
  BY <1>1, TypePreserved, StreamPreserved, ControlPreserved, InStepPreserved
     DEF Invariant
<1>2. CASE UNCHANGED vars
  <2>1. UNCHANGED <<stream, rpos, receiver, history, pc, sr, state>>
    BY <1>2 DEF vars, chip
  <2>2. InStep'
    BY <2>1, InStepUnchanged DEF Invariant
  <2>3. StreamOfPackets'
    BY <2>1, Zenon DEF StreamOfPackets, history, Invariant
  <2>4. Control'
    BY <2>1 DEF Control, receiver, Invariant
  <2>5. TypeOK'
    BY <1>2, TypePreserved DEF Invariant
  <2> QED
    BY <2>2, <2>3, <2>4, <2>5 DEF Invariant
<1> QED
  BY <1>1, <1>2

LEMMA InitInvariant ==
  Init => Invariant
<1> SUFFICES ASSUME Init PROVE Invariant
  OBVIOUS
<1>1. TypeOK
  BY InitType
<1>2. StreamOfPackets
  <2>1. stream = << >> /\ sent = << >> /\ starts = <<0>>
    BY DEF Init
  <2>2. Len(<< >>) = 0 /\ <<0>>[1] = 0 /\ 1..0 = {}
    OBVIOUS
  <2> QED
    BY <2>1, <2>2 DEF StreamOfPackets
<1>3. Control
  BY DEF Init, Control
<1>4. InStep
  BY Zenon DEF Init, InStep
<1> QED
  BY <1>1, <1>2, <1>3, <1>4 DEF Invariant

\* On every connection that begins between two packets recv_tcp_packet3 stays
\* in step with the peer, whatever packets it sends, however many, and however
\* the network cuts them up; it never searches for a header and never leaves
\* the defined behaviour of the code.
THEOREM StaysInStep ==
  Spec => []InStep
<1>1. Spec => []Invariant
  BY InitInvariant, InvariantPreserved, PTL DEF Spec
<1>2. Invariant => InStep
  BY DEF Invariant
<1> QED
  BY <1>1, <1>2, PTL

-----------------------------------------------------------------------------
(***************************************************************************)
(* Refinement: every step is a step of FrameDelivery, or a stutter.        *)
(***************************************************************************)

LEMMA RefinedStep ==
  ASSUME Invariant, [Next]_vars
  PROVE  [Delivery!Next]_(Delivery!vars)
<1>1. CASE UNCHANGED <<sent, delivered, dropped, aligned>>
  BY <1>1, Zenon DEF Delivery!vars
<1>2. CASE Established
  <2>1. sent' = << >> /\ delivered' = << >> /\ dropped' = 0
    BY <1>2 DEF Established
  <2>2. Delivery!Open
    BY <2>1, Zenon DEF Delivery!Open
  <2> QED
    BY <2>2 DEF Delivery!Next
<1>3. CASE ~aligned /\ UNCHANGED aligned
  BY <1>3, Zenon DEF Delivery!vars
<1>4. ASSUME aligned, NEW p \in Packets, PeerSend(p)
      PROVE  Delivery!Next
  <2>1. /\ sent' = Append(sent, p) /\ aligned'
        /\ UNCHANGED <<delivered, dropped>>
    BY <1>4, Zenon DEF PeerSend
  <2>2. Delivery!Send(p)
    BY <1>4, <2>1, Zenon DEF Delivery!Send
  <2> QED
    BY <2>2 DEF Delivery!Next
<1>5. ASSUME aligned, EatDone
      PROVE  Delivery!Next
  <2>1. /\ pc = "eat" /\ dropped' = dropped + 1 /\ aligned'
        /\ UNCHANGED <<sent, delivered>>
    BY <1>5, Zenon DEF EatDone
  <2>2. Taken < Len(sent) /\ packet_list = << >>
    BY <1>5, <2>1 DEF Invariant, InStep, InEat, Control
  <2>3. Len(delivered) + dropped < Len(sent)
    <3>1. Len(delivered) \in Nat /\ dropped \in Nat /\ Len(<< >>) = 0
      BY TakenType DEF Invariant
    <3> QED
      BY <2>2, <3>1 DEF Taken
  <2>4. Delivery!Skip
    BY <1>5, <2>1, <2>3, Zenon DEF Delivery!Skip, Delivery!Consumed
  <2> QED
    BY <2>4 DEF Delivery!Next
<1>6. ASSUME aligned, ProcessPacket
      PROVE  Delivery!Next
  <2>1. /\ pc = "process" /\ aligned' /\ UNCHANGED <<sent, dropped>>
    BY <1>6, Zenon DEF ProcessPacket
  <2>2. packet_list \in Seq(ReceivedPackets) /\ Len(packet_list) = 1
    BY <2>1 DEF Invariant, TypeOK, ReceiverType, Control
  <2>3. packet_list # << >> /\ Head(packet_list) = packet_list[1]
    BY <2>2, OnlyOne
  <2>4. packet_list = <<sent[Taken]>> /\ Taken <= Len(sent)
    BY <1>6, <2>3 DEF Invariant, InStep
  <2>5. Head(packet_list) = sent[Taken]
    BY <2>3, <2>4
  <2>6. /\ Taken = Len(delivered) + dropped + 1
        /\ Len(delivered) + dropped < Len(sent)
    <3>1. Len(delivered) \in Nat /\ dropped \in Nat /\ Len(sent) \in Nat
      BY TakenType DEF Invariant
    <3>2. Taken = Len(delivered) + dropped + 1
      BY <2>2, Zenon DEF Taken
    <3> QED
      BY <2>4, <3>1, <3>2
  <2>7. delivered' = Append(delivered, sent[Len(delivered) + dropped + 1])
    BY <1>6, <2>3, <2>5, <2>6, Zenon DEF ProcessPacket
  <2>8. Delivery!Deliver
    BY <1>6, <2>1, <2>6, <2>7, Zenon DEF Delivery!Deliver, Delivery!Consumed
  <2> QED
    BY <2>8 DEF Delivery!Next
<1>7. CASE Next
  <2>1. \/ UNCHANGED <<sent, delivered, dropped, aligned>>
        \/ Established \/ EatDone \/ ProcessPacket
        \/ \E p \in Packets : PeerSend(p)
    BY <1>7 DEF Next, Firmware, Receive, Environment, SetDhcpIp, PollSocket,
       ReceiveData, ReceivePartOfHeader, AcceptHeader, RejectHeader,
       Resynchronise, ReceiveRestOfHeader, Eat, ReceiveError, EatError,
       ClientCloseWait, ClientClosed, ClientInit, ClientOther, Arrive, PeerClose,
       SocketCloses, ChipReset, Undefined, vars, history
  <2>2. Established \/ UNCHANGED aligned
    BY <2>1 DEF EatDone, ProcessPacket, PeerSend
  <2> QED
    BY <1>1, <1>2, <1>3, <1>4, <1>5, <1>6, <2>1, <2>2
<1>8. CASE UNCHANGED vars
  BY <1>1, <1>8 DEF vars, history
<1> QED
  BY <1>7, <1>8

LEMMA RefinedInit ==
  Init => Delivery!Init
BY DEF Init, Delivery!Init

\* The receive path implements FrameDelivery: on every connection that begins
\* between two packets the application gets the peer's packets whole, in
\* order and at most once, and only packets for which there was no memory are
\* missing.
THEOREM DeliversFrames ==
  Spec => DeliverySpec
<1>1. Spec => []Invariant
  BY InitInvariant, InvariantPreserved, PTL DEF Spec
<1> QED
  BY <1>1, RefinedInit, RefinedStep, PTL DEF Spec, DeliverySpec, Delivery!Spec

-----------------------------------------------------------------------------
(***************************************************************************)
(* AsksForBytes.  It speaks of the places where recv is called; to get     *)
(* there from the last call it must hold between the calls too, except     *)
(* while a packet is eaten or after the undefined copy.                    *)
(***************************************************************************)
Asking ==
  /\ recv_mode = "HEADER" /\ pc \in {"handler", "client", "process"}
       => received_size < HEADER_SIZE
  /\ recv_mode = "DATA" => /\ received_size < packet.data_size
                           /\ received_size = Len(packet.data)

LEMMA AskingUnchanged ==
  ASSUME TypeOK, Asking, UNCHANGED <<received_size, recv_mode, packet>>,
         pc \in {"eat", "undefined"} => pc' = pc
  PROVE  Asking'
BY DEF TypeOK, LoopType, Asking

LEMMA AskingReceiveData ==
  ASSUME TypeOK, Asking, NEW n \in 0..Len(stream), ReceiveData(n)
  PROVE  Asking'
<1>1. /\ n \in Nat /\ rpos + n <= arrived /\ recv_mode = "DATA"
      /\ received_size < packet.data_size /\ received_size = Len(packet.data)
  BY ReadStep DEF ReceiveData, Receiving, Asking
<1> DEFINE p == [packet EXCEPT !.data = @ \o Chunk(n)]
<1>2. CASE DataMissing(n)
  <2>1. /\ packet' = p /\ received_size' = received_size + n
        /\ recv_mode' = recv_mode
    BY <1>2, Zenon DEF ReceiveData
  <2>2. /\ packet \in [flag : Byte, type : Byte, data_size : Short, data : Seq(Byte)]
        /\ received_size \in Nat /\ packet.data_size \in Nat
    BY ShortRange DEF TypeOK, ReceiverType
  <2>3. packet'.data_size = packet.data_size /\ packet'.data = packet.data \o Chunk(n)
    BY <2>1, <2>2
  <2>4. Chunk(n) \in Seq(Byte) /\ Len(Chunk(n)) = n
    BY <1>1, ReadBytes DEF TypeOK
  <2>5. packet.data \in Seq(Byte)
    BY <2>2
  <2>6. Len(packet.data \o Chunk(n)) = Len(packet.data) + Len(Chunk(n))
    BY <2>4, <2>5, Concatenation, Zenon
  <2>7. Len(packet'.data) = Len(packet.data) + n
    BY <2>3, <2>4, <2>6, Zenon
  <2> QED
    BY <1>1, <1>2, <2>1, <2>2, <2>3, <2>7 DEF Asking, DataMissing
<1>3. CASE ~DataMissing(n)
  BY <1>3 DEF ReceiveData, clear_header, Asking, HEADER_SIZE
<1> QED
  BY <1>2, <1>3

LEMMA AskingHeader ==
  ASSUME TypeOK, Asking, NEW n \in 0..Len(stream),
         ReceivePartOfHeader(n) \/ AcceptHeader(n) \/ RejectHeader(n)
  PROVE  Asking'
<1>1. CASE ReceivePartOfHeader(n) \/ RejectHeader(n)
  BY <1>1 DEF ReceivePartOfHeader, RejectHeader, ReceiveRestOfHeader, Receiving, Asking
<1>2. CASE AcceptHeader(n)
  <2> DEFINE h == FilledHeader(n)
             size == get_tcp_packet3_header_data_size(h)
             p == [flag |-> h[4], type |-> h[5], data_size |-> size, data |-> << >>]
  <2>1. recv_mode = "HEADER" /\ received_size' = 0
    BY <1>2 DEF AcceptHeader, ReceiveRestOfHeader, Receiving, clear_header
  <2>2. CASE size > 0
    <3>1. packet' = p /\ recv_mode' = "DATA"
      BY <1>2, <2>2, Zenon DEF AcceptHeader
    <3>2. p.data_size = size /\ Len(p.data) = 0
      OBVIOUS
    <3>3. packet'.data_size = size /\ Len(packet'.data) = 0
      BY <3>1, <3>2, Zenon
    <3> HIDE DEF size
    <3> QED
      BY <2>1, <2>2, <3>1, <3>3 DEF Asking
  <2>3. CASE ~(size > 0)
    <3>1. recv_mode' = recv_mode
      BY <1>2, <2>3, Zenon DEF AcceptHeader
    <3> QED
      BY <2>1, <3>1 DEF Asking, HEADER_SIZE
  <2> QED
    BY <2>2, <2>3
<1> QED
  BY <1>1, <1>2

\* What is left of eight bytes is less, whatever index the search finds.
LEMMA AskingResynchronise ==
  ASSUME TypeOK, Asking, NEW n \in 0..Len(stream), Resynchronise(n)
  PROVE  Asking'
<1> DEFINE i == contains_tcp_packet3_fragment(FilledHeader(n))
<1>1. /\ recv_mode = "HEADER" /\ recv_mode' = "HEADER"
      /\ n \in Nat /\ rpos + n <= arrived
      /\ received_size \in Nat /\ received_size + n = HEADER_SIZE
  <2>1. ReceiveRestOfHeader(n) /\ recv_mode' = recv_mode
    BY DEF Resynchronise
  <2>2. /\ n \in Nat /\ rpos + n <= arrived /\ received_size + n <= HEADER_SIZE
    BY <2>1, ReadStep
  <2>3. recv_mode = "HEADER" /\ received_size + n >= HEADER_SIZE /\ received_size \in Nat
    BY <2>1 DEF ReceiveRestOfHeader, Receiving, TypeOK, ReceiverType
  <2> QED
    BY <2>1, <2>2, <2>3 DEF HEADER_SIZE
<1>2. i \in {-1} \cup 1..7
  BY <1>1, FilledHeaderType, FragmentIndex DEF TypeOK
<1>3. /\ received_size' = received_size + n - i
      /\ i < 0 => pc' = "undefined"
  <2>1. i # 0
    BY <1>2
  <2> QED
    BY <2>1 DEF Resynchronise
<1> HIDE DEF i
<1>4. i > 0 => received_size' < HEADER_SIZE
  BY <1>1, <1>2, <1>3 DEF HEADER_SIZE
<1> QED
  BY <1>1, <1>2, <1>3, <1>4 DEF Asking

LEMMA AskingPreserved ==
  ASSUME TypeOK, Control, Asking, Next
  PROVE  Asking'
<1>1. ASSUME NEW n \in 0..Len(stream),
             \/ ReceiveData(n) \/ ReceivePartOfHeader(n) \/ AcceptHeader(n)
             \/ RejectHeader(n) \/ Resynchronise(n)
      PROVE  Asking'
  BY <1>1, AskingReceiveData, AskingHeader, AskingResynchronise
<1>2. ASSUME NEW n \in 0..Len(stream), Eat(n)
      PROVE  Asking'
  BY <1>2, AskingUnchanged DEF Eat
<1>3. CASE EatDone
  BY <1>3 DEF EatDone, clear_header, Control, Asking, HEADER_SIZE
<1>4. CASE \/ SetDhcpIp \/ PollSocket \/ ReceiveError \/ EatError \/ ClientCloseWait
           \/ ClientClosed \/ ClientInit \/ ClientOther \/ ProcessPacket \/ Undefined
  <2>1. UNCHANGED <<received_size, recv_mode, packet>>
    BY <1>4 DEF SetDhcpIp, PollSocket, ReceiveError, EatError, ClientCloseWait,
       ClientClosed, ClientInit, ClientOther, ProcessPacket, Undefined, vars, receiver
  <2>2. pc \in {"eat", "undefined"} => pc' = pc
    BY <1>4 DEF SetDhcpIp, PollSocket, ReceiveError, EatError, ClientCloseWait,
       ClientClosed, ClientInit, ClientOther, ClientDone, ProcessPacket, Undefined, vars
  <2> QED
    BY <2>1, <2>2, AskingUnchanged
<1>5. CASE Environment
  <2>1. UNCHANGED Loop
    BY <1>5 DEF Environment, Established, PeerSend, Arrive, PeerClose,
       SocketCloses, ChipReset
  <2> QED
    BY <2>1, AskingUnchanged DEF Loop, receiver
<1> QED
  BY <1>1, <1>2, <1>3, <1>4, <1>5 DEF Next, Firmware, Receive

\* recv_tcp_packet3 never calls recv for 0 bytes, with any packets, any
\* segments, failed allocations and connections that begin inside a packet.
THEOREM AlwaysAsksForBytes ==
  Spec => []AsksForBytes
<1>1. Spec => []Invariant
  BY InitInvariant, InvariantPreserved, PTL DEF Spec
<1>2. Init => Asking
  BY DEF Init, Asking, HEADER_SIZE
<1>3. Invariant /\ Asking /\ [Next]_vars => Asking'
  <2> SUFFICES ASSUME Invariant, Asking, [Next]_vars PROVE Asking'
    OBVIOUS
  <2>1. CASE Next
    BY <2>1, AskingPreserved DEF Invariant
  <2>2. CASE UNCHANGED vars
    BY <2>2, AskingUnchanged DEF vars, receiver, Invariant
  <2> QED
    BY <2>1, <2>2
<1>4. Asking => AsksForBytes
  BY DEF Asking, AsksForBytes, Receiving
<1> QED
  BY <1>1, <1>2, <1>3, <1>4, PTL DEF Spec

-----------------------------------------------------------------------------
(***************************************************************************)
(* What liveness needs of the states: as long as a packet is not taken     *)
(* there is a step of the receive path, or of the network, that brings it  *)
(* nearer.  That such steps are taken in the end is fairness, which        *)
(* EventuallyTaken adds and TLC checks.                                    *)
(***************************************************************************)
NothingStuck ==
  aligned /\ Len(delivered) + dropped < Len(sent) =>
    \/ arrived < Len(stream)            \* the network owes bytes
    \/ Available > 0                    \* recv returns some
    \/ pc = "process"                   \* the packet is about to be taken
    \/ pc = "eat" /\ remain = 0         \* and this one to be skipped

\* A receiver that waits for bytes (with nothing to read, nothing on the way,
\* and no packet in the list) has taken every packet the peer sent: it never
\* holds back the end of one.
THEOREM NeverHoldsBack ==
  Spec => []NothingStuck
<1>1. Spec => []Invariant
  BY InitInvariant, InvariantPreserved, PTL DEF Spec
<1>2. Invariant => NothingStuck
  <2> SUFFICES ASSUME Invariant, aligned, Len(delivered) + dropped < Len(sent),
                      pc # "process", arrived = Len(stream),
                      ~(pc = "eat" /\ remain = 0)
               PROVE  Available > 0
    BY DEF NothingStuck, Invariant, TypeOK, ChipType
  <2>1. packet_list = << >>
    BY DEF Invariant, Control
  <2>2. Taken < Len(sent)
    <3>1. Len(<< >>) = 0
      OBVIOUS
    <3> QED
      BY <2>1, <3>1, TakenType DEF Taken, Invariant
  <2> DEFINE q == sent[Taken + 1]
  <2>3. /\ Base \in Nat /\ rpos \in Nat /\ Len(stream) \in Nat /\ q \in Packets
        /\ starts[Taken + 2] = Base + Size(q)
        /\ starts[Taken + 2] <= Len(stream)
    BY <2>2, Places, TakenType DEF Invariant
  <2>4. Size(q) \in Nat /\ Size(q) = HEADER_SIZE + Len(q.data) /\ Len(q.data) \in Nat
    BY <2>3, EncodeFields
  <2>5. /\ recv_mode \in {"HEADER", "DATA"} /\ received_size \in Nat /\ remain \in Nat
    BY ShortRange DEF Invariant, TypeOK, ReceiverType
  <2> HIDE DEF q
  <2>6. CASE pc = "eat"
    <3>1. rpos + remain = starts[Taken + 2]
      BY <2>6 DEF Invariant, InStep, InEat
    <3> QED
      BY <2>3, <2>5, <2>6, <3>1 DEF Available
  <2>7. CASE pc # "eat" /\ recv_mode = "HEADER"
    <3>1. rpos = Base + received_size /\ received_size < HEADER_SIZE
      BY <2>7 DEF Invariant, InStep, InHeader
    <3> QED
      BY <2>3, <2>4, <2>5, <3>1 DEF Available, HEADER_SIZE
  <2>8. CASE pc # "eat" /\ recv_mode = "DATA"
    <3>1. rpos = Base + HEADER_SIZE + received_size /\ received_size < Len(q.data)
      BY <2>8 DEF Invariant, InStep, InData, q
    <3> QED
      BY <2>3, <2>4, <2>5, <3>1 DEF Available, HEADER_SIZE
  <2> QED
    BY <2>5, <2>6, <2>7, <2>8
<1> QED
  BY <1>1, <1>2, PTL
=============================================================================
