--------------------------- MODULE TcpSend_proofs ---------------------------
(***************************************************************************)
(* The replies never overrun the chip's transmit memory, and the firmware  *)
(* and a peer that writes before it reads wait for one another only if the *)
(* peer's batch is too large, for every size of the buffers.               *)
(*                                                                         *)
(* The argument keeps accounts: what the peer wrote is in the receive      *)
(* memory or was taken, and what was taken pays for the replies, those     *)
(* given to the chip and those wiz_sendb still has to give it, as long as  *)
(* the peer claims no plain contents longer than what it sent.             *)
(***************************************************************************)
EXTENDS TcpSend, TLAPS, SequenceTheorems

\* The bytes of the second of two replies.
After(r) == IF Len(r) = 2 THEN HEADER_SIZE + r[2] ELSE 0

\* The bytes of the replies that the chip has not been given.
Rest ==
  IF Idle THEN 0
  ELSE Size - sent_size
       + (IF part = "header" THEN Head(replies) ELSE 0)
       + After(replies)

Accounts ==
  /\ Len(replies) <= 2
  /\ ~Idle => sent_size <= Size
  /\ Idle => part = "header" /\ sent_size = 0
  /\ held + tx <= Len(wire)
  /\ NoneLonger(batch) => Len(wire) + Rest <= 2 * (wrote - rx - got)

Invariant == TypeOK /\ Accounts

-----------------------------------------------------------------------------
\* What the assumptions say of the numbers.
LEMMA Numbers ==
  /\ HEADER_SIZE \in Nat /\ HEADER_SIZE > 0
  /\ Window \in Nat /\ TxMax \in Nat /\ TxMax > 0 /\ RxMax \in Nat
  /\ MaxConnections \in Nat
  BY SizesAssumption

\* At most two replies, of which the first is not missing.
LEMMA QueueFacts ==
  ASSUME NEW r \in Seq(Nat), Len(r) <= 2, r # << >>
  PROVE  /\ Len(r) = 1 \/ Len(r) = 2
         /\ Head(r) \in Nat /\ After(r) \in Nat
         /\ Tail(r) \in Seq(Nat) /\ Len(Tail(r)) = Len(r) - 1
         /\ Tail(r) = << >> => After(r) = 0
         /\ Tail(r) # << >> => After(r) = HEADER_SIZE + Head(Tail(r))
         /\ After(Tail(r)) = 0
  <1> USE Numbers
  <1>1. Len(r) = 1 \/ Len(r) = 2
    <2>1. Len(r) \in Nat \ {0}  BY EmptySeq
    <2>2. \A k \in Nat \ {0} : k <= 2 => k = 1 \/ k = 2  OBVIOUS
    <2> QED  BY <2>1, <2>2, Zenon
  <1>2. /\ Head(r) \in Nat /\ Tail(r) \in Seq(Nat) /\ Len(Tail(r)) = Len(r) - 1
        /\ \A i \in 1..Len(Tail(r)) : Tail(r)[i] = r[i + 1]
    BY HeadTailProperties
  <1>3. CASE Len(r) = 1
    <2>1. Len(Tail(r)) = 0  BY <1>2, <1>3
    <2>2. Tail(r) = << >>  BY <1>2, <2>1, EmptySeq
    <2> QED  BY <1>1, <1>2, <1>3, <2>1, <2>2 DEF After
  <1>4. CASE Len(r) = 2
    <2>1. r[2] \in Nat
      <3>1. 2 \in 1..Len(r)  BY <1>4
      <3> QED  BY <3>1, ElementOfSeq
    <2>2. Len(Tail(r)) = 1  BY <1>2, <1>4
    <2>3. Tail(r) # << >>
      <3>1. Len(<< >>) = 0 /\ 1 # 0  BY EmptySeq
      <3> QED  BY <2>2, <3>1, Zenon
    <2>4. Tail(r)[1] = r[2]
      <3>1. 1 \in 1..1 /\ 1 + 1 = 2  OBVIOUS
      <3>2. 1 \in 1..Len(Tail(r))  BY <2>2, <3>1, Zenon
      <3>3. Tail(r)[1] = r[1 + 1]  BY <1>2, <3>2, Zenon
      <3> QED  BY <3>1, <3>3, Zenon
    <2>5. Head(Tail(r)) = Tail(r)[1]  BY <1>2, <2>3
    <2>6. After(r) = HEADER_SIZE + r[2]  BY <1>4 DEF After
    <2>7. After(Tail(r)) = 0
      <3>1. 1 # 2  OBVIOUS
      <3> QED  BY <2>2, <3>1, Zenon DEF After
    <2> QED  BY <1>1, <1>2, <2>1, <2>2, <2>3, <2>4, <2>5, <2>6, <2>7
  <1> QED  BY <1>1, <1>3, <1>4

LEMMA InitInvariant == Init => Invariant
  <1> SUFFICES ASSUME Init PROVE Invariant  OBVIOUS
  <1>1. /\ rx \in 0..RxMax /\ tx \in 0..TxMax /\ held \in 0..Window
        /\ connections \in 0..MaxConnections
    BY Numbers DEF Init
  <1>2. replies \in Seq(Nat) /\ wire \in Seq(Nat \X Nat \X Nat) /\ Len(wire) = 0
    BY EmptySeq DEF Init
  <1>3. next \in 0..Len(batch) /\ batch \in Batches \cup {<< >>}
    BY EmptySeq DEF Init
  <1>4. TypeOK
    BY <1>1, <1>2, <1>3 DEF Init, TypeOK
  <1>5. Accounts
    BY <1>2, EmptySeq DEF Init, Accounts, Rest, Idle
  <1> QED  BY <1>4, <1>5 DEF Invariant

\* A received packet is one of the batch.
LEMMA Received ==
  ASSUME TypeOK, next < Len(batch)
  PROVE  /\ batch[next + 1] \in Packet
         /\ NoneLonger(batch) => batch[next + 1].plain <= batch[next + 1].size
  <1>1. batch \in Batches
    BY DEF TypeOK
  <1>2. batch \in Seq(Packet) /\ next + 1 \in 1..Len(batch)
    BY <1>1, BatchesAssumption DEF TypeOK
  <1> QED  BY <1>1, <1>2 DEF NoneLonger

\* At most two replies, together not more than twice the packet if its plain
\* contents are not longer than its data.
LEMMA RepliesBounded ==
  ASSUME NEW p \in Packet, NEW r \in Replies(p)
  PROVE  /\ r \in Seq(Nat) /\ Len(r) <= 2
         /\ r # << >> /\ p.plain <= p.size => Head(r) <= p.size
         /\ After(r) <= HEADER_SIZE + p.size
  <1> USE Numbers
  <1>1. p.size \in Nat /\ p.plain \in Nat \cup {-1}
    BY DEF Packet
  <1>2. CASE r = << >>
    BY <1>1, <1>2, EmptySeq DEF After
  <1>3. ASSUME NEW x \in Nat, r = <<x>>
        PROVE  Len(r) = 1 /\ r \in Seq(Nat) /\ Head(r) = x
    BY <1>1, <1>3
  <1>4. ASSUME NEW x \in Nat, r = <<x>> \o <<p.size>>
        PROVE  /\ Len(r) = 2 /\ r \in Seq(Nat) /\ r[2] = p.size
               /\ Head(r) = x
    <2>1. <<x>> \in Seq(Nat) /\ <<p.size>> \in Seq(Nat)
          /\ Len(<<x>>) = 1 /\ Len(<<p.size>>) = 1
      BY <1>1
    <2>2. /\ r \in Seq(Nat) /\ Len(r) = 2
          /\ \A i \in 1..2 : r[i] = IF i <= 1 THEN <<x>>[i] ELSE <<p.size>>[i - 1]
      BY <1>4, <2>1, ConcatProperties
    <2>3. r[1] = x /\ r[2] = p.size
      BY <2>2
    <2>4. Head(r) = r[1]
      BY <2>2
    <2> QED  BY <1>4, <2>2, <2>3, <2>4
  <1>5. CASE p.cmdline
    <2>1. r = <<p.size>> \/ (p.plain >= 0 /\ r = <<p.plain>> \o <<p.size>>)
      BY <1>5 DEF Replies
    <2>2. CASE r = <<p.size>>
      BY <1>1, <1>3, <2>2 DEF After
    <2>3. CASE p.plain >= 0 /\ r = <<p.plain>> \o <<p.size>>
      <3>1. p.plain \in Nat  BY <1>1, <2>3
      <3>2. Len(r) = 2 /\ r \in Seq(Nat) /\ r[2] = p.size /\ Head(r) = p.plain
        BY <1>4, <2>3, <3>1
      <3> QED  BY <1>1, <3>2 DEF After
    <2> QED  BY <2>1, <2>2, <2>3
  <1>6. CASE ~p.cmdline
    <2>1. CASE p.plain >= 0 /\ r = <<p.plain>> \o << >>
      <3>1. p.plain \in Nat /\ <<p.plain>> \in Seq(Nat)  BY <1>1, <2>1
      <3>2. r = <<p.plain>>  BY <2>1, <3>1, ConcatEmptySeq
      <3>3. Len(r) = 1 /\ r \in Seq(Nat) /\ Head(r) = p.plain
        BY <1>3, <3>1, <3>2
      <3> QED  BY <1>1, <3>3 DEF After
    <2> QED  BY <1>2, <1>6, <2>1 DEF Replies
  <1> QED  BY <1>5, <1>6

LEMMA ReceivePreserves ==
  ASSUME Invariant, NEW n \in 1..RxMax, ReceiveBytes(n)
  PROVE  Invariant'
  <1> USE Numbers
  <1> DEFINE p == batch[next + 1]
  <1>1. /\ p \in Packet /\ p.size \in Nat /\ Whole(p) = HEADER_SIZE + p.size
        /\ NoneLonger(batch) => p.plain <= p.size
    BY Received DEF Invariant, ReceiveBytes, Packet, Whole
  <1>2. /\ n \in Nat /\ n >= 1 /\ rx \in Nat /\ got \in Nat /\ wrote \in Nat
        /\ rx' = rx - n /\ n <= rx /\ rx' \in 0..RxMax
        /\ Idle /\ replies = << >> /\ part = "header" /\ sent_size = 0
        /\ UNCHANGED <<tx, held, wire, wrote, part, sent_size, batch>>
    BY DEF Invariant, TypeOK, Accounts, ReceiveBytes, Idle, peer
  <1>3. /\ Len(wire) \in Nat
        /\ NoneLonger(batch) => Len(wire) <= 2 * (wrote - rx - got)
    BY <1>2 DEF Invariant, TypeOK, Accounts, Rest
  <1> HIDE DEF p
  <1>4. CASE got + n < Whole(p)
    <2>1. got' = got + n /\ UNCHANGED <<next, replies, reply>>
      BY <1>4 DEF ReceiveBytes, p
    <2>2. TypeOK'
      BY <1>2, <2>1 DEF Invariant, TypeOK, ReceiveBytes, peer
    <2>3. Accounts'
      BY <1>2, <1>3, <2>1 DEF Invariant, TypeOK, Accounts, Rest, Idle
    <2> QED  BY <2>2, <2>3 DEF Invariant
  <1>5. CASE ~(got + n < Whole(p))
    <2>1. /\ got' = 0 /\ got + n = Whole(p) /\ next' = next + 1
          /\ replies' \in Replies(p)
          /\ reply' = IF replies' = << >> THEN reply ELSE reply + 1
      <3>1. got + n <= Whole(p)  BY DEF ReceiveBytes, p
      <3>2. got + n = Whole(p)  BY <1>1, <1>2, <1>5, <3>1
      <3> QED  BY <1>5, <3>2 DEF ReceiveBytes, p
    <2>2. /\ replies' \in Seq(Nat) /\ Len(replies') <= 2
          /\ replies' # << >> /\ NoneLonger(batch) => Head(replies') <= p.size
          /\ After(replies') <= HEADER_SIZE + p.size
      BY <1>1, <2>1, RepliesBounded
    <2>3. TypeOK'
      <3>1. next' \in 0..Len(batch)
        BY <2>1 DEF Invariant, TypeOK, ReceiveBytes
      <3> QED  BY <1>2, <2>1, <2>2, <3>1 DEF Invariant, TypeOK, ReceiveBytes, peer
    <2>4. ASSUME NoneLonger(batch)
          PROVE  Rest' \in Nat /\ Rest' <= 2 * Whole(p)
      <3>1. CASE replies' = << >>
        BY <1>1, <3>1 DEF Rest, Idle
      <3>2. CASE replies' # << >>
        <4>1. Head(replies') \in Nat /\ After(replies') \in Nat
          BY <2>2, <3>2, QueueFacts
        <4>2. Size' = HEADER_SIZE  BY <1>2 DEF Size
        <4>3. Rest' = HEADER_SIZE + Head(replies') + After(replies')
          BY <1>2, <3>2, <4>1, <4>2 DEF Rest, Idle, After
        <4>4. \A h, x, a, m \in Nat : x <= m /\ a <= h + m =>
                 h + x + a \in Nat /\ h + x + a <= 2 * (h + m)
          OBVIOUS
        <4>5. Head(replies') <= p.size /\ After(replies') <= HEADER_SIZE + p.size
          BY <2>2, <2>4, <3>2
        <4> HIDE DEF Rest, After
        <4>6. /\ HEADER_SIZE + Head(replies') + After(replies') \in Nat
              /\ HEADER_SIZE + Head(replies') + After(replies') <= 2 * (HEADER_SIZE + p.size)
          BY <1>1, <4>1, <4>4, <4>5, Zenon
        <4> QED  BY <1>1, <4>3, <4>6, Zenon
      <3> QED  BY <3>1, <3>2
    <2>5. Accounts'
      <3>1. ASSUME NoneLonger(batch)
            PROVE  Len(wire') + Rest' <= 2 * (wrote' - rx' - got')
        BY <1>1, <1>2, <1>3, <2>1, <2>4, <3>1
      <3>2. Size' = HEADER_SIZE  BY <1>2 DEF Size
      <3> QED  BY <1>2, <2>2, <3>1, <3>2 DEF Invariant, Accounts
    <2> QED  BY <2>3, <2>5 DEF Invariant
  <1> QED  BY <1>4, <1>5

\* What an unfinished reply looks like.
LEMMA Unfinished ==
  ASSUME Invariant, ~Idle
  PROVE  /\ replies \in Seq(Nat) /\ Len(replies) <= 2 /\ replies # << >>
         /\ Head(replies) \in Nat /\ After(replies) \in Nat
         /\ Size \in Nat /\ sent_size \in Nat /\ sent_size <= Size
         /\ Length \in Nat /\ Length <= TxMax /\ sent_size + Length <= Size
         /\ part \in {"header", "data"}
         /\ Rest = Size - sent_size + (IF part = "header" THEN Head(replies) ELSE 0)
                    + After(replies)
         /\ Rest \in Nat /\ Rest >= Length
  <1> USE Numbers
  <1>1. /\ replies \in Seq(Nat) /\ replies # << >> /\ Len(replies) <= 2
        /\ sent_size \in Nat /\ sent_size <= Size /\ part \in {"header", "data"}
    BY DEF Invariant, TypeOK, Accounts, Idle
  <1>2. Head(replies) \in Nat /\ After(replies) \in Nat
    BY <1>1, QueueFacts
  <1>3. Size \in Nat
    BY <1>2 DEF Size
  <1>4. Length \in Nat /\ Length <= TxMax /\ sent_size + Length <= Size
    BY <1>1, <1>3 DEF Length
  <1>5. Rest = Size - sent_size + (IF part = "header" THEN Head(replies) ELSE 0)
               + After(replies)
    BY DEF Rest
  <1>6. Rest \in Nat /\ Rest >= Length
    BY <1>1, <1>2, <1>3, <1>4, <1>5
  <1> QED  BY <1>1, <1>2, <1>3, <1>4, <1>5, <1>6

\* Giving a reply up, or being done with it, leaves the ones after it.
LEMMA NextReplyRest ==
  ASSUME Invariant, ~Idle, NextReply, sent_size' = 0
  PROVE  /\ replies' \in Seq(Nat) /\ Len(replies') <= 2
         /\ part' = "header" /\ reply' \in Nat
         /\ Rest' = After(replies)
  <1> USE Numbers
  <1>1. /\ replies \in Seq(Nat) /\ Len(replies) <= 2 /\ replies # << >>
    BY Unfinished
  <1>2. replies' = Tail(replies) /\ part' = "header" /\ reply' \in Nat
    BY DEF NextReply, Invariant, TypeOK
  <1>3. /\ replies' \in Seq(Nat) /\ Len(replies') <= 2
        /\ replies' = << >> => After(replies) = 0
        /\ replies' # << >> => After(replies) = HEADER_SIZE + Head(replies')
        /\ After(replies') = 0
    BY <1>1, <1>2, QueueFacts
  <1>4. CASE replies' = << >>
    <2>1. Rest' = 0  BY <1>4 DEF Rest, Idle
    <2> QED  BY <1>2, <1>3, <1>4, <2>1
  <1>5. CASE replies' # << >>
    <2>1. Head(replies') \in Nat  BY <1>3, <1>5, QueueFacts
    <2>2. Size' = HEADER_SIZE  BY <1>2 DEF Size
    <2>3. Rest' = HEADER_SIZE - 0 + Head(replies') + After(replies')
      BY <1>2, <1>5, <2>2 DEF Rest, Idle, After
    <2> QED  BY <1>2, <1>3, <1>5, <2>1, <2>3
  <1> QED  BY <1>4, <1>5

\* send gives the chip the next Length bytes of the reply: as many fewer are
\* left, of it or of what comes after it.
LEMMA SendPays ==
  ASSUME Invariant, Send
  PROVE  /\ replies' \in Seq(Nat) /\ Len(replies') <= 2
         /\ part' \in {"header", "data"} /\ reply' \in Nat /\ sent_size' \in Nat
         /\ ~Idle' => sent_size' <= Size'
         /\ Idle' => part' = "header" /\ sent_size' = 0
         /\ Rest' + Length = Rest /\ Rest' \in Int
  <1> USE Numbers
  <1>1. ~Idle
    BY DEF Send
  <1>2. /\ replies \in Seq(Nat) /\ Len(replies) <= 2 /\ replies # << >>
        /\ Head(replies) \in Nat /\ After(replies) \in Nat
        /\ Size \in Nat /\ sent_size \in Nat /\ sent_size <= Size
        /\ Length \in Nat /\ sent_size + Length <= Size
        /\ part \in {"header", "data"}
        /\ Rest = Size - sent_size + (IF part = "header" THEN Head(replies) ELSE 0)
                   + After(replies)
    BY <1>1, Unfinished
  <1>3. CASE sent_size + Length < Size
    <2>1. sent_size' = sent_size + Length /\ UNCHANGED <<replies, reply, part>>
      BY <1>3 DEF Send, Advance, Remains
    <2>2. Size' = Size /\ ~Idle'
      BY <1>1, <2>1 DEF Size, Idle
    <2>3. Rest' = Size - sent_size' + (IF part = "header" THEN Head(replies) ELSE 0)
                  + After(replies)
      BY <2>1, <2>2 DEF Rest, After
    <2>4. Rest' + Length = Rest
      BY <1>2, <2>1, <2>3
    <2>5. sent_size' \in Nat /\ sent_size' <= Size'
      BY <1>2, <1>3, <2>1, <2>2
    <2>6. reply \in Nat  BY DEF Invariant, TypeOK
    <2>7. Rest' \in Int  BY <1>2, <2>1, <2>3
    <2> QED  BY <1>2, <2>1, <2>2, <2>4, <2>5, <2>6, <2>7
  <1>4. CASE ~(sent_size + Length < Size)
    <2>1. Sent /\ sent_size' = 0 /\ sent_size + Length = Size
      BY <1>2, <1>4 DEF Send, Sent, Remains
    <2>2. CASE part = "header" /\ Head(replies) > 0
      <3>1. part' = "data" /\ UNCHANGED <<replies, reply>>
        BY <2>1, <2>2 DEF Sent
      <3>2. Size' = Head(replies) /\ ~Idle'
        BY <1>1, <3>1 DEF Size, Idle
      <3>3. Rest' = Head(replies) - 0 + 0 + After(replies)
        BY <2>1, <3>1, <3>2 DEF Rest, After
      <3>4. Rest' + Length = Rest
        <4>1. Rest = Size - sent_size + Head(replies) + After(replies)
          BY <1>2, <2>2
        <4>2. Size - sent_size = Length
          BY <1>2, <2>1
        <4>3. \A l, h, a \in Nat : (h - 0 + 0 + a) + l = l + h + a
          OBVIOUS
        <4>4. (Head(replies) - 0 + 0 + After(replies)) + Length
                = Length + Head(replies) + After(replies)
          BY <1>2, <4>3, Zenon
        <4> QED  BY <3>3, <4>1, <4>2, <4>4, Zenon
      <3>5. reply \in Nat  BY DEF Invariant, TypeOK
      <3>6. Rest' \in Int  BY <1>2, <3>3
      <3> QED  BY <1>2, <2>1, <3>1, <3>2, <3>4, <3>5, <3>6
    <2>3. CASE ~(part = "header" /\ Head(replies) > 0)
      <3>1. NextReply
        BY <2>1, <2>3 DEF Sent
      <3>2. /\ replies' \in Seq(Nat) /\ Len(replies') <= 2
            /\ part' = "header" /\ reply' \in Nat
            /\ Rest' = After(replies)
        BY <1>1, <2>1, <3>1, NextReplyRest
      <3>3. Rest' + Length = Rest
        <4>1. (IF part = "header" THEN Head(replies) ELSE 0) = 0
          <5>1. \A h \in Nat : ~(h > 0) => h = 0  OBVIOUS
          <5> QED  BY <1>2, <2>3, <5>1, Zenon
        <4>2. Size - sent_size = Length
          BY <1>2, <2>1
        <4>3. \A l, a \in Nat : a + l = l + 0 + a
          OBVIOUS
        <4>4. After(replies) + Length = Length + 0 + After(replies)
          BY <1>2, <4>3, Zenon
        <4> QED  BY <1>2, <3>2, <4>1, <4>2, <4>4, Zenon
      <3>4. Size' = HEADER_SIZE
        BY <3>2 DEF Size
      <3>5. Rest' \in Int  BY <1>2, <3>2
      <3> QED  BY <2>1, <3>2, <3>3, <3>4, <3>5
    <2> QED  BY <2>2, <2>3
  <1> QED  BY <1>3, <1>4

LEMMA SendPreserves ==
  ASSUME Invariant, Send
  PROVE  Invariant'
  <1> USE Numbers
  <1>1. ~Idle
    BY DEF Send
  <1>2. /\ replies \in Seq(Nat) /\ Len(replies) <= 2 /\ replies # << >>
        /\ Head(replies) \in Nat /\ After(replies) \in Nat
        /\ Size \in Nat /\ sent_size \in Nat /\ sent_size <= Size
        /\ Length \in Nat /\ sent_size + Length <= Size
        /\ part \in {"header", "data"}
        /\ Rest = Size - sent_size + (IF part = "header" THEN Head(replies) ELSE 0)
                   + After(replies)
    BY <1>1, Unfinished
  <1>3. /\ tx \in Nat /\ tx' = tx + Length /\ tx' \in 0..TxMax
        /\ UNCHANGED <<sr, rx, got, next, peer, connections>>
    BY <1>2 DEF Send, Room, Invariant, TypeOK
  <1>4. wire' \in Seq(Nat \X Nat \X Nat) /\ Len(wire') = Len(wire) + Length
    <2> DEFINE new == [i \in 1..Length |->
                         <<reply, Before + sent_size + i, HEADER_SIZE + Head(replies)>>]
    <2>1. Before \in Nat  BY DEF Before
    <2>2. \A i \in 1..Length :
            <<reply, Before + sent_size + i, HEADER_SIZE + Head(replies)>>
              \in Nat \X Nat \X Nat
      <3>1. reply \in Nat /\ HEADER_SIZE + Head(replies) \in Nat
        BY <1>2 DEF Invariant, TypeOK
      <3>2. \A b, c \in Nat : \A i \in 1..Length : b + c + i \in Nat
        BY <1>2
      <3>3. \A i \in 1..Length : Before + sent_size + i \in Nat
        BY <1>2, <2>1, <3>2, Zenon
      <3> QED  BY <3>1, <3>3, Zenon
    <2>3. new \in Seq(Nat \X Nat \X Nat) /\ Len(new) = Length
      BY <1>2, <2>2
    <2>4. wire' = wire \o new  BY DEF Send
    <2>5. wire \in Seq(Nat \X Nat \X Nat)  BY DEF Invariant, TypeOK
    <2> HIDE DEF new
    <2> QED  BY <2>3, <2>4, <2>5, ConcatProperties
  <1>5. /\ replies' \in Seq(Nat) /\ Len(replies') <= 2
        /\ part' \in {"header", "data"} /\ reply' \in Nat /\ sent_size' \in Nat
        /\ ~Idle' => sent_size' <= Size'
        /\ Idle' => part' = "header" /\ sent_size' = 0
        /\ Rest' + Length = Rest /\ Rest' \in Int
    BY SendPays
  <1>6. TypeOK'
    BY <1>3, <1>4, <1>5 DEF Invariant, TypeOK, Send, peer
  <1>7. held' + tx' <= Len(wire')
    BY <1>2, <1>3, <1>4 DEF Invariant, TypeOK, Accounts, peer
  <1>8. Rest \in Nat
    BY <1>1, Unfinished
  <1>9. NoneLonger(batch') => Len(wire') + Rest' <= 2 * (wrote' - rx' - got')
    <2>1. /\ NoneLonger(batch) => Len(wire) + Rest <= 2 * (wrote - rx - got)
          /\ Len(wire) \in Nat
      BY DEF Invariant, TypeOK, Accounts
    <2>2. Len(wire') + Rest' = Len(wire) + Rest
      BY <1>2, <1>4, <1>5, <1>8, <2>1
    <2> QED  BY <1>3, <2>1, <2>2 DEF peer
  <1> QED  BY <1>5, <1>6, <1>7, <1>9 DEF Invariant, Accounts

LEMMA SendErrorPreserves ==
  ASSUME Invariant, SendError
  PROVE  Invariant'
  <1> USE Numbers
  <1>1. ~Idle /\ NextReply /\ sent_size' = 0
        /\ UNCHANGED <<sr, rx, tx, sending, sendok, got, next, peer, connections, wire>>
    BY DEF SendError
  <1>2. /\ replies' \in Seq(Nat) /\ Len(replies') <= 2
        /\ part' = "header" /\ reply' \in Nat
        /\ Rest' = After(replies)
    BY <1>1, NextReplyRest
  <1>3. /\ Head(replies) \in Nat /\ After(replies) \in Nat
        /\ Size \in Nat /\ sent_size \in Nat /\ sent_size <= Size
        /\ Rest = Size - sent_size + (IF part = "header" THEN Head(replies) ELSE 0)
                   + After(replies)
    BY <1>1, Unfinished
  <1>4. Rest' <= Rest /\ Rest' \in Nat /\ Rest \in Nat
    BY <1>2, <1>3
  <1>5. TypeOK'
    <2>1. is_sending' \in BOOLEAN
      BY DEF SendError, Invariant, TypeOK
    <2> QED  BY <1>1, <1>2, <2>1 DEF Invariant, TypeOK, peer
  <1>6. NoneLonger(batch') => Len(wire') + Rest' <= 2 * (wrote' - rx' - got')
    BY <1>1, <1>4 DEF Invariant, TypeOK, Accounts, peer
  <1>7. Size' = HEADER_SIZE
    BY <1>2 DEF Size
  <1> QED  BY <1>1, <1>2, <1>5, <1>6, <1>7 DEF Invariant, Accounts, peer

\* The steps that leave the firmware's side of the accounts alone.
LEMMA LoopKept ==
  ASSUME Invariant, UNCHANGED <<replies, part, sent_size>>
  PROVE  Rest' = Rest /\ Idle' = Idle /\ Size' = Size
  BY DEF Rest, Idle, Size

LEMMA TransmitPreserves ==
  ASSUME Invariant, NEW n \in 1..TxMax, Transmit(n)
  PROVE  Invariant'
  <1>1. UNCHANGED <<sr, rx, sending, sendok, is_sending, loop, batch, wrote, connections, wire>>
        /\ tx' = tx - n /\ held' = held + n /\ n <= tx /\ held + n <= Window
    BY DEF Transmit
  <1>2. TypeOK'
    BY <1>1, Numbers DEF Invariant, TypeOK, loop
  <1>3. Rest' = Rest /\ Idle' = Idle /\ Size' = Size
    BY <1>1, LoopKept DEF loop
  <1>4. held' + tx' = held + tx
    BY <1>1, Numbers DEF Invariant, TypeOK
  <1> QED  BY <1>1, <1>2, <1>3, <1>4 DEF Invariant, Accounts, loop

LEMMA PeerWritePreserves ==
  ASSUME Invariant, NEW n \in 1..RxMax, PeerWrite(n)
  PROVE  Invariant'
  <1>1. UNCHANGED <<sr, tx, sending, sendok, is_sending, loop, batch, held, connections, wire>>
        /\ wrote' = wrote + n /\ rx' = rx + n /\ rx + n <= RxMax
    BY DEF PeerWrite
  <1>2. TypeOK'
    BY <1>1, Numbers DEF Invariant, TypeOK, loop
  <1>3. Rest' = Rest /\ Idle' = Idle /\ Size' = Size
    BY <1>1, LoopKept DEF loop
  <1>4. wrote' - rx' - got' = wrote - rx - got
    BY <1>1, Numbers DEF Invariant, TypeOK, loop
  <1> QED  BY <1>1, <1>2, <1>3, <1>4 DEF Invariant, Accounts, loop

LEMMA PeerReadPreserves ==
  ASSUME Invariant, NEW n \in 1..Window, PeerRead(n)
  PROVE  Invariant'
  <1>1. UNCHANGED <<chip, loop, batch, wrote, connections, wire>>
        /\ held' = held - n /\ n <= held
    BY DEF PeerRead
  <1>2. TypeOK'
    BY <1>1, Numbers DEF Invariant, TypeOK, loop, chip
  <1>3. Rest' = Rest /\ Idle' = Idle /\ Size' = Size
    BY <1>1, LoopKept DEF loop
  <1>4. held' + tx' <= Len(wire')
    BY <1>1, Numbers DEF Invariant, TypeOK, Accounts, chip
  <1> QED  BY <1>1, <1>2, <1>3, <1>4 DEF Invariant, Accounts, loop, chip

LEMMA ReconnectPreserves ==
  ASSUME Invariant, NEW b \in Batches, Reconnect(b)
  PROVE  Invariant'
  <1> USE Numbers
  <1>1. replies' = << >> /\ part' = "header" /\ sent_size' = 0
    BY DEF Invariant, Accounts, Reconnect, Idle
  <1>2. /\ rx' \in 0..RxMax /\ tx' \in 0..TxMax /\ held' \in 0..Window
        /\ connections' \in 0..MaxConnections
    BY DEF Reconnect, Invariant, TypeOK
  <1>3. replies' \in Seq(Nat) /\ wire' \in Seq(Nat \X Nat \X Nat) /\ Len(wire') = 0
    BY <1>1, EmptySeq DEF Reconnect
  <1>4. next' \in 0..Len(batch') /\ batch' \in Batches \cup {<< >>}
    <2>1. b \in Seq(Packet)  BY BatchesAssumption
    <2>2. Len(b) \in Nat  BY <2>1
    <2> QED  BY <2>2 DEF Reconnect
  <1>5. TypeOK'
    <2>1. /\ sr' \in {"CLOSED", "ESTABLISHED", "CLOSE_WAIT", "LAST_ACK"}
          /\ sending' \in BOOLEAN /\ sendok' \in BOOLEAN /\ is_sending' \in BOOLEAN
      BY DEF Reconnect
    <2>2. /\ got' \in Nat /\ part' \in {"header", "data"} /\ sent_size' \in Nat
          /\ wrote' \in Nat /\ reply' \in Nat
      BY <1>1 DEF Reconnect
    <2> QED  BY <1>2, <1>3, <1>4, <2>1, <2>2 DEF TypeOK
  <1>6. Rest' = 0 /\ Len(replies') = 0
    BY <1>1, EmptySeq DEF Rest, Idle
  <1>7. Accounts'
    BY <1>1, <1>3, <1>6 DEF Accounts, Reconnect, Idle
  <1> QED  BY <1>5, <1>7 DEF Invariant

\* Steps that change flags of the socket only.
LEMMA FlagsPreserve ==
  ASSUME Invariant, UNCHANGED <<rx, tx, loop, peer, connections, wire>>,
         sr' \in {"CLOSED", "ESTABLISHED", "CLOSE_WAIT", "LAST_ACK"},
         sending' \in BOOLEAN, sendok' \in BOOLEAN, is_sending' \in BOOLEAN
  PROVE  Invariant'
  <1>1. TypeOK'
    BY DEF Invariant, TypeOK, loop, peer
  <1>2. Rest' = Rest /\ Idle' = Idle /\ Size' = Size
    BY LoopKept DEF loop
  <1> QED  BY <1>1, <1>2 DEF Invariant, Accounts, loop, peer

LEMMA InvariantPreserved ==
  ASSUME Invariant, [Next]_vars
  PROVE  Invariant'
  <1>1. CASE \E b \in Batches : Reconnect(b)
    BY <1>1, ReconnectPreserves
  <1>2. CASE Disconnect
    BY <1>2, FlagsPreserve DEF Disconnect, Invariant, TypeOK
  <1>3. CASE Reading
    BY <1>3, ReceivePreserves DEF Reading
  <1>4. CASE Send
    BY <1>4, SendPreserves
  <1>5. CASE SendBusy
    BY <1>5, FlagsPreserve DEF SendBusy, Invariant, TypeOK
  <1>6. CASE SendError
    BY <1>6, SendErrorPreserves
  <1>7. CASE Transmitting
    BY <1>7, TransmitPreserves DEF Transmitting
  <1>8. CASE SendOk
    BY <1>8, FlagsPreserve DEF SendOk, Invariant, TypeOK
  <1>9. CASE SocketCloses
    BY <1>9, FlagsPreserve DEF SocketCloses, Invariant, TypeOK
  <1>10. CASE PeerWriting
    BY <1>10, PeerWritePreserves DEF PeerWriting
  <1>11. CASE PeerReading
    BY <1>11, PeerReadPreserves DEF PeerReading
  <1>12. CASE PeerClose
    BY <1>12, FlagsPreserve DEF PeerClose, Invariant, TypeOK
  <1>13. CASE UNCHANGED vars
    BY <1>13, FlagsPreserve DEF vars, chip, Invariant, TypeOK
  <1> QED
    BY <1>1, <1>2, <1>3, <1>4, <1>5, <1>6, <1>7, <1>8, <1>9, <1>10, <1>11,
       <1>12, <1>13 DEF Next, Sending

LEMMA AlwaysInvariant == Spec => []Invariant
  <1>1. Invariant /\ [Next]_vars => Invariant'
    BY InvariantPreserved
  <1> QED  BY <1>1, InitInvariant, PTL DEF Spec

-----------------------------------------------------------------------------
\* send never overruns the chip's transmit memory, and the other variables
\* keep their types, for all batches and all sizes of the buffers.
THEOREM TypeCorrect == Spec => []TypeOK
  <1>1. Invariant => TypeOK  BY DEF Invariant
  <1> QED  BY <1>1, AlwaysInvariant, PTL

\* wiz_sendb and a peer that writes before it reads wait for one another only
\* when the batch is larger than the buffers between them, for all sizes.
THEOREM WaitsOnlyIfOversized == Spec => []MutualWaitOversized
  <1>1. Invariant => MutualWaitOversized
    <2> SUFFICES ASSUME Invariant, MutualWait, NoneLonger(batch)
                 PROVE  2 * (Total - 1 - RxMax) > TxMax + Window
      BY DEF MutualWaitOversized
    <2>1. /\ ~Idle /\ Length > TxMax - tx /\ held = Window
          /\ wrote < Total /\ rx = RxMax
      BY Numbers, Unfinished DEF MutualWait, Room, Invariant, TypeOK
    <2>2. /\ Length \in Nat /\ Rest \in Nat /\ Rest >= Length
      BY <2>1, Unfinished
    <2>3. Total \in Nat
      BY BatchesAssumption DEF Total, Invariant, TypeOK
    <2>4. /\ tx \in Nat /\ rx \in Nat /\ got \in Nat /\ wrote \in Nat /\ Len(wire) \in Nat
          /\ held + tx <= Len(wire) /\ Len(wire) + Rest <= 2 * (wrote - rx - got)
      BY Numbers DEF Invariant, TypeOK, Accounts
    <2> QED  BY <2>1, <2>2, <2>3, <2>4, Numbers
  <1> QED  BY <1>1, AlwaysInvariant, PTL

-----------------------------------------------------------------------------
(***************************************************************************)
(* What the peer gets.  The bytes on the wire follow one another, and the  *)
(* last one is where wiz_sendb and the processor think they are.           *)
(***************************************************************************)
Chain(w) ==
  w # << >> =>
    /\ w[1] = <<1, 1, w[1][3]>>
    /\ \A i \in 1..Len(w) - 1 : Follows(w[i], w[i + 1])

\* The last byte of w is byte p of reply r, which is z bytes long.
LastIs(w, r, p, z) == w # << >> /\ w[Len(w)] = <<r, p, z>>

\* The last byte of w is the last one of reply r.
Ends(w, r) == w[Len(w)][1] = r /\ w[Len(w)][2] = w[Len(w)][3]

\* Byte p of reply r, or the beginning of r after the one before it, is where
\* the bytes of w end.
EndsAt(w, r, p, z) ==
  IF w = << >> THEN r = 1 /\ p = 0
  ELSE \/ w[Len(w)] = <<r, p, z>>
       \/ /\ p = 0 /\ w[Len(w)][1] + 1 = r
          /\ w[Len(w)][2] = w[Len(w)][3]

\* No reply is under way.
Rests(w, r) == IF w = << >> THEN r = 0 ELSE Ends(w, r)

\* The bytes of the reply under way.
Reply == HEADER_SIZE + Head(replies)

Cursor ==
  IF Idle THEN Rests(wire, reply)
          ELSE EndsAt(wire, reply, Before + sent_size, Reply)

Unsent == ~Idle => sent_size < Size

WireInv == Unsent /\ (Connected => Chain(wire) /\ Cursor)

\* The bytes of reply r after byte p, at least one.
Continues(new, r, p, z) ==
  /\ new \in Seq(Nat \X Nat \X Nat) /\ Len(new) > 0
  /\ \A i \in 1..Len(new) : new[i] = <<r, p + i, z>>

\* The next bytes of a reply, or its first ones.
LEMMA Extend ==
  ASSUME NEW w \in Seq(Nat \X Nat \X Nat), NEW r \in Nat, NEW p \in Nat, NEW z \in Nat,
         Chain(w), EndsAt(w, r, p, z),
         NEW new \in Seq(Nat \X Nat \X Nat), Continues(new, r, p, z)
  PROVE  Chain(w \o new) /\ LastIs(w \o new, r, p + Len(new), z)
  <1> DEFINE n == Len(new)
             v == w \o new
  <1>1. n \in Nat /\ n > 0
    BY DEF Continues
  <1>2. \A i \in 1..n : new[i] = <<r, p + i, z>>
    BY DEF Continues
  <1>3. /\ v \in Seq(Nat \X Nat \X Nat) /\ Len(v) = Len(w) + n
        /\ \A i \in 1..Len(w) + n : v[i] = IF i <= Len(w) THEN w[i] ELSE new[i - Len(w)]
    BY ConcatProperties DEF Continues
  <1> HIDE DEF n, v
  <1>4. Len(w) \in Nat /\ Len(v) = Len(w) + n
    BY <1>3
  <1>5. \A j \in 1..n : v[Len(w) + j] = <<r, p + j, z>>
    <2> TAKE j \in 1..n
    <2> DEFINE k == Len(w) + j
    <2>1. k \in 1..Len(w) + n /\ ~(k <= Len(w)) /\ k - Len(w) = j
      BY <1>1, <1>4
    <2> HIDE DEF k
    <2>2. v[k] = new[k - Len(w)]
      BY <1>3, <2>1
    <2>3. v[k] = <<r, p + j, z>>
      BY <1>2, <2>1, <2>2, Zenon
    <2> QED BY <2>3 DEF k
  <1>6. \A j \in 1..Len(w) : v[j] = w[j]
    <2> TAKE j \in 1..Len(w)
    <2>1. j \in 1..Len(w) + n /\ j <= Len(w)
      BY <1>1, <1>4
    <2> QED BY <1>3, <2>1, Zenon
  <1>7. v # << >>
    <2>1. Len(v) # 0
      BY <1>1, <1>3, <1>4
    <2> QED BY <2>1, EmptySeq
  <1>8. v[Len(v)] = <<r, p + n, z>>
    <2>1. n \in 1..n
      BY <1>1
    <2> QED BY <1>3, <1>5, <2>1, Zenon
  <1>9. v[1] = <<1, 1, v[1][3]>>
    <2>1. CASE w = << >>
      <3>1. Len(w) = 0 /\ r = 1 /\ p = 0
        BY <2>1, EmptySeq DEF EndsAt
      <3>2. 1 \in 1..n /\ Len(w) + 1 = 1 /\ p + 1 = 1
        BY <1>1, <3>1
      <3>3. v[1] = <<1, 1, z>>
        BY <1>5, <3>1, <3>2, Zenon
      <3>4. <<1, 1, z>>[3] = z
        OBVIOUS
      <3> QED BY <3>3, <3>4, Zenon
    <2>2. CASE w # << >>
      <3>1. Len(w) # 0
        BY <2>2, EmptySeq
      <3>2. 1 \in 1..Len(w)
        BY <1>4, <3>1
      <3> QED BY <1>6, <2>2, <3>2, Zenon DEF Chain
    <2> QED BY <2>1, <2>2
  <1>10. ASSUME NEW i \in 1..Len(v) - 1
         PROVE  Follows(v[i], v[i + 1])
    <2> DEFINE l == Len(w)
    <2>0. l \in Nat /\ i \in Nat /\ i >= 1 /\ i < l + n
      BY <1>1, <1>4
    <2>a. \A j \in 1..n : v[l + j] = <<r, p + j, z>>
      BY <1>5
    <2>b. \A j \in 1..l : v[j] = w[j]
      BY <1>6
    <2>c. l # 0 => w # << >>
      BY EmptySeq
    <2>d. w # << >> => \A j \in 1..l - 1 : Follows(w[j], w[j + 1])
      BY Zenon DEF Chain
    <2>e. w # << >> => \/ w[l] = <<r, p, z>>
                       \/ p = 0 /\ w[l][1] + 1 = r /\ w[l][2] = w[l][3]
      BY Zenon DEF EndsAt
    <2> HIDE DEF l
    <2>1. CASE i < l
      <3>1. i \in 1..l /\ i + 1 \in 1..l /\ i \in 1..l - 1
        BY <2>0, <2>1
      <3>2. w # << >>
        <4>1. l # 0
          BY <3>1
        <4> QED BY <4>1, <2>c, Zenon
      <3>3. Follows(w[i], w[i + 1])
        BY <3>1, <3>2, <2>d, Zenon
      <3> QED BY <2>b, <3>1, <3>3, Zenon
    <2>2. CASE i = l
      <3>1. i \in 1..l /\ 1 \in 1..n /\ l # 0
        BY <1>1, <2>0, <2>2
      <3>2. w # << >>
        BY <3>1, <2>c, Zenon
      <3>3. v[i] = w[l] /\ v[i + 1] = <<r, p + 1, z>>
        BY <2>a, <2>b, <2>2, <3>1, Zenon
      <3>4. CASE w[l] = <<r, p, z>>
        <4>1. <<r, p, z>>[1] = r /\ <<r, p, z>>[2] = p /\ <<r, p, z>>[3] = z
          OBVIOUS
        <4> QED BY <3>3, <3>4, <4>1, Zenon DEF Follows
      <3>5. CASE p = 0 /\ w[l][1] + 1 = r /\ w[l][2] = w[l][3]
        <4>1. p + 1 = 1
          BY <3>5
        <4>2. v[i + 1] = <<w[l][1] + 1, 1, z>>
          BY <3>3, <3>5, <4>1, Zenon
        <4>3. <<w[l][1] + 1, 1, z>>[3] = z
          OBVIOUS
        <4> QED BY <3>3, <3>5, <4>2, <4>3, Zenon DEF Follows
      <3> QED BY <3>2, <3>4, <3>5, <2>e, Zenon
    <2>3. CASE i > l
      <3> DEFINE j == i - l
      <3>1. /\ j \in 1..n /\ j + 1 \in 1..n
            /\ l + j = i /\ l + (j + 1) = i + 1
            /\ p + (j + 1) = (p + j) + 1
        BY <1>1, <2>0, <2>3
      <3>2. v[i] = <<r, p + j, z>> /\ v[i + 1] = <<r, (p + j) + 1, z>>
        BY <2>a, <3>1, Zenon
      <3>3. /\ <<r, p + j, z>>[1] = r /\ <<r, p + j, z>>[2] = p + j
            /\ <<r, p + j, z>>[3] = z
        OBVIOUS
      <3> HIDE DEF j
      <3>4. v[i][1] = r /\ v[i][2] = p + j /\ v[i][3] = z
        BY <3>2, <3>3, Zenon
      <3>5. v[i + 1] = <<v[i][1], v[i][2] + 1, v[i][3]>>
        BY <3>2, <3>4, Zenon
      <3> QED BY <3>5, Zenon DEF Follows
    <2>4. i < l \/ i = l \/ i > l
      BY <2>0
    <2> QED BY <2>1, <2>2, <2>3, <2>4, Zenon
  <1>11. Chain(v)
    BY <1>9, <1>10 DEF Chain
  <1>12. LastIs(v, r, p + n, z)
    BY <1>7, <1>8, Zenon DEF LastIs
  <1> QED BY <1>11, <1>12, Zenon DEF n, v

LEMMA SendKeepsWire ==
  ASSUME Invariant, WireInv, Send
  PROVE  WireInv'
  <1> USE Numbers
  <1>1. ~Idle /\ Connected /\ Connected' /\ Chain(wire)
        /\ EndsAt(wire, reply, Before + sent_size, Reply)
    <2>1. sr' = sr /\ ~Idle /\ Connected
      BY DEF Send
    <2> QED BY <2>1 DEF WireInv, Cursor, Connected
  <1>2. /\ replies \in Seq(Nat) /\ Len(replies) <= 2 /\ replies # << >>
        /\ Head(replies) \in Nat /\ Size \in Nat /\ sent_size \in Nat
        /\ sent_size < Size /\ Length \in Nat /\ sent_size + Length <= Size
        /\ part \in {"header", "data"} /\ reply \in Nat /\ Before \in Nat
        /\ Reply \in Nat
    <2>1. Before \in Nat
      BY DEF Before
    <2>2. reply \in Nat
      BY DEF Invariant, TypeOK
    <2>3. sent_size < Size
      BY <1>1 DEF WireInv, Unsent
    <2>4. Head(replies) \in Nat
      BY <1>1, Unfinished
    <2>5. Reply \in Nat
      BY <2>4 DEF Reply
    <2> QED BY <1>1, <2>1, <2>2, <2>3, <2>5, Unfinished
  <1>3. Length > 0
    BY <1>2 DEF Length
  <1> DEFINE p == Before + sent_size
  <1>4. p \in Nat /\ wire \in Seq(Nat \X Nat \X Nat)
    BY <1>2 DEF Invariant, TypeOK
  <1>5. wire' = wire \o [i \in 1..Length |-> <<reply, p + i, Reply>>]
    BY DEF Send, Reply
  <1>6. EndsAt(wire, reply, p, Reply)
    BY <1>1
  <1> HIDE DEF p
  <1>7. wire' # << >> /\ Chain(wire') /\ wire'[Len(wire')] = <<reply, p + Length, Reply>>
    <2> DEFINE new == [i \in 1..Length |-> <<reply, p + i, Reply>>]
    <2>1. new \in Seq(Nat \X Nat \X Nat) /\ Len(new) = Length
      <3>1. \A i \in 1..Length : <<reply, p + i, Reply>> \in Nat \X Nat \X Nat
        BY <1>2, <1>4
      <3> QED BY <1>2, <3>1
    <2>2. \A i \in 1..Length : new[i] = <<reply, p + i, Reply>>
      OBVIOUS
    <2>3. wire' = wire \o new
      BY <1>5
    <2>4. Continues(new, reply, p, Reply)
      BY <1>3, <2>1, <2>2, Zenon DEF Continues
    <2> HIDE DEF new
    <2>5. Chain(wire \o new) /\ LastIs(wire \o new, reply, p + Len(new), Reply)
      BY <1>1, <1>2, <1>4, <1>6, <2>1, <2>4, Extend, Zenon
    <2> QED BY <2>1, <2>3, <2>5, Zenon DEF LastIs
  <1>8. Unsent' /\ Cursor'
    <2>1. CASE sent_size + Length < Size
      <3>1. sent_size' = sent_size + Length /\ UNCHANGED <<replies, reply, part>>
        BY <2>1 DEF Send, Advance, Remains
      <3>2. Size' = Size /\ ~Idle' /\ Before' = Before
        BY <1>1, <3>1 DEF Size, Idle, Before
      <3>3. Unsent'
        BY <2>1, <3>1, <3>2 DEF Unsent
      <3>4. Before' + sent_size' = p + Length
        BY <1>2, <3>1, <3>2 DEF p
      <3>5. EndsAt(wire', reply', Before' + sent_size', Reply')
        BY <1>7, <3>1, <3>4, Zenon DEF EndsAt, Reply
      <3> QED BY <3>2, <3>3, <3>5, Zenon DEF Cursor
    <2>2. CASE ~(sent_size + Length < Size)
      <3>1. Sent /\ sent_size' = 0 /\ p + Length = Before + Size
        <4>1. Sent /\ sent_size' = 0
          BY <2>2 DEF Send, Sent, Remains
        <4> QED BY <1>2, <2>2, <4>1 DEF p
      <3>2. CASE part = "header" /\ Head(replies) > 0
        <4>1. part' = "data" /\ UNCHANGED <<replies, reply>>
          BY <3>1, <3>2 DEF Sent
        <4>2. Size' = Head(replies) /\ ~Idle' /\ Before' = HEADER_SIZE
          BY <1>1, <4>1 DEF Size, Idle, Before
        <4>3. Unsent'
          BY <3>1, <3>2, <4>2 DEF Unsent
        <4>4. Before' + sent_size' = p + Length
          BY <3>1, <3>2, <4>2 DEF Size, Before
        <4>5. EndsAt(wire', reply', Before' + sent_size', Reply')
          BY <1>7, <4>1, <4>4, Zenon DEF EndsAt, Reply
        <4> QED BY <4>2, <4>3, <4>5, Zenon DEF Cursor
      <3>3. CASE ~(part = "header" /\ Head(replies) > 0)
        <4>1. NextReply
          BY <3>1, <3>3 DEF Sent
        <4>2. p + Length = Reply
          <5>1. CASE part = "header"
            <6>1. \A h \in Nat : ~(h > 0) => h = 0  OBVIOUS
            <6>2. Head(replies) = 0
              BY <1>2, <3>3, <5>1, <6>1, Zenon
            <6> QED BY <3>1, <5>1, <6>2 DEF Size, Before, Reply
          <5>2. CASE part # "header"
            BY <3>1, <5>2 DEF Size, Before, Reply
          <5> QED BY <5>1, <5>2
        <4>3. Ends(wire', reply)
          <5>1. /\ <<reply, p + Length, Reply>>[1] = reply
                /\ <<reply, p + Length, Reply>>[2] = p + Length
                /\ <<reply, p + Length, Reply>>[3] = Reply
            OBVIOUS
          <5> QED BY <1>7, <4>2, <5>1, Zenon DEF Ends
        <4>4. replies' = Tail(replies) /\ part' = "header"
              /\ reply' = IF Len(replies) > 1 THEN reply + 1 ELSE reply
          BY <4>1 DEF NextReply
        <4>5. /\ Len(replies) = 1 \/ Len(replies) = 2
              /\ Len(Tail(replies)) = Len(replies) - 1 /\ Tail(replies) \in Seq(Nat)
          BY <1>2, QueueFacts
        <4>6. Size' = HEADER_SIZE /\ Before' = 0 /\ Before' + sent_size' = 0
          BY <3>1, <4>4 DEF Size, Before
        <4>7. Unsent'
          BY <3>1, <4>6 DEF Unsent
        <4>8. CASE Len(replies) = 1
          <5>1. Len(Tail(replies)) = 0 /\ ~(Len(replies) > 1)
            BY <4>5, <4>8
          <5>2. Idle' /\ reply' = reply
            BY <4>4, <4>5, <5>1, EmptySeq DEF Idle
          <5>3. Rests(wire', reply')
            BY <1>7, <4>3, <5>2, Zenon DEF Rests
          <5> QED BY <4>7, <5>2, <5>3, Zenon DEF Cursor
        <4>9. CASE Len(replies) = 2
          <5>1. Len(Tail(replies)) # 0 /\ Len(replies) > 1
            BY <4>5, <4>9
          <5>2. ~Idle' /\ reply' = reply + 1
            BY <4>4, <5>1, EmptySeq DEF Idle
          <5>3. EndsAt(wire', reply', Before' + sent_size', Reply')
            BY <1>7, <4>3, <4>6, <5>2, Zenon DEF EndsAt, Ends
          <5> QED BY <4>7, <5>2, <5>3, Zenon DEF Cursor
        <4> QED BY <4>5, <4>8, <4>9
      <3> QED BY <3>2, <3>3
    <2> QED BY <2>1, <2>2
  <1> QED BY <1>1, <1>7, <1>8 DEF WireInv

LEMMA SendErrorKeepsWire ==
  ASSUME Invariant, WireInv, SendError
  PROVE  WireInv'
  <1>1. ~Connected /\ sr' = sr /\ part' = "header" /\ sent_size' = 0
    BY DEF SendError, NextReply
  <1>2. ~Connected'
    BY <1>1 DEF Connected
  <1>3. Unsent'
    BY <1>1, Numbers DEF Unsent, Size
  <1> QED BY <1>2, <1>3 DEF WireInv

LEMMA ReceiveKeepsWire ==
  ASSUME Invariant, WireInv, NEW n \in 1..RxMax, ReceiveBytes(n)
  PROVE  WireInv'
  <1>1. /\ Idle /\ UNCHANGED <<sr, wire, part, sent_size>>
        /\ part = "header" /\ sent_size = 0 /\ Connected
    BY DEF ReceiveBytes, Invariant, Accounts, Connected
  <1>2. Size' = HEADER_SIZE /\ Before' = 0 /\ Before' + sent_size' = 0
    BY <1>1 DEF Size, Before
  <1>3. Unsent'
    BY <1>1, Numbers DEF Unsent, Size
  <1>4. \/ UNCHANGED <<replies, reply>>
        \/ reply' = IF Idle' THEN reply ELSE reply + 1
    BY DEF ReceiveBytes, Idle
  <1>5. Chain(wire') /\ Rests(wire', reply) /\ Connected'
    BY <1>1 DEF WireInv, Cursor, Connected
  <1>6. Cursor'
    <2>1. CASE Idle'
      <3>1. reply' = reply
        BY <1>4, <2>1
      <3> QED BY <1>5, <2>1, <3>1 DEF Cursor
    <2>2. CASE ~Idle'
      <3>1. reply' = reply + 1
        BY <1>1, <1>4, <2>2 DEF Idle
      <3>2. CASE wire' = << >>
        <4>1. reply = 0
          BY <1>5, <3>2 DEF Rests
        <4>2. reply' = 1
          BY <3>1, <4>1
        <4> QED BY <1>2, <2>2, <3>2, <4>2, Zenon DEF Cursor, EndsAt
      <3>3. CASE wire' # << >>
        <4>1. Ends(wire', reply)
          BY <1>5, <3>3, Zenon DEF Rests
        <4> QED BY <1>2, <2>2, <3>1, <3>3, <4>1, Zenon DEF Cursor, EndsAt, Ends
      <3> QED BY <3>2, <3>3
    <2> QED BY <2>1, <2>2
  <1> QED BY <1>3, <1>5, <1>6 DEF WireInv

LEMMA ReconnectKeepsWire ==
  ASSUME Invariant, WireInv, NEW b \in Batches, Reconnect(b)
  PROVE  WireInv'
  <1>1. Idle' /\ wire' = << >> /\ reply' = 0
    BY DEF Reconnect, Idle
  <1> QED BY <1>1 DEF WireInv, Unsent, Chain, Cursor, Rests

\* A step that leaves the replies and the wire alone, and connects nothing.
LEMMA OthersKeepWire ==
  ASSUME WireInv, UNCHANGED <<loop, wire>>, Connected' => Connected
  PROVE  WireInv'
  BY DEF WireInv, Unsent, Chain, Cursor, Rests, EndsAt, Ends, Reply, Idle, Size,
         Before, loop

LEMMA WireInvKept ==
  ASSUME Invariant, WireInv, [Next]_vars
  PROVE  WireInv'
  <1>1. CASE \E b \in Batches : Reconnect(b)
    BY <1>1, ReconnectKeepsWire
  <1>2. CASE Reading
    BY <1>2, ReceiveKeepsWire DEF Reading
  <1>3. CASE Send
    BY <1>3, SendKeepsWire
  <1>4. CASE SendError
    BY <1>4, SendErrorKeepsWire
  <1>5. CASE Disconnect \/ SocketCloses \/ PeerClose
    BY <1>5, OthersKeepWire DEF Disconnect, SocketCloses, PeerClose, Connected
  <1>6. CASE SendBusy \/ SendOk
    BY <1>6, OthersKeepWire DEF SendBusy, SendOk, Connected
  <1>7. CASE Transmitting \/ PeerWriting \/ PeerReading
    BY <1>7, OthersKeepWire DEF Transmitting, Transmit, PeerWriting, PeerWrite,
       PeerReading, PeerRead, Connected, chip
  <1>8. CASE UNCHANGED vars
    BY <1>8, OthersKeepWire DEF vars, chip, Connected
  <1> QED BY <1>1, <1>2, <1>3, <1>4, <1>5, <1>6, <1>7, <1>8 DEF Next, Sending

LEMMA AlwaysWireInv == Spec => [](Invariant /\ WireInv)
  <1>1. Init => WireInv
    BY EmptySeq DEF Init, WireInv, Unsent, Connected, Idle
  <1>2. Invariant /\ WireInv /\ [Next]_vars => WireInv'
    BY WireInvKept
  <1> QED BY <1>1, <1>2, AlwaysInvariant, PTL DEF Spec

\* On a connection the peer gets the replies one after the other, each from its
\* first byte to its last, for all batches and all sizes of the buffers:
\* wiz_sendb and send_tcp_packet3 repeat and skip nothing, however often send
\* takes only a part.
THEOREM RepliesInOrder == Spec => []WireIsReplies
  <1>1. WireInv => WireIsReplies
    <2> SUFFICES ASSUME WireInv, Connected
                 PROVE  WireIsReplies
      BY DEF WireIsReplies
    <2>1. Chain(wire) /\ Cursor
      BY DEF WireInv
    <2>2. CASE wire = << >>
      BY <2>1, <2>2, Zenon DEF WireIsReplies, Cursor, Rests, EndsAt
    <2>3. CASE wire # << >>
      BY <2>1, <2>3, Zenon
         DEF WireIsReplies, Chain, Cursor, Rests, EndsAt, Ends, Reply
    <2> QED BY <2>2, <2>3
  <1> QED BY <1>1, AlwaysWireInv, PTL

-----------------------------------------------------------------------------
(***************************************************************************)
(* sock_is_sending.  While the socket is connected the flag stands from    *)
(* the SEND command until send has seen its SENDOK; a SENDOK that nobody   *)
(* has seen is therefore that of the last SEND, and none is under way.     *)
(***************************************************************************)
Flags ==
  Connected => /\ sending => is_sending /\ ~sendok
               /\ sendok => is_sending

LEMMA FlagsKept == ASSUME TypeOK, Flags, [Next]_vars PROVE Flags'
  <1>1. CASE \E b \in Batches : Reconnect(b)
    BY <1>1 DEF Reconnect, Flags
  <1>2. CASE Disconnect \/ SocketCloses
    BY <1>2 DEF Disconnect, SocketCloses, Flags, Connected
  <1>3. CASE PeerClose
    BY <1>3 DEF PeerClose, Flags, Connected
  <1>4. CASE Send
    <2>1. ~is_sending \/ sendok
      BY <1>4 DEF Send, MaySend
    <2>2. sendok' = (sendok /\ ~is_sending) /\ is_sending' /\ Connected
      BY <1>4 DEF Send
    <2>3. sendok => is_sending
      BY <2>2 DEF Flags
    <2> QED BY <2>2, <2>3 DEF Flags
  <1>5. CASE SendBusy
    BY <1>5 DEF SendBusy, Flags, Connected
  <1>6. CASE SendError
    BY <1>6 DEF SendError, Flags, Connected
  <1>7. CASE SendOk
    BY <1>7 DEF SendOk, Flags, Connected
  <1>8. CASE Reading \/ Transmitting \/ PeerWriting \/ PeerReading \/ UNCHANGED vars
    BY <1>8 DEF Reading, ReceiveBytes, Transmitting, Transmit, PeerWriting,
       PeerWrite, PeerReading, PeerRead, vars, chip, Flags, Connected
  <1> QED BY <1>1, <1>2, <1>3, <1>4, <1>5, <1>6, <1>7, <1>8 DEF Next, Sending

\* send gives the chip a SEND command only when the one before it is complete,
\* for all batches, sizes of the buffers and ends of connections: no way out
\* of send, close or disconnect leaves sock_is_sending out of date.
THEOREM SendsOneAtATime == Spec => OneSendAtATime
  <1>1. Init => Flags
    BY DEF Init, Flags
  <1>2. TypeOK /\ Flags /\ [Next]_vars => Flags'
    BY FlagsKept
  <1>3. TypeOK /\ Flags /\ [Next]_vars => [tx' > tx => ~sending]_vars
    <2> SUFFICES ASSUME TypeOK, Flags, Next, tx' > tx PROVE ~sending
      BY DEF vars, chip, TypeOK
    <2>1. CASE Send
      BY <2>1 DEF Send, MaySend, Flags
    <2>2. CASE \E b \in Batches : Reconnect(b)
      BY <2>2 DEF Reconnect, TypeOK
    <2>3. CASE Transmitting
      BY <2>3, Numbers DEF Transmitting, Transmit, TypeOK
    <2>4. tx' = tx \/ Send \/ Transmitting \/ \E b \in Batches : Reconnect(b)
      BY DEF Next, Sending, Disconnect, Reading, ReceiveBytes, SendBusy, SendError,
         SendOk, SocketCloses, PeerWriting, PeerWrite, PeerReading, PeerRead,
         PeerClose, chip
    <2> QED BY <2>1, <2>2, <2>3, <2>4 DEF TypeOK
  <1> QED BY <1>1, <1>2, <1>3, TypeCorrect, PTL DEF Spec, OneSendAtATime

-----------------------------------------------------------------------------
(***************************************************************************)
(* What RepliesRead needs of the states and the steps: wiz_sendb waits     *)
(* only for the chip or the peer, and what it has left to send only gets   *)
(* less.  That the chip and the peer go on is fairness, which TLC adds.    *)
(***************************************************************************)
\* A SEND command whose SENDOK has not been seen is under way, or its SENDOK
\* is there to be seen.
Owed == Connected /\ is_sending => sending \/ sendok

LEMMA OwedKept == Owed /\ [Next]_vars => Owed'
  <1> SUFFICES ASSUME Owed, [Next]_vars PROVE Owed'
    OBVIOUS
  <1>1. CASE \E b \in Batches : Reconnect(b)
    BY <1>1 DEF Reconnect, Owed
  <1>2. CASE Disconnect \/ SocketCloses \/ PeerClose
    BY <1>2 DEF Disconnect, SocketCloses, PeerClose, Owed, Connected
  <1>3. CASE Sending
    BY <1>3 DEF Sending, Send, SendBusy, SendError, Owed, Connected
  <1>4. CASE SendOk
    BY <1>4 DEF SendOk, Owed
  <1>5. CASE Reading \/ Transmitting \/ PeerWriting \/ PeerReading \/ UNCHANGED vars
    BY <1>5 DEF Reading, ReceiveBytes, Transmitting, Transmit, PeerWriting,
       PeerWrite, PeerReading, PeerRead, vars, chip, Owed, Connected
  <1> QED BY <1>1, <1>2, <1>3, <1>4, <1>5 DEF Next

\* What a call of send on a connection can meet: it is asked for at least one
\* byte, and takes it or finds the chip busy with bytes it was given before.
SendWaits ==
  Connected /\ ~Idle =>
    /\ Length > 0
    /\ \/ MaySend /\ Room
       \/ sending                       \* until the chip raises SENDOK
       \/ tx > 0                        \* until the peer takes some

\* wiz_sendb never asks send for 0 bytes, which is an error, and never waits
\* for a SENDOK that nobody raises or for room in an empty memory: whatever
\* the sizes of the replies and of the memory.
THEOREM SendWaitsForChipOrPeer == Spec => []SendWaits
  <1>1. Invariant /\ WireInv /\ Owed => SendWaits
    <2> SUFFICES ASSUME Invariant, WireInv, Owed, Connected, ~Idle
                 PROVE  Length > 0 /\ ((MaySend /\ Room) \/ sending \/ tx > 0)
      BY DEF SendWaits
    <2>1. /\ Size \in Nat /\ sent_size \in Nat /\ sent_size < Size
          /\ Length \in Nat /\ Length <= TxMax /\ tx \in Nat
      BY Unfinished DEF WireInv, Unsent, Invariant, TypeOK
    <2>2. Length > 0
      BY <2>1, Numbers DEF Length
    <2>3. CASE MaySend
      BY <2>1, <2>2, <2>3, Numbers DEF Room
    <2>4. CASE ~MaySend
      BY <2>2, <2>4 DEF MaySend, Owed
    <2> QED BY <2>3, <2>4
  <1>2. Init => Owed
    BY DEF Init, Owed
  <1> QED BY <1>1, <1>2, OwedKept, AlwaysWireInv, PTL DEF Spec

\* A step of a reply: the bytes that the chip is given are paid for.
Pays == ~Idle => Rest' <= Rest /\ (tx' > tx => Rest' + (tx' - tx) = Rest)

\* What wiz_sendb has left to send never gets more during a reply, and each
\* byte that the chip takes makes it less by one: no byte is given twice, none
\* is left out, and no retry begins again.
THEOREM RepliesPaidOff == Spec => [][Pays]_vars
  <1>1. Invariant /\ [Next]_vars => [Pays]_vars
    <2> SUFFICES ASSUME Invariant, Next, ~Idle
                 PROVE  Rest' <= Rest /\ (tx' > tx => Rest' + (tx' - tx) = Rest)
      BY DEF Pays
    <2>1. Rest \in Nat /\ Length \in Nat /\ tx \in Nat
      BY Unfinished DEF Invariant, TypeOK
    <2>2. CASE Send
      BY <2>1, <2>2, SendPays DEF Send
    <2>3. CASE SendError
      <3>1. Rest' = After(replies) /\ tx' = tx
        BY <2>3, NextReplyRest DEF SendError
      <3>2. After(replies) \in Nat /\ Rest >= After(replies)
        BY Unfinished
      <3> QED BY <2>1, <3>1, <3>2
    <2>4. CASE ~Send /\ ~SendError
      <3>1. UNCHANGED <<replies, part, sent_size>> /\ tx' <= tx
        BY <2>1, <2>4, Numbers
           DEF Next, Reconnect, Disconnect, Reading, ReceiveBytes, Sending, SendBusy,
               Transmitting, Transmit, SendOk, SocketCloses, PeerWriting, PeerWrite,
               PeerReading, PeerRead, PeerClose, loop, chip
      <3>2. Rest' = Rest
        BY <3>1, LoopKept
      <3>3. Invariant'
        BY InvariantPreserved
      <3>4. tx' \in 0..TxMax
        BY <3>3, Zenon DEF Invariant, TypeOK
      <3>5. tx' \in Nat
        BY <3>4, Numbers
      <3>6. ~(tx' > tx)
        BY <2>1, <3>1, <3>5
      <3>7. Rest' <= Rest
        BY <2>1, <3>2
      <3> QED BY <3>6, <3>7, Zenon
    <2> QED BY <2>2, <2>3, <2>4
  <1> QED BY <1>1, AlwaysInvariant, PTL DEF Spec
=============================================================================
