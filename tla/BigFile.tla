------------------------------- MODULE BigFile -------------------------------
(***************************************************************************)
(* The reception of a file in fragments: receive_bigfile_from_packet,      *)
(* alloc_bigfile_info_from_packet and extract_bigfile (comm/comm_tcp3.c)   *)
(* as tcp_packet3_processor calls them, with a sender whose packets arrive *)
(* in order but may be missing: dropped by the receive path for want of    *)
(* memory, discarded with a connection, or never sent because the sender   *)
(* gave the transfer up.                                                   *)
(*                                                                         *)
(* The bytes of a fragment are abstracted to its name, <<transfer,         *)
(* number>>, and its length.  malloc may fail at every call; a block       *)
(* allocated for p_big is named by a number never used before.             *)
(*                                                                         *)
(* The size and the count a file is announced with are numbers of atoi     *)
(* that nothing checks: they are kept as unsigned int, and the size of the *)
(* block is calculated from them modulo 2^32.  A copy that leaves its      *)
(* block has undefined behaviour, of which the model says nothing more.    *)
(***************************************************************************)
EXTENDS Integers, Sequences

CONSTANTS
  Transfers,        \* [name, size, count, frags, crc] a sender may send
  Ids,              \* identifiers, unsigned char in the code
  Word,             \* 2^32: unsigned int, and the size malloc takes
  Record,           \* offset of buf in struct bigfile_recv_rec
  Slack,            \* bytes asked for beyond the record, the name and the file
  Heap,             \* the greatest block malloc has
  MaxTransfers,     \* bound: transfers begun
  MaxLost,          \* bound: packets that do not reach the receiver
  MaxFailures       \* bound: failed allocations

\* declared is the size in the fragment's own header, length the bytes in the
\* packet, offset where the sender read them in its file.
Fragments == [offset : Nat, declared : Nat, length : Nat]

\* name is the length of the file's name; size and count are what atoi makes
\* of the text they are sent as.
Announced == [name : Nat, size : Int, count : Int, frags : Seq(Fragments),
              crc : {0, 1}]

ASSUME TransfersAssumption ==
  /\ Transfers \subseteq Announced
  /\ Word \in Nat \ {0} /\ Record \in Nat /\ Slack \in Nat /\ Heap \in Nat
  /\ MaxTransfers \in Nat /\ MaxLost \in Nat /\ MaxFailures \in Nat

VARIABLES
  p_big,            \* static p_big: NULL or the record it points to
  remain_size,      \* static remain_size
  remain_count,     \* static remain_count
  p_contents,       \* static p_contents: block and offset in its contents
  live,             \* the blocks allocated for p_big and not freed
  blocks,           \* how many have been allocated
  ret,              \* last result of receive_bigfile_from_packet
  buffers,          \* contents buffers allocated and not freed
  names,            \* file name copies allocated and not freed
  undefined,        \* a copy has left its block
  begun,            \* history: the transfers begun, in order
  usedIds,          \* history: the identifier of each
  pos,              \* packets of the current transfer the sender has sent
  intact,           \* history: all of those were received, and memory found
  lost,             \* packets lost so far
  failures,         \* allocation failures so far
  reported          \* history: files reported to the processor

statics == <<p_big, remain_size, remain_count, p_contents>>
heap == <<live, blocks, buffers, names, undefined>>
sender == <<begun, usedIds, pos>>
vars == <<statics, heap, ret, sender, intact, lost, failures, reported>>

\* No block: its name is 0, that of no allocated block.
NULL == [id |-> 0, size |-> 0, count |-> 0, next |-> 0, block |-> 0,
         room |-> 0, transfer |-> 0, pieces |-> << >>]

\* The transfer under way.
Current == begun[Len(begun)]
Id == usedIds[Len(begun)]

Init ==
  /\ p_big = NULL /\ remain_size = 0 /\ remain_count = 0
  /\ p_contents = [block |-> 0, offset |-> 0]
  /\ live = {} /\ blocks = 0 /\ ret = 1 /\ buffers = 0 /\ names = 0
  /\ undefined = FALSE
  /\ begun = << >> /\ usedIds = << >> /\ pos = 0 /\ intact = FALSE
  /\ lost = 0 /\ failures = 0 /\ reported = << >>

-----------------------------------------------------------------------------
(***************************************************************************)
(* The sender and the way to the receiver.                                 *)
(***************************************************************************)
Packets(t) == Len(t.frags) + 2      \* BIGFILE_START, the fragments, END

\* A new transfer, whether or not the one before was sent to its end.
Begin(t, id) ==
  /\ Len(begun) < MaxTransfers
  /\ begun' = Append(begun, t)
  /\ usedIds' = Append(usedIds, id)
  /\ pos' = 0
  /\ intact' = TRUE
  /\ UNCHANGED <<statics, heap, ret, lost, failures, reported>>

Lose ==
  /\ begun # << >> /\ pos < Packets(Current)
  /\ lost < MaxLost
  /\ lost' = lost + 1
  /\ pos' = pos + 1
  /\ intact' = FALSE
  /\ UNCHANGED <<statics, heap, ret, begun, usedIds, failures, reported>>

\* The next packet of the transfer reaches the processor.
Arrives(first, last) ==
  /\ begun # << >>
  /\ pos \in first..last
  /\ pos' = pos + 1
  /\ UNCHANGED <<begun, usedIds, lost>>

MemoryFound == UNCHANGED <<intact, failures>>

\* malloc of so many bytes fails.
NoMemory(bytes) ==
  /\ failures < MaxFailures \/ bytes > Heap
  /\ failures' = failures + 1
  /\ intact' = FALSE

-----------------------------------------------------------------------------
(***************************************************************************)
(* receive_bigfile_from_packet, BIGFILE_START.                             *)
(***************************************************************************)
Unsigned(n) == n % Word

\* The record and the name with its terminator, the contents' offset.
Before(t) == Record + t.name + 1

\* Mutant of Needed: the name is left out.
NeededNoName(t) == Record + Unsigned(t.size) + Slack

\* The bytes the file needs, and mem_size, what is asked for.
Needed(t) == Before(t) + Unsigned(t.size) + Slack
MemSize(t) == Unsigned(Needed(t))

\* room is what the block has for the contents.
NewFile ==
  [id |-> Id, size |-> Unsigned(Current.size), count |-> Unsigned(Current.count),
   next |-> 0, block |-> blocks + 1, room |-> MemSize(Current) - Before(Current),
   transfer |-> Len(begun), pieces |-> << >>]

\* Mutant of Freed: the block of an unfinished file is forgotten.
FreedNothing == live

\* free(p_big)
Freed == live \ {p_big.block}

\* An unfinished file is given up; remain_size, remain_count and p_contents
\* keep the values they had for it.  The record and the name are written
\* whether or not the block has room for them.
ReceiveStart ==
  /\ Arrives(0, 0)
  /\ MemSize(Current) <= Heap
  /\ undefined' = (NewFile.room < 0)
  /\ p_big' = NewFile
  /\ blocks' = blocks + 1
  /\ live' = Freed \cup {blocks + 1}
  /\ ret' = 1
  /\ MemoryFound
  /\ UNCHANGED <<remain_size, remain_count, p_contents, buffers, names, reported>>

\* No memory for the packet's contents or for p_big: p_big is NULL.
ReceiveStartNoMemory ==
  /\ Arrives(0, 0)
  /\ NoMemory(MemSize(Current))
  /\ p_big' = NULL
  /\ live' = Freed
  /\ ret' = -1
  /\ UNCHANGED <<remain_size, remain_count, p_contents, blocks, buffers, names,
                 undefined, reported>>

-----------------------------------------------------------------------------
(***************************************************************************)
(* What BIGFILE_FRAG and BIGFILE_END have in common.                       *)
(***************************************************************************)
Reject ==
  /\ ret' = -1
  /\ UNCHANGED <<heap, reported, p_big>>

Abandon ==
  /\ p_big' = NULL
  /\ live' = Freed
  /\ ret' = -1
  /\ UNCHANGED <<blocks, buffers, names, undefined, reported>>

\* The packet's identifier is that of p_big; its mutant does not compare them.
SameFileMutant == TRUE
SameFile == p_big.id = Id

\* p_big is NULL, or it belongs to another identifier.
Ignore ==
  /\ Arrives(1, Len(Current.frags) + 1)
  /\ p_big = NULL \/ ~SameFile
  /\ Reject
  /\ MemoryFound
  /\ UNCHANGED <<remain_size, remain_count, p_contents>>

\* extract_packet_contents returns NULL, before the identifier is looked at.
ContentsNoMemory ==
  /\ Arrives(1, Len(Current.frags) + 1)
  /\ p_big # NULL
  /\ NoMemory(0)
  /\ Abandon
  /\ UNCHANGED <<remain_size, remain_count, p_contents>>

-----------------------------------------------------------------------------
(***************************************************************************)
(* BIGFILE_FRAG.                                                           *)
(***************************************************************************)
Number == pos - 1
Fragment == Current.frags[pos]

\* Mutant of RemainSize: not set by the first fragment.
RemainSizeKept == remain_size

\* The three counters as they are once the first fragment has set them.
RemainSize == IF p_big.next = 0 THEN p_big.size ELSE remain_size
RemainCount == IF p_big.next = 0 THEN p_big.count ELSE remain_count
Destination ==
  IF p_big.next = 0 THEN [block |-> p_big.block, offset |-> 0] ELSE p_contents

\* Mutant of Acceptable: frag_size is not compared with remain_size.
AcceptableAnySize ==
  /\ RemainCount > 0
  /\ Number = p_big.next
  /\ Fragment.declared = Fragment.length

\* frag_number, frag_size and the size calculated from the packet agree with
\* what is expected.
Acceptable ==
  /\ RemainCount > 0
  /\ Number = p_big.next
  /\ Fragment.declared <= RemainSize
  /\ Fragment.declared = Fragment.length

ReceiveFragment ==
  /\ Arrives(1, Len(Current.frags))
  /\ p_big # NULL /\ SameFile

\* The contents are copied to p_contents, which the tests above compare with
\* the announced size and not with the block.  The buffer they were extracted
\* to is not freed on this path.
CopyFragment ==
  /\ ReceiveFragment
  /\ Acceptable
  /\ LET size == Fragment.declared IN
     /\ p_contents' = [Destination EXCEPT !.offset = @ + size]
     /\ remain_count' = RemainCount - 1
     /\ remain_size' = RemainSize - size
     /\ p_big' = [p_big EXCEPT
                    !.next = @ + 1,
                    !.pieces = Append(@, [block |-> Destination.block,
                                          offset |-> Destination.offset,
                                          length |-> size,
                                          name |-> <<Len(begun), Number>>])]
     /\ undefined' = (\/ Destination.block # p_big.block
                      \/ Destination.offset + size > p_big.room)
  /\ buffers' = buffers + 1
  /\ ret' = 1
  /\ MemoryFound
  /\ UNCHANGED <<live, blocks, names, reported>>

RejectFragment ==
  /\ ReceiveFragment
  /\ ~Acceptable
  /\ remain_size' = RemainSize
  /\ remain_count' = RemainCount
  /\ p_contents' = Destination
  /\ Reject
  /\ MemoryFound

-----------------------------------------------------------------------------
(***************************************************************************)
(* BIGFILE_END and extract_bigfile.                                        *)
(***************************************************************************)
ReceiveEnd ==
  /\ begun # << >>
  /\ Arrives(Len(Current.frags) + 1, Len(Current.frags) + 1)
  /\ p_big # NULL /\ SameFile
  /\ UNCHANGED <<remain_size, remain_count, p_contents>>

\* Mutant of Ended: only the fragments are counted.
EndedByCount == remain_count = 0 /\ Current.crc = 0

\* The counters, whichever file they were last set for, and the checksum type.
Ended == remain_size = 0 /\ remain_count = 0 /\ Current.crc = 0

RejectEnd ==
  /\ ReceiveEnd
  /\ ~Ended
  /\ Abandon
  /\ MemoryFound

\* extract_bigfile finds fragments missing; p_big is kept.
EndTooEarly ==
  /\ ReceiveEnd
  /\ Ended
  /\ p_big.count # p_big.next
  /\ Reject
  /\ MemoryFound

Extract ==
  /\ ReceiveEnd
  /\ Ended
  /\ p_big.count = p_big.next

\* The copy of the contents has a terminator.
CopySize == Unsigned(p_big.size + 1)

\* No memory for the copy of the name, or for that of the contents once the
\* name is copied; p_big is kept.
EndNoMemory ==
  /\ Extract
  /\ NoMemory(CopySize)
  /\ names' \in {names, names + 1}
  /\ ret' = -1
  /\ UNCHANGED <<live, blocks, buffers, undefined, reported, p_big>>

\* As many bytes are copied as were announced: more than the block has.
EndOutside ==
  /\ Extract
  /\ CopySize <= Heap /\ p_big.size > p_big.room
  /\ undefined' = TRUE
  /\ MemoryFound
  /\ UNCHANGED <<live, blocks, buffers, names, ret, reported, p_big>>

\* The file is copied, p_big freed, and the processor frees the copies.
FileReceived ==
  /\ Extract
  /\ CopySize <= Heap /\ p_big.size <= p_big.room
  /\ reported' = Append(reported, p_big)
  /\ p_big' = NULL
  /\ live' = Freed
  /\ ret' = 0
  /\ MemoryFound
  /\ UNCHANGED <<blocks, buffers, names, undefined>>

-----------------------------------------------------------------------------
receive_bigfile_from_packet ==
  \/ ReceiveStart
  \/ ReceiveStartNoMemory
  \/ Ignore
  \/ ContentsNoMemory
  \/ CopyFragment
  \/ RejectFragment
  \/ RejectEnd
  \/ EndTooEarly
  \/ EndNoMemory
  \/ EndOutside
  \/ FileReceived

Next ==
  /\ ~undefined
  /\ \/ \E t \in Transfers, id \in Ids : Begin(t, id)
     \/ Lose
     \/ receive_bigfile_from_packet

Spec == Init /\ [][Next]_vars

-----------------------------------------------------------------------------
(***************************************************************************)
(* Properties.                                                             *)
(***************************************************************************)
Pieces == [block : Nat, offset : Nat, length : Nat, name : Nat \X Nat]
Files == [id : Ids \cup {0}, size : Nat, count : Nat, next : Nat, block : Nat,
          room : Int, transfer : Nat, pieces : Seq(Pieces)]

\* The variables keep their types; the unsigned remain_size and remain_count
\* never pass below 0.
TypeOK ==
  /\ p_big \in Files
  /\ remain_size \in Nat /\ remain_count \in Nat
  /\ p_contents \in [block : Nat, offset : Nat]
  /\ blocks \in Nat /\ live \subseteq 1..blocks
  /\ ret \in {-1, 0, 1} /\ buffers \in Nat /\ names \in Nat
  /\ undefined \in BOOLEAN
  /\ begun \in Seq(Transfers) /\ usedIds \in Seq(Ids)
  /\ Len(usedIds) = Len(begun)
  /\ pos \in Nat
  /\ intact \in BOOLEAN /\ lost \in Nat /\ failures \in Nat
  /\ reported \in Seq(Files)

\* The copies of file f's fragments went to its block, the first to the start
\* of the contents and each of the others next to the one before.
Tiled(f) ==
  /\ Len(f.pieces) = f.next
  /\ \A j \in 1..f.next :
       /\ f.pieces[j].block = f.block
       /\ f.pieces[j].offset =
            IF j = 1 THEN 0
                     ELSE f.pieces[j - 1].offset + f.pieces[j - 1].length

Inside(f) ==
  \A j \in 1..f.next : f.pieces[j].offset + f.pieces[j].length <= f.room

\* The bytes the file needs are more than an unsigned int holds, as when its
\* size is announced as -1: the block is smaller than the announced size.
Wraps(t) == Needed(t) >= Word

(***************************************************************************)
(* Whatever is lost, repeated under the same identifier or given up, the   *)
(* copies of receive_bigfile_from_packet stay inside the block they are    *)
(* for, although p_contents, remain_size and remain_count outlive it, and  *)
(* so does the copy of extract_bigfile: provided mem_size, calculated from *)
(* the announced size, has not wrapped.  Where it has nothing of the kind  *)
(* is promised: the fragments are compared with the announced size, and    *)
(* the model reaches copies outside the block.                             *)
(***************************************************************************)
CopiesInside ==
  /\ undefined => p_big # NULL /\ Wraps(begun[p_big.transfer])
  /\ p_big # NULL /\ ~Wraps(begun[p_big.transfer]) => Tiled(p_big) /\ Inside(p_big)

\* A file that is reported with fragments is covered by them to its last byte.
ReportedWhole ==
  \A i \in 1..Len(reported) :
    LET f == reported[i] IN
    /\ Tiled(f) /\ Inside(f)
    /\ f.next = f.count
    /\ f.next > 0 => f.pieces[f.next].offset + f.pieces[f.next].length = f.size

\* The block p_big points to is the only one allocated: none is lost on the
\* return paths of receive_bigfile_from_packet, and p_big never dangles.
OneBlock == live = IF p_big = NULL THEN {} ELSE {p_big.block}

\* The sender read its fragments one after the other to the end of a file whose
\* size and number of fragments fit their types.
Honest(t) ==
  /\ t.count = Len(t.frags) /\ t.crc = 0
  /\ t.count < Word /\ t.size < Word /\ ~Wraps(t)
  /\ \A j \in 1..t.count :
       /\ t.frags[j].declared = t.frags[j].length
       /\ t.frags[j].offset + t.frags[j].length <= t.size
       /\ t.frags[j].offset =
            IF j = 1 THEN 0 ELSE t.frags[j - 1].offset + t.frags[j - 1].length
  /\ t.size = IF t.count = 0
                THEN 0
                ELSE t.frags[t.count].offset + t.frags[t.count].length

\* The last packet of a transfer of which every packet was received.
LastPacketOfIntact ==
  /\ begun # << >> /\ begun' = begun
  /\ pos = Packets(Current) - 1 /\ pos' = Packets(Current)
  /\ intact /\ intact'
  /\ Honest(Current)

\* receive_bigfile_from_packet reports a file that was sent to its end and of
\* which every packet was received, whatever was left behind by the transfers
\* before it - provided it has a fragment.  (A file too large for the heap is
\* not received: malloc fails at its BIGFILE_START.)
IntactReported ==
  [][LastPacketOfIntact /\ Current.count > 0 => ret' = 0]_vars

\* extract_packet_contents returns "contents (dynamic allocated)"
\* (comm_tcp3.c:415), and every return path frees them.
ContentsFreed == buffers = 0

\* Two transfers carried the same identifier.
Reused == \E i, j \in 1..Len(usedIds) : i < j /\ usedIds[i] = usedIds[j]

\* As long as no identifier is used twice, the receiver implements
\* FileTransfer: fragments of different transfers are never mixed, files come
\* once and in order.
Transfer == INSTANCE FileTransfer WITH
  Counts <- {Unsigned(t.count) : t \in Transfers},
  begun <- [k \in 1..Len(begun) |-> Unsigned(begun[k].count)],
  reported <- [i \in 1..Len(reported) |->
                 [transfer |-> reported[i].transfer,
                  pieces |-> [j \in 1..Len(reported[i].pieces) |->
                                reported[i].pieces[j].name]]]

TransferSpec ==
  Transfer!Init /\ [][Transfer!Next \/ Reused']_(Transfer!vars)
=============================================================================
