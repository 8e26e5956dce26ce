--------------------------- MODULE BigFile_proofs ---------------------------
(***************************************************************************)
(* Proofs about BigFile, for every set of transfers and identifiers, any   *)
(* number of transfers, losses and failed allocations.                     *)
(***************************************************************************)
EXTENDS BigFile, TLAPS

\* Unsigned numbers, and one that is its own value.
LEMMA UnsignedType == \A n \in Int : Unsigned(n) \in Nat /\ Unsigned(n) < Word
<1> SUFFICES ASSUME NEW n \in Int PROVE n % Word \in Nat /\ n % Word < Word
  BY DEF Unsigned
<1>1. Word \in Nat /\ Word > 0
  BY TransfersAssumption
<1> QED
  BY <1>1

LEMMA UnsignedOwn == \A n \in Nat : n < Word => Unsigned(n) = n
<1>1. Word \in Nat /\ Word > 0
  BY TransfersAssumption
<1> QED
  BY <1>1 DEF Unsigned

\* A block has p_big's name exactly when p_big is not NULL.
Named == p_big = NULL \/ (p_big.block \in 1..blocks /\ p_big.transfer > 0)

(***************************************************************************)
(* The counters belong to p_big once it has a fragment, and only then: the *)
(* fact that makes the statics left by an earlier file harmless for the    *)
(* copies.                                                                 *)
(***************************************************************************)
Counters ==
  p_big # NULL /\ p_big.next > 0 =>
    /\ p_contents.block = p_big.block
    /\ p_contents.offset + remain_size = p_big.size
    /\ remain_count + p_big.next = p_big.count
    /\ p_contents.offset = p_big.pieces[p_big.next].offset
                             + p_big.pieces[p_big.next].length

\* p_big is what the BIGFILE_START of its transfer announced.
FromStart ==
  p_big # NULL =>
    /\ p_big.transfer \in 1..Len(begun)
    /\ p_big.size = Unsigned(begun[p_big.transfer].size)
    /\ p_big.count = Unsigned(begun[p_big.transfer].count)
    /\ p_big.room = MemSize(begun[p_big.transfer]) - Before(begun[p_big.transfer])

\* Also of a file whose mem_size has wrapped: the copies lie next to each other,
\* and inside the block as long as none has left it.
CopiesTiled ==
  p_big # NULL => Tiled(p_big) /\ (~undefined => Inside(p_big))

UndefinedWraps == undefined => p_big # NULL /\ Wraps(begun[p_big.transfer])

IInv ==
  /\ TypeOK
  /\ Named
  /\ OneBlock
  /\ FromStart
  /\ CopiesTiled
  /\ UndefinedWraps
  /\ Counters
  /\ ReportedWhole

LEMMA CurrentType ==
  ASSUME TypeOK, begun # << >>
  PROVE  /\ Len(begun) \in 1..Len(begun)
         /\ Current \in Transfers
         /\ Current \in Announced
         /\ Id \in Ids
<1>1. Len(begun) \in Nat /\ Len(begun) > 0
  BY DEF TypeOK
<1>2. Current \in Transfers /\ Id \in Ids
  BY <1>1 DEF TypeOK, Current, Id
<1> QED
  BY <1>1, <1>2, TransfersAssumption

LEMMA FragmentType ==
  ASSUME TypeOK, ReceiveFragment
  PROVE  /\ begun # << >> /\ pos \in 1..Len(Current.frags)
         /\ Fragment \in Fragments
         /\ Number \in Nat
<1>1. begun # << >> /\ pos \in 1..Len(Current.frags)
  BY DEF ReceiveFragment, Arrives
<1>2. Current.frags \in Seq(Fragments)
  BY <1>1, CurrentType DEF Announced
<1> QED
  BY <1>1, <1>2 DEF Fragment, Number

\* A number of bytes that has not wrapped leaves room for the announced size.
LEMMA RoomForSize ==
  ASSUME NEW t \in Announced, ~Wraps(t)
  PROVE  MemSize(t) - Before(t) >= Unsigned(t.size)
<1>0. t.name \in Nat /\ t.size \in Int
  BY DEF Announced
<1>1. /\ Before(t) \in Nat /\ Slack \in Nat /\ Word \in Nat
      /\ Unsigned(t.size) \in Nat
  BY <1>0, TransfersAssumption, UnsignedType DEF Before
<1>2. Needed(t) \in Nat /\ Needed(t) < Word
  BY <1>1 DEF Needed, Wraps
<1>3. MemSize(t) = Needed(t)
  BY <1>2, UnsignedOwn DEF MemSize
<1> QED
  BY <1>1, <1>3 DEF Needed

LEMMA FileRoom ==
  ASSUME TypeOK, FromStart, p_big # NULL, ~Wraps(begun[p_big.transfer])
  PROVE  p_big.size <= p_big.room
<1>1. begun[p_big.transfer] \in Announced
  BY TransfersAssumption DEF TypeOK, FromStart
<1>2. /\ p_big.size = Unsigned(begun[p_big.transfer].size)
      /\ p_big.room = MemSize(begun[p_big.transfer]) - Before(begun[p_big.transfer])
  BY DEF FromStart
<1>3. MemSize(begun[p_big.transfer]) - Before(begun[p_big.transfer])
        >= Unsigned(begun[p_big.transfer].size)
  BY <1>1, RoomForSize
<1>4. p_big.size \in Nat /\ p_big.room \in Int
  BY DEF TypeOK, Files
<1> QED
  BY <1>2, <1>3, <1>4

LEMMA NewFileType ==
  ASSUME TypeOK, begun # << >>
  PROVE  /\ NewFile \in Files /\ NewFile # NULL
         /\ NewFile.block = blocks + 1 /\ NewFile.next = 0 /\ NewFile.pieces = << >>
         /\ NewFile.transfer = Len(begun) /\ NewFile.id = Id
         /\ NewFile.size = Unsigned(Current.size)
         /\ NewFile.count = Unsigned(Current.count)
         /\ NewFile.room = MemSize(Current) - Before(Current)
<1>1. Current \in Announced /\ Id \in Ids /\ Len(begun) \in Nat /\ blocks \in Nat
  BY CurrentType DEF TypeOK
<1>a. Current.name \in Nat /\ Current.size \in Int /\ Current.count \in Int
  BY <1>1 DEF Announced
<1>2. /\ Unsigned(Current.size) \in Nat /\ Unsigned(Current.count) \in Nat
      /\ Before(Current) \in Nat /\ Slack \in Nat
  <2>1. Unsigned(Current.size) \in Nat /\ Unsigned(Current.count) \in Nat
    BY <1>a, UnsignedType
  <2>2. Before(Current) \in Nat /\ Slack \in Nat
    BY <1>a, TransfersAssumption DEF Before
  <2> QED
    BY <2>1, <2>2
<1>b. Needed(Current) \in Int
  BY <1>2 DEF Needed
<1>3. MemSize(Current) \in Nat
  BY <1>b, UnsignedType DEF MemSize
<1>4. MemSize(Current) - Before(Current) \in Int
  BY <1>2, <1>3
<1>5. << >> \in Seq(Pieces)
  OBVIOUS
<1>6. NewFile \in Files
  BY <1>1, <1>2, <1>4, <1>5 DEF NewFile, Files
<1>7. NewFile.block = blocks + 1
  BY DEF NewFile
<1>8. NewFile.block # NULL.block
  BY <1>1, <1>7 DEF NULL
<1> QED
  BY <1>6, <1>8 DEF NewFile

LEMMA NullFile == NULL \in Files /\ NULL.block = 0
<1>1. << >> \in Seq(Pieces)
  OBVIOUS
<1> QED
  BY <1>1 DEF NULL, Files

LEMMA InitIInv == Init => IInv
<1> SUFFICES ASSUME Init PROVE IInv
  OBVIOUS
<1> USE DEF Init
<1>1. TypeOK
  <2>1. /\ << >> \in Seq(Transfers) /\ << >> \in Seq(Ids) /\ << >> \in Seq(Files)
        /\ Len(begun) = 0 /\ Len(usedIds) = 0
    OBVIOUS
  <2> QED
    BY <2>1, NullFile DEF TypeOK
<1>2. /\ Named /\ OneBlock /\ FromStart /\ CopiesTiled /\ UndefinedWraps
      /\ Counters /\ ReportedWhole
  BY DEF Named, OneBlock, FromStart, CopiesTiled, UndefinedWraps, Counters,
     ReportedWhole
<1> QED
  BY <1>1, <1>2 DEF IInv

LEMMA IntactPreserved == TypeOK /\ [Next]_vars => intact' \in BOOLEAN
<1> SUFFICES ASSUME TypeOK, [Next]_vars PROVE intact' \in BOOLEAN
  OBVIOUS
<1>1. intact \in BOOLEAN
  BY DEF TypeOK
<1>2. intact' = TRUE \/ intact' = FALSE \/ intact' = intact
  BY DEF Extract, Next, receive_bigfile_from_packet, Begin, Lose, ReceiveStart,
     ReceiveStartNoMemory, Ignore, ContentsNoMemory, CopyFragment,
     RejectFragment, RejectEnd, EndTooEarly, EndNoMemory, EndOutside, FileReceived,
     MemoryFound, NoMemory, vars
<1> QED
  BY <1>1, <1>2

LEMMA LivePreserved == TypeOK /\ [Next]_vars => live' \subseteq 1..blocks'
<1> SUFFICES ASSUME TypeOK, [Next]_vars, NEW b \in live' PROVE b \in 1..blocks'
  OBVIOUS
<1>1. blocks \in Nat /\ live \subseteq 1..blocks
  BY DEF TypeOK
<1>2. \/ live' = live /\ blocks' = blocks
      \/ live' = Freed /\ blocks' = blocks
      \/ live' = Freed \cup {blocks + 1} /\ blocks' = blocks + 1
  BY DEF Next, receive_bigfile_from_packet, Begin, Lose, ReceiveStart,
     ReceiveStartNoMemory, Ignore, ContentsNoMemory, CopyFragment,
     RejectFragment, RejectEnd, EndTooEarly, EndNoMemory, EndOutside, FileReceived,
     Extract, Reject, Abandon, vars, heap
<1>3. b \in live \/ (b = blocks + 1 /\ blocks' = blocks + 1)
  BY <1>2 DEF Freed
<1>4. blocks' = blocks \/ blocks' = blocks + 1
  BY <1>2
<1>5. b \in live => b \in 1..blocks
  BY <1>1
<1> QED
  BY <1>1, <1>3, <1>4, <1>5

LEMMA TypePreserved == TypeOK /\ [Next]_vars => TypeOK'
<1> SUFFICES ASSUME TypeOK, [Next]_vars PROVE TypeOK'
  OBVIOUS
<1>a. intact' \in BOOLEAN /\ live' \subseteq 1..blocks'
  BY IntactPreserved, LivePreserved
<1>1. ASSUME NEW t \in Transfers, NEW id \in Ids, Begin(t, id) PROVE TypeOK'
  BY <1>a, <1>1 DEF Begin, TypeOK, statics, heap
<1>2. CASE Lose
  BY <1>a, <1>2 DEF Lose, TypeOK, statics, heap
<1>3. CASE ReceiveStart
  <2>1. NewFile \in Files
    BY <1>3, NewFileType DEF ReceiveStart, Arrives
  <2>2. undefined' \in BOOLEAN
    BY <1>3 DEF ReceiveStart
  <2> QED
    BY <1>a, <1>3, <2>1, <2>2 DEF ReceiveStart, Arrives, MemoryFound, TypeOK
<1>4. CASE ReceiveStartNoMemory
  BY <1>a, <1>4, NullFile DEF ReceiveStartNoMemory, Arrives, NoMemory, Freed, TypeOK
<1>5. CASE Ignore
  BY <1>a, <1>5 DEF Ignore, Arrives, Reject, MemoryFound, TypeOK, heap
<1>6. CASE ContentsNoMemory
  BY <1>a, <1>6, NullFile
  DEF ContentsNoMemory, Arrives, NoMemory, Abandon, Freed, TypeOK
<1>7. CASE CopyFragment
  <2> USE <1>7 DEF CopyFragment, ReceiveFragment, Arrives, MemoryFound
  <2>1. /\ Fragment \in Fragments
        /\ Number \in Nat /\ Len(begun) \in Nat
    BY FragmentType DEF TypeOK
  <2>2. p_big \in Files
    BY DEF TypeOK
  <2>3. /\ RemainSize \in Nat /\ RemainCount \in Nat
        /\ Destination \in [block : Nat, offset : Nat]
    BY <2>2 DEF TypeOK, RemainSize, RemainCount, Destination, Files
  <2> DEFINE size == Fragment.declared
             piece == [block |-> Destination.block, offset |-> Destination.offset,
                       length |-> size, name |-> <<Len(begun), Number>>]
  <2>4. size \in Nat /\ size <= RemainSize /\ RemainCount > 0
    BY <2>1 DEF Fragments, Acceptable
  <2>5. piece \in Pieces
    BY <2>1, <2>3, <2>4 DEF Pieces
  <2>6. Append(p_big.pieces, piece) \in Seq(Pieces)
    BY <2>2, <2>5 DEF Files
  <2>7. p_big' = [p_big EXCEPT !.next = @ + 1, !.pieces = Append(@, piece)]
    OBVIOUS
  <2>8. p_big' \in Files
    <3> HIDE DEF piece
    <3>1. p_big.next + 1 \in Nat
      BY <2>2 DEF Files
    <3> QED
      BY <2>2, <2>6, <2>7, <3>1 DEF Files
  <2>9. remain_size' = RemainSize - size /\ remain_count' = RemainCount - 1
        /\ p_contents' = [Destination EXCEPT !.offset = @ + size]
    OBVIOUS
  <2> HIDE <1>7 DEF CopyFragment, size
  <2>10. remain_size' \in Nat /\ remain_count' \in Nat
        /\ p_contents' \in [block : Nat, offset : Nat]
    BY <2>3, <2>4, <2>9
  <2>11. UNCHANGED <<live, blocks, names, reported, begun, usedIds, lost, failures>>
         /\ ret' = 1 /\ buffers' = buffers + 1 /\ pos' = pos + 1
         /\ undefined' \in BOOLEAN
    BY <1>7 DEF CopyFragment
  <2> QED
    BY <1>a, <2>8, <2>10, <2>11 DEF TypeOK
<1>8. CASE RejectFragment
  <2>1. /\ RemainSize \in Nat /\ RemainCount \in Nat
        /\ Destination \in [block : Nat, offset : Nat]
    BY DEF TypeOK, RemainSize, RemainCount, Destination, Files
  <2> QED
    BY <1>a, <1>8, <2>1
    DEF RejectFragment, ReceiveFragment, Arrives, Reject, MemoryFound, TypeOK, heap
<1>9. CASE RejectEnd
  BY <1>a, <1>9, NullFile
  DEF RejectEnd, ReceiveEnd, Arrives, MemoryFound, Abandon, Freed, TypeOK
<1>10. CASE EndTooEarly
  BY <1>a, <1>10
  DEF EndTooEarly, ReceiveEnd, Arrives, MemoryFound, Reject, TypeOK, heap
<1>11. CASE EndNoMemory
  BY <1>a, <1>11 DEF EndNoMemory, Extract, ReceiveEnd, Arrives, NoMemory, TypeOK
<1>12. CASE FileReceived
  <2>1. reported' \in Seq(Files)
    BY <1>a, <1>12 DEF FileReceived, Extract, TypeOK
  <2> QED
    BY <1>a, <1>12, <2>1, NullFile
    DEF FileReceived, Extract, ReceiveEnd, Arrives, MemoryFound, Freed, TypeOK
<1>14. CASE EndOutside
  BY <1>a, <1>14 DEF EndOutside, Extract, ReceiveEnd, Arrives, MemoryFound, TypeOK
<1>13. CASE UNCHANGED vars
  BY <1>a, <1>13 DEF vars, statics, heap, sender, TypeOK
<1> QED
  BY <1>1, <1>2, <1>3, <1>4, <1>5, <1>6, <1>7, <1>8, <1>9, <1>10, <1>11, <1>12,
     <1>13, <1>14 DEF Next, receive_bigfile_from_packet

(***************************************************************************)
(* The steps, by what they do to p_big and to the counters.                *)
(***************************************************************************)
Same ==
  /\ UNCHANGED <<p_big, remain_size, remain_count, p_contents, live, blocks,
                 undefined, reported>>
  /\ begun' = begun \/ \E t \in Transfers : begun' = Append(begun, t)

Release ==
  /\ p_big' = NULL /\ live' = Freed
  /\ UNCHANGED <<begun, blocks, undefined, reported>>

LEMMA Steps ==
  ASSUME TypeOK, [Next]_vars
  PROVE  \/ Same
         \/ /\ ~undefined
            /\ \/ Release \/ ReceiveStart \/ CopyFragment \/ RejectFragment
               \/ EndOutside \/ FileReceived
<1>1. ASSUME NEW t \in Transfers, NEW id \in Ids, Begin(t, id) PROVE Same
  BY <1>1 DEF Begin, Same, statics, heap
<1>2. CASE Lose \/ Ignore \/ EndTooEarly \/ EndNoMemory
  BY <1>2 DEF Lose, Ignore, EndTooEarly, EndNoMemory, Extract, ReceiveEnd,
     Arrives, Reject, Same, statics, heap
<1>3. ReceiveStartNoMemory \/ ContentsNoMemory \/ RejectEnd => Release
  BY DEF ReceiveStartNoMemory, ContentsNoMemory, RejectEnd, ReceiveEnd,
     Arrives, Abandon, Release
<1>4. CASE UNCHANGED vars
  BY <1>4 DEF vars, statics, heap, sender, Same
<1>5. Next => ~undefined
  BY DEF Next
<1> QED
  BY <1>1, <1>2, <1>3, <1>4, <1>5 DEF Next, receive_bigfile_from_packet

\* The parts of the invariant that only look at p_big and the transfers.
LEMMA SameFilePreserved ==
  ASSUME IInv, p_big' = p_big, undefined' = undefined,
         begun' = begun \/ \E t \in Transfers : begun' = Append(begun, t)
  PROVE  FromStart' /\ CopiesTiled' /\ UndefinedWraps'
<1>1. CopiesTiled'
  BY DEF IInv, CopiesTiled, Tiled, Inside
<1>2. CASE p_big = NULL
  BY <1>1, <1>2 DEF IInv, FromStart, UndefinedWraps
<1>3. CASE p_big # NULL
  <2>1. begun \in Seq(Transfers) /\ p_big.transfer \in 1..Len(begun)
    BY <1>3 DEF IInv, TypeOK, FromStart
  <2>2. /\ begun'[p_big.transfer] = begun[p_big.transfer]
        /\ p_big.transfer \in 1..Len(begun')
    BY <2>1
  <2>3. /\ FromStart
        /\ p_big' = p_big /\ undefined' = undefined
        /\ undefined => Wraps(begun[p_big.transfer])
    BY DEF IInv, UndefinedWraps
  <2> QED
    BY <1>1, <1>3, <2>2, <2>3 DEF FromStart, UndefinedWraps
<1> QED
  BY <1>2, <1>3

\* A released block was the only one.
LEMMA FreedEmpty ==
  ASSUME TypeOK, Named, OneBlock
  PROVE  Freed = {}
BY NullFile DEF Freed, OneBlock, NULL

LEMMA SamePreserves == IInv /\ TypeOK' /\ Same => IInv'
<1> SUFFICES ASSUME IInv, TypeOK', Same PROVE IInv'
  OBVIOUS
<1>1. FromStart' /\ CopiesTiled' /\ UndefinedWraps'
  BY SameFilePreserved DEF Same
<1> QED
  BY <1>1 DEF IInv, Same, Named, OneBlock, Counters, ReportedWhole, Tiled, Inside

LEMMA ReleasePreserves == IInv /\ TypeOK' /\ ~undefined /\ Release => IInv'
<1> SUFFICES ASSUME IInv, TypeOK', ~undefined, Release PROVE IInv'
  OBVIOUS
<1>1. Named' /\ FromStart' /\ CopiesTiled' /\ UndefinedWraps' /\ Counters'
  BY DEF Release, Named, FromStart, CopiesTiled, UndefinedWraps, Counters
<1>2. OneBlock'
  BY FreedEmpty DEF IInv, Release, OneBlock
<1>3. ReportedWhole'
  BY DEF IInv, Release, ReportedWhole, Tiled, Inside
<1> QED
  BY <1>1, <1>2, <1>3 DEF IInv

LEMMA StartPreserves == IInv /\ TypeOK' /\ ReceiveStart => IInv'
<1> SUFFICES ASSUME IInv, TypeOK', ReceiveStart PROVE IInv'
  OBVIOUS
<1>1. /\ p_big' = NewFile /\ blocks' = blocks + 1
      /\ live' = Freed \cup {blocks + 1}
      /\ UNCHANGED <<begun, reported>> /\ begun # << >>
      /\ undefined' = (NewFile.room < 0)
  BY DEF ReceiveStart, Arrives
<1>2. /\ NewFile.block = blocks + 1 /\ NewFile.next = 0 /\ NewFile.pieces = << >>
      /\ NewFile.transfer = Len(begun) /\ NewFile # NULL
      /\ NewFile.size = Unsigned(Current.size)
      /\ NewFile.count = Unsigned(Current.count)
      /\ NewFile.room = MemSize(Current) - Before(Current)
  BY <1>1, NewFileType DEF IInv
<1>3. blocks \in Nat /\ Len(begun) \in Nat /\ Len(begun) > 0
  BY <1>1 DEF IInv, TypeOK
<1>4. p_big' # NULL
  BY <1>1, <1>2
<1>5. Named'
  BY <1>1, <1>2, <1>3 DEF Named
<1>6. OneBlock'
  BY <1>1, <1>2, <1>4, FreedEmpty DEF IInv, OneBlock
<1>7. CopiesTiled' /\ Counters'
  BY <1>1, <1>2 DEF CopiesTiled, Tiled, Inside, Counters
<1>8. ReportedWhole'
  BY <1>1 DEF IInv, ReportedWhole, Tiled, Inside
<1>9. begun'[p_big'.transfer] = Current /\ p_big'.transfer \in 1..Len(begun')
  BY <1>1, <1>2, <1>3 DEF Current
<1>10. FromStart'
  <2>1. /\ p_big'.size = Unsigned(begun'[p_big'.transfer].size)
        /\ p_big'.count = Unsigned(begun'[p_big'.transfer].count)
        /\ p_big'.room = MemSize(begun'[p_big'.transfer])
                            - Before(begun'[p_big'.transfer])
    BY <1>1, <1>2, <1>9
  <2> QED
    BY <1>9, <2>1 DEF FromStart
<1>11. UndefinedWraps'
  <2> SUFFICES ASSUME NewFile.room < 0 PROVE Wraps(Current)
    BY <1>1, <1>4, <1>9 DEF UndefinedWraps
  <2> SUFFICES ASSUME ~Wraps(Current) PROVE FALSE
    OBVIOUS
  <2>1. Current \in Announced /\ NewFile.room \in Int
    BY <1>1, CurrentType, NewFileType DEF IInv, Files
  <2>2. NewFile.room >= Unsigned(Current.size) /\ Unsigned(Current.size) \in Nat
    BY <1>2, <2>1, RoomForSize, UnsignedType DEF Announced
  <2> QED
    BY <2>1, <2>2
<1> QED
  BY <1>5, <1>6, <1>7, <1>8, <1>10, <1>11 DEF IInv

LEMMA OutsidePreserves == IInv /\ TypeOK' /\ EndOutside => IInv'
<1> SUFFICES ASSUME IInv, TypeOK', EndOutside PROVE IInv'
  OBVIOUS
<1>1. /\ UNCHANGED <<p_big, remain_size, remain_count, p_contents, live, blocks,
                     begun, reported>>
      /\ p_big # NULL /\ p_big.size > p_big.room
  BY DEF EndOutside, Extract, ReceiveEnd, Arrives
<1>2. p_big.size \in Nat /\ p_big.room \in Int
  BY DEF IInv, TypeOK, Files
<1>3. Wraps(begun[p_big.transfer])
  BY <1>1, <1>2, FileRoom DEF IInv
<1>4. /\ p_big' = p_big /\ begun' = begun /\ p_big # NULL /\ undefined'
      /\ FromStart /\ Tiled(p_big)
  BY <1>1 DEF EndOutside, IInv, CopiesTiled
<1>5. FromStart' /\ UndefinedWraps'
  BY <1>3, <1>4 DEF FromStart, UndefinedWraps
<1>6. CopiesTiled'
  BY <1>4 DEF CopiesTiled, Tiled
<1> QED
  BY <1>1, <1>5, <1>6
  DEF IInv, Named, OneBlock, Counters, ReportedWhole, Tiled, Inside

LEMMA RejectPreserves == IInv /\ TypeOK' /\ RejectFragment => IInv'
<1> SUFFICES ASSUME IInv, TypeOK', RejectFragment PROVE IInv'
  OBVIOUS
<1>1. UNCHANGED <<p_big, live, blocks, undefined, begun, reported>>
  BY DEF RejectFragment, ReceiveFragment, Arrives, Reject, heap
<1>2. FromStart' /\ CopiesTiled' /\ UndefinedWraps'
  BY <1>1, SameFilePreserved
<1>4. Named' /\ OneBlock' /\ ReportedWhole'
  BY <1>1 DEF IInv, Named, OneBlock, ReportedWhole, Tiled, Inside
<1>3. Counters'
  <2> SUFFICES ASSUME p_big # NULL, p_big.next > 0
               PROVE  UNCHANGED <<remain_size, remain_count, p_contents>>
    BY <1>1 DEF IInv, Counters
  <2>1. p_big.next # 0
    OBVIOUS
  <2> QED
    BY <2>1 DEF RejectFragment, RemainSize, RemainCount, Destination
<1> QED
  BY <1>2, <1>3, <1>4 DEF IInv

LEMMA ReportPreserves == IInv /\ TypeOK' /\ ~undefined /\ FileReceived => IInv'
<1> SUFFICES ASSUME IInv, TypeOK', ~undefined, FileReceived PROVE IInv'
  OBVIOUS
<1>1. /\ p_big' = NULL /\ live' = Freed /\ UNCHANGED blocks
      /\ reported' = Append(reported, p_big)
      /\ p_big # NULL /\ p_big.count = p_big.next
      /\ remain_size = 0 /\ undefined' = undefined
  BY DEF FileReceived, Extract, ReceiveEnd, Ended
<1>2. Named' /\ FromStart' /\ CopiesTiled' /\ UndefinedWraps' /\ Counters'
  BY <1>1 DEF Named, FromStart, CopiesTiled, UndefinedWraps, Counters
<1>3. OneBlock'
  BY <1>1, FreedEmpty DEF IInv, OneBlock
<1>4. ReportedWhole'
  <2> SUFFICES ASSUME NEW i \in 1..Len(reported')
               PROVE  LET f == reported'[i] IN
                      /\ Tiled(f) /\ Inside(f)
                      /\ f.next = f.count
                      /\ f.next > 0 => f.pieces[f.next].offset
                                         + f.pieces[f.next].length = f.size
    BY DEF ReportedWhole, Tiled, Inside
  <2>1. reported \in Seq(Files) /\ p_big \in Files
    BY DEF IInv, TypeOK
  <2>2. CASE i \in 1..Len(reported)
    BY <1>1, <2>1, <2>2 DEF IInv, ReportedWhole
  <2>3. CASE i = Len(reported) + 1
    <3>1. reported'[i] = p_big
      BY <1>1, <2>1, <2>3
    <3>2. Tiled(p_big) /\ Inside(p_big)
      BY <1>1 DEF IInv, CopiesTiled
    <3>3. p_big.next > 0 => p_big.pieces[p_big.next].offset
                              + p_big.pieces[p_big.next].length = p_big.size
      <4>1. p_contents.offset \in Nat /\ p_big.size \in Nat
        BY DEF IInv, TypeOK, Files
      <4>2. p_big.next > 0 =>
              /\ p_contents.offset + 0 = p_big.size
              /\ p_contents.offset = p_big.pieces[p_big.next].offset
                                       + p_big.pieces[p_big.next].length
        BY <1>1 DEF IInv, Counters
      <4> QED
        BY <4>1, <4>2
    <3> QED
      BY <1>1, <3>1, <3>2, <3>3
  <2> QED
    BY <1>1, <2>1, <2>2, <2>3
<1> QED
  BY <1>2, <1>3, <1>4 DEF IInv

LEMMA CopyPreserves == IInv /\ TypeOK' /\ ~undefined /\ CopyFragment => IInv'
<1> SUFFICES ASSUME IInv, TypeOK', ~undefined, CopyFragment PROVE IInv'
  OBVIOUS
<1> DEFINE size == Fragment.declared
           n == p_big.next
           piece == [block |-> Destination.block, offset |-> Destination.offset,
                     length |-> size, name |-> <<Len(begun), Number>>]
<1>1. /\ p_big # NULL /\ ReceiveFragment /\ Acceptable
      /\ p_contents' = [Destination EXCEPT !.offset = @ + size]
      /\ remain_count' = RemainCount - 1
      /\ remain_size' = RemainSize - size
      /\ p_big' = [p_big EXCEPT !.next = @ + 1, !.pieces = Append(@, piece)]
      /\ UNCHANGED <<live, blocks, begun, reported>>
      /\ undefined' = (\/ Destination.block # p_big.block
                       \/ Destination.offset + size > p_big.room)
  BY DEF CopyFragment, ReceiveFragment, Arrives
<1>2. /\ p_big \in Files /\ n \in Nat /\ p_big.pieces \in Seq(Pieces)
      /\ p_big.size \in Nat /\ p_big.count \in Nat
      /\ remain_size \in Nat /\ remain_count \in Nat
      /\ p_contents \in [block : Nat, offset : Nat]
      /\ p_big.block \in Nat /\ p_big.room \in Int
  BY DEF IInv, TypeOK, Files
<1>3. size \in Nat /\ size <= RemainSize
  BY <1>1, FragmentType DEF IInv, Fragments, Acceptable
<1>4. Tiled(p_big) /\ Inside(p_big)
  BY <1>1 DEF IInv, CopiesTiled
<1> HIDE DEF size
\* Where the fragment goes: right after those before it, with room for it.
<1>5. /\ Destination \in [block : Nat, offset : Nat]
      /\ Destination.block = p_big.block
      /\ Destination.offset + RemainSize = p_big.size
      /\ RemainCount + n = p_big.count
      /\ Destination.offset =
           IF n = 0 THEN 0 ELSE p_big.pieces[n].offset + p_big.pieces[n].length
      /\ RemainSize \in Nat /\ RemainCount \in Nat
  <2>1. CASE n = 0
    BY <1>2, <2>1 DEF Destination, RemainSize, RemainCount
  <2>2. CASE n > 0
    BY <1>1, <1>2, <2>2 DEF IInv, Counters, Destination, RemainSize, RemainCount
  <2> QED
    BY <1>2, <2>1, <2>2
<1>6. /\ p_big'.next = n + 1 /\ p_big'.block = p_big.block
      /\ p_big'.size = p_big.size /\ p_big'.count = p_big.count
      /\ p_big'.transfer = p_big.transfer /\ p_big'.room = p_big.room
      /\ p_big'.pieces = Append(p_big.pieces, piece)
  BY <1>1, <1>2 DEF Files
<1>7. Len(p_big.pieces) = n
  BY <1>4 DEF Tiled
<1>8. /\ Len(p_big'.pieces) = n + 1
      /\ p_big'.pieces[n + 1] = piece
      /\ \A j \in 1..n : p_big'.pieces[j] = p_big.pieces[j]
  BY <1>2, <1>6, <1>7
<1>9. /\ piece.block = p_big.block
      /\ piece.offset = Destination.offset /\ piece.length = size
  BY <1>5
<1> HIDE DEF piece
<1>10. p_big' # NULL
  BY <1>2, <1>6 DEF NULL
<1>11. Tiled(p_big)'
  <2> SUFFICES ASSUME NEW j \in 1..n + 1
               PROVE  /\ p_big'.pieces[j].block = p_big'.block
                      /\ p_big'.pieces[j].offset =
                           IF j = 1 THEN 0
                           ELSE p_big'.pieces[j - 1].offset
                                  + p_big'.pieces[j - 1].length
    BY <1>6, <1>8 DEF Tiled
  <2>1. CASE j \in 1..n
    <3>1. j # 1 => j - 1 \in 1..n
      BY <1>2, <2>1
    <3> QED
      BY <1>4, <1>6, <1>8, <2>1, <3>1 DEF Tiled
  <2>2. CASE j = n + 1
    <3>1. j # 1 => n # 0 /\ j - 1 = n /\ n \in 1..n
      BY <1>2, <2>2
    <3>2. j = 1 => n = 0
      BY <1>2, <2>2
    <3> QED
      BY <1>5, <1>6, <1>8, <1>9, <2>2, <3>1, <3>2
  <2> QED
    BY <1>2, <2>1, <2>2
<1>15. ~undefined' => Inside(p_big)'
  <2> SUFFICES ASSUME ~undefined', NEW j \in 1..n + 1
               PROVE  p_big'.pieces[j].offset + p_big'.pieces[j].length
                        <= p_big.room
    BY <1>6 DEF Inside
  <2>1. CASE j \in 1..n
    BY <1>4, <1>8, <2>1 DEF Inside
  <2>2. CASE j = n + 1
    <3>1. ~(Destination.offset + size > p_big.room)
      BY <1>1
    <3>2. Destination.offset \in Nat
      BY <1>5
    <3>3. Destination.offset + size <= p_big.room
      BY <1>2, <1>3, <3>1, <3>2
    <3> QED
      BY <1>8, <1>9, <2>2, <3>3
  <2> QED
    BY <1>2, <2>1, <2>2
<1>16. FromStart'
  BY <1>1, <1>6 DEF IInv, FromStart
<1>17. UndefinedWraps'
  <2> SUFFICES ASSUME undefined' PROVE Wraps(begun[p_big.transfer])
    BY <1>1, <1>6, <1>10 DEF UndefinedWraps
  <2>1. Destination.offset + size > p_big.room
    BY <1>1, <1>5
  <2>2. Destination.offset + size <= p_big.size
    BY <1>2, <1>3, <1>5
  <2>3. ~(p_big.size <= p_big.room)
    <3>1. Destination.offset \in Nat
      BY <1>5
    <3> QED
      BY <1>2, <1>3, <2>1, <2>2, <3>1
  <2> QED
    BY <1>1, <2>3, FileRoom DEF IInv
<1>12. Counters'
  <2>1. p_contents'.block = p_big.block
        /\ p_contents'.offset = Destination.offset + size
    BY <1>1, <1>5
  <2>2. (Destination.offset + size) + (RemainSize - size) = p_big.size
    BY <1>2, <1>3, <1>5
  <2>3. (RemainCount - 1) + (n + 1) = p_big.count
    <3>1. RemainCount + n = p_big.count /\ RemainCount \in Nat /\ n \in Nat
      BY <1>2, <1>5
    <3> QED
      BY <3>1
  <2> QED
    BY <1>1, <1>6, <1>8, <1>9, <2>1, <2>2, <2>3 DEF Counters
<1>13. Named' /\ OneBlock'
  BY <1>1, <1>6, <1>10 DEF IInv, Named, OneBlock
<1>14. ReportedWhole'
  BY <1>1 DEF IInv, ReportedWhole, Tiled, Inside
<1> QED
  BY <1>11, <1>12, <1>13, <1>14, <1>15, <1>16, <1>17 DEF IInv, CopiesTiled

LEMMA IInvPreserved == IInv /\ [Next]_vars => IInv'
<1> SUFFICES ASSUME IInv, [Next]_vars PROVE IInv'
  OBVIOUS
<1>1. TypeOK /\ TypeOK'
  BY TypePreserved DEF IInv
<1> QED
  BY <1>1, Steps, SamePreserves, ReleasePreserves, StartPreserves,
     CopyPreserves, RejectPreserves, OutsidePreserves, ReportPreserves

LEMMA Inductive == Spec => []IInv
BY InitIInv, IInvPreserved, PTL DEF Spec

\* The type invariant, for every value of the constants.
THEOREM TypeCorrect == Spec => []TypeOK
<1>1. IInv => TypeOK
  BY DEF IInv
<1> QED
  BY <1>1, Inductive, PTL

\* Nothing is copied outside the block of a file, whatever is lost, repeated or
\* given up, unless the number of bytes of that very file does not fit an
\* unsigned int: see CopiesInside.
THEOREM CopiesStayInside == Spec => []CopiesInside
<1>1. IInv => CopiesInside
  BY DEF IInv, UndefinedWraps, CopiesTiled, CopiesInside
<1> QED
  BY <1>1, Inductive, PTL

\* A reported file with fragments is covered by them to its last byte.
THEOREM ReportsAreWhole == Spec => []ReportedWhole
<1>1. IInv => ReportedWhole
  BY DEF IInv
<1> QED
  BY <1>1, Inductive, PTL

\* No block of a file is leaked, and p_big never points to a freed one.
THEOREM BlocksAreOwned == Spec => []OneBlock
<1>1. IInv => OneBlock
  BY DEF IInv
<1> QED
  BY <1>1, Inductive, PTL

NamesAccounted == names <= failures

\* File names are only left allocated where memory was short: extract_bigfile
\* leaves at most one for each malloc that failed, none for a file that is
\* reported, refused or given up.
THEOREM NamesLeftByFailures == Spec => []NamesAccounted
<1>1. Init => NamesAccounted
  BY DEF Init, NamesAccounted
<1>2. IInv /\ NamesAccounted /\ [Next]_vars => NamesAccounted'
  <2> SUFFICES ASSUME IInv, names <= failures, [Next]_vars
               PROVE  names' <= failures'
    BY DEF NamesAccounted
  <2>1. names \in Nat /\ failures \in Nat
    BY DEF IInv, TypeOK
  <2>2. CASE EndNoMemory
    BY <2>1, <2>2 DEF EndNoMemory, NoMemory
  <2>3. CASE ~EndNoMemory
    <3>1. names' = names /\ (failures' = failures \/ failures' = failures + 1)
      BY <2>3 DEF Next, Begin, Lose, receive_bigfile_from_packet, ReceiveStart,
         ReceiveStartNoMemory, Ignore, ContentsNoMemory, CopyFragment,
         ReceiveFragment, RejectFragment, RejectEnd, EndTooEarly, ReceiveEnd,
         FileReceived, EndOutside, Extract, Arrives, MemoryFound, NoMemory, Reject,
         Abandon, vars, heap
    <3> QED
      BY <2>1, <3>1
  <2> QED
    BY <2>2, <2>3
<1> QED
  BY <1>1, <1>2, Inductive, PTL DEF Spec

-----------------------------------------------------------------------------
(***************************************************************************)
(* A transfer of which every packet was received: p_big is its file, and   *)
(* the next fragment is where the sender is.                               *)
(***************************************************************************)
Following ==
  /\ p_big # NULL /\ p_big.id = Id /\ p_big.transfer = Len(begun)
  /\ p_big.size = Current.size /\ p_big.count = Current.count
  /\ p_big.next = pos - 1
  /\ p_big.next > 0 =>
       p_contents.offset = Current.frags[p_big.next].offset
                             + Current.frags[p_big.next].length

IntactInv ==
  intact =>
    /\ begun # << >>
    /\ Honest(Current) /\ pos \in 1..Current.count + 1 => Following

\* The announced numbers of such a transfer, and what is made of them.
LEMMA HonestType ==
  ASSUME TypeOK, begun # << >>, Honest(Current)
  PROVE  /\ Current.count = Len(Current.frags)
         /\ Current.count \in Nat /\ Current.size \in Nat
         /\ Unsigned(Current.count) = Current.count
         /\ Unsigned(Current.size) = Current.size
<1>1. Current \in Announced
  BY CurrentType
<1>2. /\ Current.frags \in Seq(Fragments) /\ Current.size \in Int
      /\ Current.count = Len(Current.frags)
  BY <1>1 DEF Announced, Honest
<1>3. Current.count \in Nat
  BY <1>2
<1>4. Current.size \in Nat
  <2>1. CASE Current.count = 0
    BY <2>1 DEF Honest
  <2>2. CASE Current.count # 0
    <3>1. Current.count \in 1..Len(Current.frags)
      BY <1>2, <1>3, <2>2
    <3>2. Current.frags[Current.count] \in Fragments
      BY <1>2, <3>1
    <3>3. Current.size = Current.frags[Current.count].offset
                           + Current.frags[Current.count].length
      BY <2>2 DEF Honest
    <3> QED
      BY <3>2, <3>3 DEF Fragments
  <2> QED
    BY <2>1, <2>2
<1>5. Current.size < Word /\ Current.count < Word
  BY DEF Honest
<1> QED
  BY <1>2, <1>3, <1>4, <1>5, UnsignedOwn

\* While fragments of such a transfer are to come, the next one is accepted.
LEMMA NextFragmentAccepted ==
  ASSUME IInv, ReceiveFragment, Honest(Current), Following
  PROVE  /\ Acceptable
         /\ Destination.offset = Fragment.offset
         /\ p_contents \in [block : Nat, offset : Nat]
         /\ Destination \in [block : Nat, offset : Nat]
<1>1. /\ Fragment \in Fragments /\ pos \in 1..Current.count /\ begun # << >>
      /\ Fragment = Current.frags[pos]
  BY FragmentType DEF IInv, Honest, Fragment
<1>2. /\ Current.size \in Nat /\ Current.count \in Nat /\ pos \in Nat
      /\ Current.frags \in Seq(Fragments)
  BY <1>1, CurrentType, HonestType DEF IInv, TypeOK, Announced
<1>3. /\ p_contents \in [block : Nat, offset : Nat]
      /\ remain_size \in Nat /\ remain_count \in Nat
      /\ p_big \in Files
  BY DEF IInv, TypeOK
<1>4. /\ Fragment.declared = Fragment.length
      /\ Fragment.offset + Fragment.length <= Current.size
      /\ Fragment.offset = IF pos = 1 THEN 0
                           ELSE Current.frags[pos - 1].offset
                                  + Current.frags[pos - 1].length
  BY <1>1 DEF Honest
<1>5. /\ Fragment.declared \in Nat /\ Fragment.length \in Nat
      /\ Fragment.offset \in Nat
  BY <1>1 DEF Fragments
<1>6. Number = p_big.next
  BY DEF Following, Number
<1>7. CASE p_big.next = 0
  <2>1. pos = 1
    BY <1>2, <1>7 DEF Following
  <2>2. /\ RemainSize = Current.size /\ RemainCount = Current.count
        /\ Destination = [block |-> p_big.block, offset |-> 0]
        /\ p_big.block \in Nat
    BY <1>3, <1>7 DEF Following, RemainSize, RemainCount, Destination, Files
  <2> QED
    BY <1>1, <1>2, <1>3, <1>4, <1>5, <1>6, <2>1, <2>2 DEF Acceptable
<1>8. CASE p_big.next # 0
  <2>1. /\ pos # 1 /\ p_big.next = pos - 1 /\ p_big.next > 0
    BY <1>1, <1>2, <1>8 DEF Following
  <2>2. /\ RemainSize = remain_size /\ RemainCount = remain_count
        /\ Destination = p_contents
    BY <1>8 DEF RemainSize, RemainCount, Destination
  <2>3. /\ p_contents.offset + remain_size = Current.size
        /\ remain_count + (pos - 1) = Current.count
        /\ p_contents.offset = Fragment.offset
    BY <1>4, <2>1 DEF IInv, Counters, Following
  <2>4. remain_count > 0
    BY <1>1, <1>2, <1>3, <2>3
  <2>5. Fragment.declared <= remain_size
    BY <1>2, <1>3, <1>4, <1>5, <2>3
  <2> QED
    BY <1>3, <1>4, <1>6, <2>2, <2>3, <2>4, <2>5 DEF Acceptable
<1> QED
  BY <1>7, <1>8

\* The handler does not skip or refuse a fragment of such a transfer.
LEMMA OnlyCopied ==
  ASSUME IInv, begun # << >>, Honest(Current), Following,
         pos \in 1..Current.count,
         receive_bigfile_from_packet, MemoryFound
  PROVE  CopyFragment
<1>1. Current.count = Len(Current.frags) /\ Current.count \in Nat
      /\ failures \in Nat /\ pos \in Nat
  BY HonestType DEF IInv, TypeOK
<1>2. ~ReceiveStart /\ ~ReceiveStartNoMemory
  BY <1>1 DEF ReceiveStart, ReceiveStartNoMemory, Arrives
<1>3. ~Ignore
  BY DEF Ignore, SameFile, Following
<1>4. ~ContentsNoMemory
  BY <1>1 DEF ContentsNoMemory, NoMemory, MemoryFound
<1>5. ~RejectFragment
  BY NextFragmentAccepted DEF RejectFragment
<1>6. ~ReceiveEnd
  BY <1>1 DEF ReceiveEnd, Arrives
<1> QED
  BY <1>2, <1>3, <1>4, <1>5, <1>6
  DEF receive_bigfile_from_packet, RejectEnd, EndTooEarly, EndNoMemory, EndOutside,
      Extract, FileReceived

LEMMA IntactInvPreserved == IInv /\ IntactInv /\ [Next]_vars => IntactInv'
<1> SUFFICES ASSUME IInv, IntactInv, [Next]_vars, intact' PROVE
      /\ (begun # << >>)'
      /\ (Honest(Current) /\ pos \in 1..Current.count + 1)' => Following'
  BY DEF IntactInv
<1>1. ASSUME NEW t \in Transfers, NEW id \in Ids, Begin(t, id)
      PROVE  begun' # << >> /\ pos' = 0
  BY <1>1 DEF Begin, IInv, TypeOK
<1>2. CASE UNCHANGED vars
  BY <1>2 DEF IntactInv, Following, Honest, Current, Id, vars, statics, sender
<1>3. CASE Lose \/ ReceiveStartNoMemory \/ ContentsNoMemory \/ EndNoMemory
  BY <1>3
  DEF Lose, ReceiveStartNoMemory, ContentsNoMemory, EndNoMemory, Extract, NoMemory
<1>4. ASSUME receive_bigfile_from_packet, MemoryFound
      PROVE  /\ begun # << >> /\ begun' = begun /\ usedIds' = usedIds
             /\ pos' = pos + 1 /\ pos \in Nat /\ intact
             /\ Current' = Current /\ Id' = Id
  BY <1>4 DEF receive_bigfile_from_packet, ReceiveStart, ReceiveStartNoMemory,
     Ignore, ContentsNoMemory, CopyFragment, RejectFragment, RejectEnd,
     EndTooEarly, EndNoMemory, EndOutside, Extract, FileReceived, ReceiveFragment,
     ReceiveEnd, Arrives, MemoryFound, Current, Id, IInv, TypeOK
<1>5. CASE ReceiveStart
  <2>1. MemoryFound /\ p_big' = NewFile /\ pos = 0
    BY <1>5 DEF ReceiveStart, Arrives
  <2>2. /\ begun # << >> /\ begun' = begun /\ usedIds' = usedIds /\ pos' = 1
        /\ Current' = Current /\ Id' = Id
    BY <1>4, <1>5, <2>1 DEF receive_bigfile_from_packet
  <2>3. /\ p_big' # NULL /\ p_big'.id = Id /\ p_big'.transfer = Len(begun)
        /\ p_big'.size = Unsigned(Current.size)
        /\ p_big'.count = Unsigned(Current.count)
        /\ p_big'.next = 0
    BY <2>1, <2>2, NewFileType DEF IInv
  <2>4. Honest(Current)' => p_big'.size = Current.size /\ p_big'.count = Current.count
    BY <2>2, <2>3, HonestType DEF IInv, Honest
  <2> QED
    BY <2>2, <2>3, <2>4 DEF Following
<1>6. ASSUME receive_bigfile_from_packet, ~ReceiveStart
      PROVE  (Honest(Current) /\ pos \in 1..Current.count + 1)' => Following'
  <2>1. MemoryFound \/ intact' = FALSE
    BY <1>6 DEF receive_bigfile_from_packet, ReceiveStartNoMemory, Ignore,
       ContentsNoMemory, CopyFragment, RejectFragment, RejectEnd, EndTooEarly,
       EndNoMemory, EndOutside, Extract, FileReceived, NoMemory
  <2>2. /\ MemoryFound /\ begun # << >> /\ begun' = begun /\ usedIds' = usedIds
        /\ pos' = pos + 1 /\ pos \in Nat /\ intact
        /\ Current' = Current /\ Id' = Id
    BY <1>4, <1>6, <2>1
  <2> SUFFICES ASSUME Honest(Current)', (pos \in 1..Current.count + 1)'
               PROVE  Following'
    OBVIOUS
  <2>3. Honest(Current) /\ pos + 1 \in 1..Current.count + 1
    BY <2>2 DEF Honest
  <2>4. Current.count = Len(Current.frags) /\ Current.count \in Nat
    BY <2>2, <2>3, HonestType DEF IInv
  <2>a. pos \in 1..Current.count
    <3>1. ~ReceiveStartNoMemory
      BY <2>2 DEF ReceiveStartNoMemory, NoMemory, MemoryFound, IInv, TypeOK
    <3>2. \/ Arrives(1, Len(Current.frags) + 1)
          \/ Arrives(1, Len(Current.frags))
          \/ Arrives(Len(Current.frags) + 1, Len(Current.frags) + 1)
      BY <1>6, <3>1 DEF receive_bigfile_from_packet, Ignore,
         ContentsNoMemory, CopyFragment, RejectFragment, RejectEnd, EndTooEarly,
         EndNoMemory, EndOutside, Extract, FileReceived, ReceiveFragment, ReceiveEnd
    <3>3. pos # 0
      BY <2>4, <3>2 DEF Arrives
    <3> QED
      BY <2>2, <2>3, <2>4, <3>3
  <2>b. Following
    BY <2>2, <2>3, <2>4, <2>a DEF IntactInv
  <2>5. CopyFragment /\ Following
    BY <1>6, <2>2, <2>3, <2>a, <2>b, OnlyCopied
  <2>6. /\ p_big'.id = p_big.id /\ p_big'.size = p_big.size
        /\ p_big'.count = p_big.count /\ p_big'.next = p_big.next + 1
        /\ p_contents' = [Destination EXCEPT !.offset = @ + Fragment.declared]
        /\ p_big.next \in Nat /\ p_big'.block = p_big.block /\ p_big.block # 0
        /\ p_big'.transfer = p_big.transfer
    BY <2>5 DEF CopyFragment, ReceiveFragment, IInv, TypeOK, Files, Named
  <2>7. p_big' # NULL
    BY <2>6, NullFile
  <2>8. /\ Fragment = Current.frags[pos] /\ Fragment.declared = Fragment.length
        /\ Destination.offset = Fragment.offset
        /\ Destination \in [block : Nat, offset : Nat]
    BY <2>3, <2>5, NextFragmentAccepted DEF CopyFragment, Fragment, Acceptable
  <2>9. p_contents'.offset = Current.frags[pos].offset + Current.frags[pos].length
    BY <2>6, <2>8
  <2>10. p_big'.next = pos /\ pos' - 1 = pos
    BY <2>2, <2>5, <2>6 DEF Following
  <2> QED
    BY <2>2, <2>5, <2>6, <2>7, <2>9, <2>10 DEF Following
<1>7. CASE receive_bigfile_from_packet /\ ~ReceiveStart
  <2>1. MemoryFound \/ intact' = FALSE
    BY <1>7 DEF receive_bigfile_from_packet, ReceiveStartNoMemory, Ignore,
       ContentsNoMemory, CopyFragment, RejectFragment, RejectEnd, EndTooEarly,
       EndNoMemory, EndOutside, Extract, FileReceived, NoMemory
  <2> QED
    BY <1>4, <1>6, <1>7, <2>1
<1>8. ASSUME NEW t \in Transfers, NEW id \in Ids, Begin(t, id)
      PROVE  /\ (begun # << >>)'
             /\ (Honest(Current) /\ pos \in 1..Current.count + 1)' => Following'
  <2>1. ~(pos \in 1..Current.count + 1)'
    BY <1>1, <1>8
  <2> QED
    BY <1>1, <1>8, <2>1
<1> QED
  BY <1>2, <1>3, <1>5, <1>7, <1>8 DEF Next

LEMMA SafeInvariant == Spec => [](IInv /\ IntactInv)
<1>1. Init => IntactInv
  BY DEF Init, IntactInv
<1> QED
  BY <1>1, InitIInv, IInvPreserved, IntactInvPreserved, PTL DEF Spec

\* The counters allow the end of such a transfer if it has a fragment.
LEMMA EndAccepted ==
  ASSUME IInv, begun # << >>, Honest(Current), Following, Current.count > 0,
         pos = Current.count + 1
  PROVE  Ended /\ p_big.count = p_big.next /\ p_big.size <= p_big.room
<1>1. /\ Current.size \in Nat /\ Current.count \in Nat
      /\ p_contents.offset \in Nat /\ remain_size \in Nat /\ remain_count \in Nat
  BY HonestType DEF IInv, TypeOK
<1>2. p_big.next = Current.count /\ p_big.next > 0 /\ p_big.count = Current.count
  BY <1>1 DEF Following
<1>3. /\ p_contents.offset + remain_size = Current.size
      /\ remain_count + Current.count = Current.count
  BY <1>2 DEF IInv, Counters, Following
<1>4. p_contents.offset = Current.size
  BY <1>2 DEF Following, Honest
<1>5. remain_size = 0 /\ remain_count = 0
  BY <1>1, <1>3, <1>4
<1>6. begun[p_big.transfer] = Current /\ p_big # NULL
  BY DEF Following, Current
<1>7. p_big.size <= p_big.room
  BY <1>6, FileRoom DEF IInv, Honest
<1> QED
  BY <1>2, <1>5, <1>7 DEF Ended, Honest

LEMMA IntactStep ==
  ASSUME IInv, IntactInv, [Next]_vars, LastPacketOfIntact, Current.count > 0
  PROVE  ret' = 0
<1>1. /\ begun # << >> /\ begun' = begun /\ intact /\ intact' /\ Honest(Current)
      /\ pos = Packets(Current) - 1 /\ pos' = Packets(Current)
  BY DEF LastPacketOfIntact
<1>2. /\ Current.count = Len(Current.frags) /\ Current.count \in Nat
      /\ failures \in Nat /\ Len(begun) \in Nat
      /\ p_big.size <= p_big.room => ~(p_big.size > p_big.room)
  BY <1>1, HonestType DEF IInv, TypeOK, Files
<1>3. pos = Current.count + 1 /\ pos' = pos + 1 /\ pos \in Nat
  BY <1>1, <1>2 DEF Packets
<1>4. Following
  BY <1>1, <1>2, <1>3 DEF IntactInv
<1>5. Ended /\ p_big.count = p_big.next /\ p_big.size <= p_big.room
  BY <1>1, <1>2, <1>3, <1>4, EndAccepted
<1>6. ~UNCHANGED vars
  BY <1>3 DEF vars, sender
<1>7. ASSUME NEW t \in Transfers, NEW id \in Ids, Begin(t, id) PROVE FALSE
  BY <1>3, <1>7 DEF Begin
<1>8. ~Lose /\ ~ReceiveStartNoMemory /\ ~ContentsNoMemory /\ ~EndNoMemory
  BY <1>1 DEF Lose, ReceiveStartNoMemory, ContentsNoMemory, EndNoMemory, Extract,
     NoMemory
<1>9. ~ReceiveStart /\ ~CopyFragment /\ ~RejectFragment
  <2>1. ~Arrives(0, 0) /\ ~Arrives(1, Len(Current.frags))
    BY <1>2, <1>3 DEF Arrives
  <2> QED
    BY <2>1 DEF ReceiveStart, CopyFragment, RejectFragment, ReceiveFragment
<1>10. ~Ignore
  BY <1>4 DEF Ignore, SameFile, Following
<1>11. ~RejectEnd /\ ~EndTooEarly /\ ~EndOutside
  BY <1>2, <1>5 DEF RejectEnd, EndTooEarly, EndOutside
<1>12. FileReceived
  BY <1>6, <1>7, <1>8, <1>9, <1>10, <1>11 DEF Next, receive_bigfile_from_packet
<1> QED
  BY <1>12 DEF FileReceived

\* A file sent to its end, with every packet received, is reported whatever
\* the transfers before it have left in the statics: see IntactReported.
THEOREM IntactFilesAreReported == Spec => IntactReported
<1>1. IInv /\ IntactInv /\ [Next]_vars
        => [LastPacketOfIntact /\ Current.count > 0 => ret' = 0]_vars
  BY IntactStep
<1> QED
  BY <1>1, SafeInvariant, PTL DEF Spec, IntactReported

-----------------------------------------------------------------------------
(***************************************************************************)
(* FileTransfer.  p_big is tied to the transfer of its BIGFILE_START by    *)
(* the identifier of that transfer; as long as no identifier is used twice *)
(* the fragments it has accepted are those of that transfer.               *)
(***************************************************************************)
OwnTransfer ==
  p_big # NULL =>
    /\ p_big.transfer \in 1..Len(begun)
    /\ p_big.id = usedIds[p_big.transfer]
    /\ ~Reused =>
         \A j \in 1..p_big.next : p_big.pieces[j].name = <<p_big.transfer, j - 1>>

\* A transfer has one BIGFILE_START, and a block is reported once.
InOrder ==
  \A i \in 1..Len(reported) :
    /\ reported[i].transfer <= Len(begun)
    /\ pos = 0 => reported[i].transfer < Len(begun)
    /\ p_big # NULL => reported[i].transfer < p_big.transfer

RInv == OwnTransfer /\ InOrder

\* Two transfers with one identifier are one.
LEMMA OneTransfer ==
  ASSUME TypeOK, ~Reused, NEW i \in 1..Len(begun), NEW j \in 1..Len(begun),
         usedIds[i] = usedIds[j]
  PROVE  i = j
<1>1. i \in 1..Len(usedIds) /\ j \in 1..Len(usedIds)
  BY DEF TypeOK
<1>2. ~(i < j) /\ ~(j < i)
  BY <1>1 DEF Reused
<1> QED
  BY <1>1, <1>2

\* A packet that is taken for p_big's belongs to p_big's transfer.
LEMMA SameTransfer ==
  ASSUME TypeOK, OwnTransfer, ~Reused, p_big # NULL, SameFile, begun # << >>
  PROVE  p_big.transfer = Len(begun)
<1>1. Len(begun) \in 1..Len(begun)
  BY CurrentType
<1>2. p_big.transfer \in 1..Len(begun) /\ usedIds[p_big.transfer] = usedIds[Len(begun)]
  BY DEF OwnTransfer, SameFile, Id
<1> QED
  BY <1>1, <1>2, OneTransfer

LEMMA BeginKeeps ==
  ASSUME TypeOK, RInv, NEW t \in Transfers, NEW id \in Ids, Begin(t, id)
  PROVE  RInv'
<1>1. /\ begun' = Append(begun, t) /\ usedIds' = Append(usedIds, id)
      /\ pos' = 0 /\ UNCHANGED <<p_big, reported>>
  BY DEF Begin, statics
<1>2. /\ begun \in Seq(Transfers) /\ usedIds \in Seq(Ids)
      /\ Len(usedIds) = Len(begun) /\ Len(begun) \in Nat
  BY DEF TypeOK
<1>3. /\ Len(begun') = Len(begun) + 1 /\ Len(usedIds') = Len(begun) + 1
      /\ \A i \in 1..Len(begun) : begun'[i] = begun[i] /\ usedIds'[i] = usedIds[i]
  BY <1>1, <1>2
<1>4. Reused => Reused'
  <2> SUFFICES ASSUME NEW i \in 1..Len(usedIds), NEW j \in 1..Len(usedIds),
                      i < j, usedIds[i] = usedIds[j]
               PROVE  Reused'
    BY DEF Reused
  <2>1. i \in 1..Len(usedIds') /\ j \in 1..Len(usedIds')
    BY <1>2, <1>3
  <2>2. usedIds'[i] = usedIds'[j]
    BY <1>2, <1>3
  <2> QED
    BY <2>1, <2>2 DEF Reused
<1>5. OwnTransfer'
  <2>1. p_big # NULL => p_big.transfer \in 1..Len(begun')
    BY <1>2, <1>3 DEF RInv, OwnTransfer
  <2> QED
    BY <1>1, <1>3, <1>4, <2>1 DEF RInv, OwnTransfer
<1>6. InOrder'
  <2> SUFFICES ASSUME NEW i \in 1..Len(reported)
               PROVE  /\ reported[i].transfer < Len(begun) + 1
                      /\ reported[i].transfer <= Len(begun) + 1
                      /\ p_big # NULL => reported[i].transfer < p_big.transfer
    BY <1>1, <1>3 DEF InOrder
  <2>1. reported[i].transfer \in Nat
    <3>1. reported[i] \in Files
      BY DEF TypeOK
    <3> QED
      BY <3>1 DEF Files
  <2> QED
    BY <1>2, <2>1 DEF RInv, InOrder
<1> QED
  BY <1>5, <1>6 DEF RInv

LEMMA StartKeeps == ASSUME TypeOK, RInv, ReceiveStart PROVE RInv'
<1>1. /\ p_big' = NewFile /\ begun # << >> /\ pos = 0 /\ pos' = pos + 1
      /\ UNCHANGED <<begun, usedIds, reported>>
  BY DEF ReceiveStart, Arrives
<1>2. Len(begun) \in 1..Len(begun)
  BY <1>1, CurrentType
<1>3. NewFile.transfer = Len(begun) /\ NewFile.id = Id /\ NewFile.next = 0
  BY DEF NewFile
<1>4. OwnTransfer'
  BY <1>1, <1>2, <1>3 DEF OwnTransfer, Id
<1>5. InOrder'
  BY <1>1, <1>3 DEF RInv, InOrder
<1> QED
  BY <1>4, <1>5 DEF RInv

LEMMA CopyKeeps == ASSUME IInv, RInv, CopyFragment PROVE RInv'
<1> DEFINE piece == [block |-> Destination.block, offset |-> Destination.offset,
                     length |-> Fragment.declared, name |-> <<Len(begun), Number>>]
           n == p_big.next
<1>1. /\ p_big' = [p_big EXCEPT !.next = @ + 1, !.pieces = Append(@, piece)]
      /\ p_big # NULL /\ SameFile /\ begun # << >> /\ Number = n
      /\ pos >= 1 /\ pos \in Nat /\ pos' = pos + 1
      /\ UNCHANGED <<begun, usedIds, reported>>
  BY FragmentType DEF IInv, TypeOK, CopyFragment, ReceiveFragment, Arrives, Acceptable
<1>2. /\ p_big \in Files /\ n \in Nat /\ p_big.pieces \in Seq(Pieces)
      /\ Len(p_big.pieces) = n
  BY <1>1 DEF IInv, TypeOK, Files, CopiesTiled, Tiled
<1>3. piece.name = <<Len(begun), n>>
  BY <1>1
<1> HIDE DEF piece
<1>4. /\ p_big'.next = n + 1 /\ p_big'.id = p_big.id /\ p_big'.count = p_big.count
      /\ p_big'.transfer = p_big.transfer
      /\ p_big'.pieces = Append(p_big.pieces, piece)
  BY <1>1, <1>2 DEF Files
<1>5. /\ p_big'.pieces[n + 1] = piece
      /\ \A j \in 1..n : p_big'.pieces[j] = p_big.pieces[j]
  BY <1>2, <1>4
<1>6. ASSUME ~Reused, NEW j \in 1..n + 1
      PROVE  p_big'.pieces[j].name = <<p_big.transfer, j - 1>>
  <2>1. CASE j \in 1..n
    BY <1>1, <1>5, <1>6, <2>1 DEF RInv, OwnTransfer
  <2>2. CASE j = n + 1
    <3>1. p_big.transfer = Len(begun) /\ j - 1 = n
      BY <1>1, <1>2, <1>6, <2>2, SameTransfer DEF IInv, RInv
    <3> QED
      BY <1>3, <1>5, <2>2, <3>1
  <2> QED
    BY <1>2, <2>1, <2>2
<1>7. Reused' <=> Reused
  BY <1>1 DEF Reused
<1>8. OwnTransfer'
  BY <1>1, <1>4, <1>6, <1>7 DEF RInv, OwnTransfer
<1>9. InOrder'
  BY <1>1, <1>4 DEF RInv, InOrder
<1> QED
  BY <1>8, <1>9 DEF RInv

LEMMA ReportKeeps == ASSUME TypeOK, RInv, FileReceived PROVE RInv'
<1>1. /\ p_big' = NULL /\ p_big # NULL /\ reported' = Append(reported, p_big)
      /\ begun' = begun /\ pos \in Nat /\ pos' = pos + 1
  BY DEF TypeOK, FileReceived, Extract, ReceiveEnd, Arrives
<1>2. /\ reported \in Seq(Files) /\ p_big.transfer \in 1..Len(begun)
      /\ Len(begun) \in Nat
  BY <1>1 DEF TypeOK, RInv, OwnTransfer
<1>3. ASSUME NEW i \in 1..Len(reported') PROVE reported'[i].transfer <= Len(begun)
  <2>1. CASE i \in 1..Len(reported)
    BY <1>1, <1>2, <2>1 DEF RInv, InOrder
  <2>2. CASE i = Len(reported) + 1
    BY <1>1, <1>2, <2>2
  <2> QED
    BY <1>1, <1>2, <2>1, <2>2
<1> QED
  BY <1>1, <1>3 DEF RInv, OwnTransfer, InOrder

\* The other steps of the receiver, and of the way to it, give p_big up or
\* leave it, and neither begin nor report anything.
LEMMA RInvKept == ASSUME IInv, RInv, [Next]_vars PROVE RInv'
<1>1. ASSUME NEW t \in Transfers, NEW id \in Ids, Begin(t, id) PROVE RInv'
  BY <1>1, BeginKeeps DEF IInv
<1>2. CASE ReceiveStart
  BY <1>2, StartKeeps DEF IInv
<1>3. CASE CopyFragment
  BY <1>3, CopyKeeps
<1>4. CASE FileReceived
  BY <1>4, ReportKeeps DEF IInv
<1>5. CASE /\ UNCHANGED <<begun, usedIds, reported>>
           /\ p_big' = NULL \/ p_big' = p_big
           /\ pos' = pos \/ pos' = pos + 1
  <2>1. pos \in Nat
    BY DEF IInv, TypeOK
  <2> QED
    BY <1>5, <2>1 DEF RInv, OwnTransfer, InOrder, Reused
<1>6. \/ ReceiveStart \/ CopyFragment \/ FileReceived
      \/ \E t \in Transfers, id \in Ids : Begin(t, id)
      \/ /\ UNCHANGED <<begun, usedIds, reported>>
         /\ p_big' = NULL \/ p_big' = p_big
         /\ pos' = pos \/ pos' = pos + 1
  BY DEF Next, receive_bigfile_from_packet, Lose, ReceiveStartNoMemory, Ignore,
     ContentsNoMemory, RejectFragment, RejectEnd, EndTooEarly, EndNoMemory,
     EndOutside, Extract, ReceiveEnd, ReceiveFragment, Arrives, Reject, Abandon,
     vars, statics, sender
<1> QED
  BY <1>1, <1>2, <1>3, <1>4, <1>5, <1>6

\* The file that is reported has the fragments of the transfer under way.
LEMMA ReportIsTransfers ==
  ASSUME IInv, RInv, FileReceived, ~Reused
  PROVE  Transfer!Report
<1> DEFINE k == Len(begun)
           F(f) == [transfer |-> f.transfer,
                    pieces |-> [j \in 1..Len(f.pieces) |-> f.pieces[j].name]]
           old == [i \in 1..Len(reported) |-> F(reported[i])]
           new == [i \in 1..Len(reported') |-> F(reported'[i])]
           counts == [i \in 1..Len(begun) |-> Unsigned(begun[i].count)]
           contents == [j \in 1..counts[k] |-> <<k, j - 1>>]
<1>1. /\ p_big # NULL /\ SameFile /\ begun # << >> /\ UNCHANGED begun
      /\ reported' = Append(reported, p_big) /\ p_big.count = p_big.next
  BY DEF FileReceived, Extract, ReceiveEnd, Arrives
<1>2. p_big.transfer = k
  BY <1>1, SameTransfer DEF IInv, RInv
<1>3. /\ reported \in Seq(Files) /\ p_big \in Files /\ Len(reported) \in Nat
      /\ k \in Nat /\ k > 0
  BY <1>1 DEF IInv, TypeOK
<1>4. Len(p_big.pieces) = p_big.next /\ counts[k] = p_big.next /\ Len(counts) = k
  <2>1. Unsigned(begun[k].count) = p_big.next /\ k \in 1..k
    BY <1>1, <1>2, <1>3 DEF IInv, FromStart
  <2> QED
    BY <1>1, <1>3, <2>1 DEF IInv, CopiesTiled, Tiled
<1>5. \A j \in 1..p_big.next : p_big.pieces[j].name = <<k, j - 1>>
  BY <1>1, <1>2 DEF RInv, OwnTransfer
<1>6. F(p_big) = [transfer |-> k, pieces |-> contents]
  BY <1>2, <1>4, <1>5
<1>7. /\ Len(reported') = Len(reported) + 1
      /\ \A i \in 1..Len(reported) : reported'[i] = reported[i]
      /\ reported'[Len(reported) + 1] = p_big
  BY <1>1, <1>3
<1> HIDE DEF F
<1>8. Len(old) = Len(reported) /\ DOMAIN old = 1..Len(reported)
  BY <1>3
<1>9. new = Append(old, F(p_big))
  <2> DEFINE n == Len(reported)
             app == [i \in 1..n + 1 |-> IF i = n + 1 THEN F(p_big) ELSE old[i]]
  <2>1. Append(old, F(p_big)) = app
    BY <1>3, <1>8
  <2>2. new = app
    BY <1>3, <1>7
  <2> QED
    BY <2>1, <2>2
<1>10. ASSUME NEW i \in 1..Len(old) PROVE old[i].transfer < k
  BY <1>1, <1>2, <1>8, <1>10 DEF RInv, InOrder, F
<1> QED
  BY <1>1, <1>3, <1>4, <1>6, <1>9, <1>10 DEF Transfer!Report, Transfer!Contents, F

LEMMA InitRInv == Init => RInv
BY DEF Init, RInv, OwnTransfer, InOrder

LEMMA StepIsTransfers ==
  ASSUME IInv, RInv, [Next]_vars
  PROVE  [Transfer!Next \/ Reused']_(Transfer!vars)
<1>1. ASSUME NEW t \in Transfers, NEW id \in Ids, Begin(t, id)
      PROVE  Transfer!Next
  <2> DEFINE Counted(b) == [k \in 1..Len(b) |-> Unsigned(b[k].count)]
             n == Unsigned(t.count)
  <2>1. /\ begun' = Append(begun, t) /\ UNCHANGED reported
        /\ begun \in Seq(Transfers) /\ Len(begun) \in Nat
    BY <1>1 DEF Begin, IInv, TypeOK
  <2>2. /\ Len(begun') = Len(begun) + 1 /\ begun'[Len(begun) + 1] = t
        /\ \A k \in 1..Len(begun) : begun'[k] = begun[k]
    BY <2>1
  <2>3. Len(Counted(begun)) = Len(begun)
    BY <2>1
  <2>4. Append(Counted(begun), n) =
          [k \in 1..Len(begun) + 1 |->
             IF k = Len(begun) + 1 THEN n ELSE Counted(begun)[k]]
    BY <2>1, <2>3
  <2>5. Counted(begun') = Append(Counted(begun), n)
    BY <2>1, <2>2, <2>4
  <2> QED
    BY <2>1, <2>5 DEF Transfer!Next, Transfer!Begin
<1>2. CASE FileReceived
  <2>1. Reused' <=> Reused
    BY <1>2 DEF FileReceived, Extract, ReceiveEnd, Arrives, Reused
  <2> QED
    BY <1>2, <2>1, ReportIsTransfers DEF Transfer!Next
<1>3. CASE UNCHANGED <<begun, reported>>
  BY <1>3 DEF Transfer!vars
<1>4. \/ FileReceived \/ UNCHANGED <<begun, reported>>
      \/ \E t \in Transfers, id \in Ids : Begin(t, id)
  BY DEF Next, receive_bigfile_from_packet, Lose, ReceiveStart,
     ReceiveStartNoMemory, Ignore, ContentsNoMemory, CopyFragment, ReceiveFragment,
     RejectFragment, RejectEnd, EndTooEarly, EndNoMemory, EndOutside, Extract,
     ReceiveEnd, Arrives, Reject, Abandon, vars, sender
<1> QED
  BY <1>1, <1>2, <1>3, <1>4

\* The receiver implements FileTransfer as long as no identifier is used twice,
\* for all transfers, losses and failed allocations: a reported file has every
\* fragment announced for it, each from its own transfer, and files are
\* reported once and in order.
THEOREM ImplementsTransfer == Spec => TransferSpec
<1>1. Init => Transfer!Init
  BY DEF Init, Transfer!Init
<1>2. IInv /\ RInv /\ [Next]_vars => RInv'
  BY RInvKept
<1>3. IInv /\ RInv /\ [Next]_vars => [Transfer!Next \/ Reused']_(Transfer!vars)
  BY StepIsTransfers
<1> QED
  BY <1>1, <1>2, <1>3, InitRInv, Inductive, PTL DEF Spec, TransferSpec
=============================================================================
