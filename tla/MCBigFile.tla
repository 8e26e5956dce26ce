----------------------------- MODULE MCBigFile -----------------------------
(* Small instances of BigFile. *)
EXTENDS BigFile, TLC

Frag(offset, length) == [offset |-> offset, declared |-> length, length |-> length]
File(size, frags) ==
  [name |-> 2, size |-> size, count |-> Len(frags), frags |-> frags, crc |-> 0]

TwoFragments == File(3, <<Frag(0, 2), Frag(2, 1)>>)
OneFragment == File(1, <<Frag(0, 1)>>)
EmptyFile == File(0, << >>)
\* The file grew, or shrank, after its size was announced.
Grown == File(1, <<Frag(0, 1), Frag(1, 1)>>)
Shrunk == File(3, <<Frag(0, 1)>>)
\* More fragments than announced; one that is cut short; a checksum.
MoreFragments == [File(2, <<Frag(0, 2), Frag(2, 1)>>) EXCEPT !.count = 1]
CutShort == File(2, <<[offset |-> 0, declared |-> 2, length |-> 1]>>)
WithChecksum == [OneFragment EXCEPT !.crc = 1]
\* A size that malloc refuses; sizes for which mem_size wraps: there is room for
\* one byte, two bytes are to be extracted, the record itself does not fit.
TooLarge == File(-20, <<Frag(0, 1)>>)
Wrapped == File(-1, <<Frag(0, 1), Frag(1, 1)>>)
WrappedEmpty == File(-1, << >>)
WrappedRecord == File(-3, << >>)

MCHonest == {TwoFragments, OneFragment, EmptyFile}
MCTransfers ==
  MCHonest \cup {Grown, Shrunk, MoreFragments, CutShort, WithChecksum,
                 TooLarge, Wrapped, WrappedEmpty, WrappedRecord}

\* An identifier is only compared with another.
Symmetry == Permutations(Ids)
=============================================================================
