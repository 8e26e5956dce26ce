---------------------------- MODULE MCTcpClient ----------------------------
(* Small instances of TcpClient. *)
EXTENDS TcpClient

\* A packet without data, one whose byte looks like the start of a header,
\* and one that contains the first two bytes of a header.
Empty == [flag |-> 0, type |-> 1, data |-> << >>]
LooksLikeStart == [flag |-> 0, type |-> 1, data |-> <<RC_FS>>]
HoldsStart == [flag |-> 128, type |-> 2, data |-> <<7, RC_FS, RC_MAGIC>>]

MCPackets == {Empty, LooksLikeStart, HoldsStart}
MCPacketsFew == {Empty, HoldsStart}
=============================================================================
