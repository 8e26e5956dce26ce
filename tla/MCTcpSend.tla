----------------------------- MODULE MCTcpSend -----------------------------
(* Small instances of TcpSend: a header of one byte. *)
EXTENDS TcpSend

Command(n) == [size |-> n, plain |-> -1, cmdline |-> TRUE]
\* An encrypted command line, with two replies.
Encrypted(n) == [size |-> n, plain |-> n - 1, cmdline |-> TRUE]
\* An encrypted packet of another type.
Secret(n) == [size |-> n, plain |-> n - 1, cmdline |-> FALSE]

\* Peers that read while they write.
MCReadsEarly ==
  {<<Command(3), Command(0)>>, <<Encrypted(2), Command(1)>>,
   <<Secret(2), Secret(1)>>}

\* An encrypted packet of one byte that claims n plain ones.
Claims(n) == [size |-> 1, plain |-> n, cmdline |-> FALSE]

\* Peers that write first, with batches that the receive memory and the
\* peer's window can or cannot hold, and one whose replies are longer than
\* its packets.
MCBatches ==
  MCReadsEarly \cup
  {<<Encrypted(1), Command(2)>>, <<Encrypted(3), Encrypted(3)>>,
   <<Command(0), Command(0), Command(3), Command(1)>>, <<Command(7)>>,
   <<Claims(4), Command(2)>>}
=============================================================================
