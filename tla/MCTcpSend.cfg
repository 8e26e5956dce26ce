\* Peers that read while they write, and peers that write first.
SPECIFICATION FairSpec
CONSTANTS
  Batches <- MCBatches
  ReadsEarly <- MCReadsEarly
  HEADER_SIZE = 1
  TxMax = 2
  RxMax = 2
  Window = 2
  MaxConnections = 2
CHECK_DEADLOCK FALSE
INVARIANTS
  TypeOK
  WireIsReplies
  MutualWaitOversized
PROPERTIES
  OneSendAtATime
  RepliesRead
