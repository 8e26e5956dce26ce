\* Identifiers used again; senders of every kind, losses and failures.
SPECIFICATION Spec
CONSTANTS
  Transfers <- MCTransfers
  Ids = {i1, i2}
  Word = 32
  Record = 2
  Slack = 2
  Heap = 12
  MaxTransfers = 3
  MaxLost = 1
  MaxFailures = 1
SYMMETRY Symmetry
CHECK_DEADLOCK FALSE
INVARIANTS
  TypeOK
  CopiesInside
  ReportedWhole
  OneBlock
PROPERTIES
  IntactReported
  TransferSpec
