\* The contents buffer of a fragment.
SPECIFICATION Spec
CONSTANTS
  Transfers <- MCHonest
  Ids = {1}
  Word = 32
  Record = 2
  Slack = 2
  Heap = 12
  MaxTransfers = 2
  MaxLost = 0
  MaxFailures = 0
CHECK_DEADLOCK FALSE
INVARIANTS
  ContentsFreed
