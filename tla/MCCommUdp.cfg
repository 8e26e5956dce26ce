\* Three datagrams of every kind, and a chip that may lose its registers.
SPECIFICATION FairSpec
CONSTANTS
  host1 = host1
  host2 = host2
  Nowhere = Nowhere
  Hosts <- MCHosts
  Datagrams <- MCDatagrams
  RxMax = 2
  MaxDatagrams = 3
  MaxResets = 1
CHECK_DEADLOCK FALSE
INVARIANTS
  TypeOK
  InStep
PROPERTIES
  ConnectsAsAsked
  RequestServed
  DatagramsTaken
