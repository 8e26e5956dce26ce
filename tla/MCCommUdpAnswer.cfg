\* The answer to the second part of a datagram.
SPECIFICATION Spec
CONSTANTS
  host1 = host1
  host2 = host2
  Nowhere = Nowhere
  Hosts <- MCHosts
  Datagrams <- MCDatagrams
  RxMax = 2
  MaxDatagrams = 3
  MaxResets = 1
CHECK_DEADLOCK FALSE
INVARIANT AnswersToSender
