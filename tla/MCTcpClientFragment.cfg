\* The documented result of contains_tcp_packet3_fragment.
SPECIFICATION Spec
CONSTANTS
  Packets <- MCPacketsFew
  MaxSent = 1
  MaxConnections = 2
  MaxFailures = 0
INVARIANTS
  FragmentIndexDocumented
