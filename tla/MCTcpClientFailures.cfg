\* One failed allocation or chip reset: eating, DHCP again, and progress.
SPECIFICATION FairSpec
CONSTANTS
  Packets <- MCPacketsFew
  MaxSent = 2
  MaxConnections = 1
  MaxFailures = 1
PROPERTIES
  EventuallyTaken
  SocketReopens
