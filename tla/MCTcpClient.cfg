\* Two connections, two packets each, no failure: framing and reconnection.
SPECIFICATION Spec
CONSTANTS
  Packets <- MCPackets
  MaxSent = 2
  MaxConnections = 2
  MaxFailures = 0
INVARIANTS
  TypeOK
  InStep
  AsksForBytes
PROPERTIES
  DeliverySpec
