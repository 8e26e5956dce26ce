\* recv over the registers of the chip and SPI with DMA while data arrive.
\* After a failure the program waits for ever, so the system may stop.
SPECIFICATION DriverSpec
CONSTANTS
  Base = 4
  Size = 8
  Lens = {4}
  Starts = {13}
  MaxArrived = 5
  Lengths = {4, 5, 6, 7, 8, 9, 10, 11}
  FifoDepth = 1
INVARIANTS
  TypeOK
  BusTypeOK
  SizeWasTrue
  StartsReady
PROPERTIES
  WholeTransfer
  AccessEnds
  StreamKept
CHECK_DEADLOCK FALSE
