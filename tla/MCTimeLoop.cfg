\* How long TIME_LOOP lasts when the counter does not wrap in it, and when it
\* returns.
SPECIFICATION EventSpec
CONSTANTS
  Modulus = 32
  LoopTicks = 10
  BodyTicks <- MCBodyTicks
  TurnTicks <- MCTurnTicks
  Period = 20
INVARIANTS
  TypeOK
PROPERTIES
  LoopLastsUnlessWrap
  LoopEndsIfWide
  ReportsInTime
  ReportsNotEarly
