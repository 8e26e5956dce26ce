\* TIME_LOOP is a loop of "loop seconds", and so returns.
SPECIFICATION EventSpec
CONSTANTS
  Modulus = 32
  LoopTicks = 10
  BodyTicks <- MCBodyTicks
  TurnTicks <- MCTurnTicks
  Period = 20
PROPERTIES
  LoopEnds
