SPECIFICATION PageSpec
CONSTANTS
  Kinds = {"calendar"}
  Subjects = {"a", "b"}
  MaxVersion = 2
  MaxMoves = 3
  MaxFails = 1
  MaxTicks = 1
PROPERTY RefetchesOnChange
CHECK_DEADLOCK FALSE
