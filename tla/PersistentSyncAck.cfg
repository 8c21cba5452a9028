SPECIFICATION Spec
CONSTANTS
  MaxValue = 2
  MaxTimed = 2
  MaxWrites = 3
  MaxClears = 1
  MaxDrops = 0
  MaxConns = 1
  KeyKinds = {"state"}
INVARIANT LastWriteKept
CHECK_DEADLOCK FALSE
