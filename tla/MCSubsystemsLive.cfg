SPECIFICATION FairSpec
CONSTANTS
  MaxValue = 1
  MaxTimed = 1
  MaxWrites = 2
  MaxClears = 1
  MaxDrops = 1
  MaxConns = 2
  KeyKinds <- MCKeyKinds
  MaxVersion = 3
  MaxDamage = 1
  MaxFailures = 2
  MaxCrashes = 2
  Thread <- MCThread
  Capacity = 1
  EventWords = 2
  MaxSequence = 3
  Key <- MCKey
  Ways = 2
  Item <- MCItem
  Path <- MCPath
  Root <- MCRoot
  MaxChanges = 1
  MaxUpdates = 2
  MaxDepth = 2
  MessageIds = 3
  MaxPending = 2
  MaxFragments = 2
  Lifetime = 1
  Delay = 1
  MaxMessages = 4
  MaxClock = 3
  Context <- MCContext
  MaxQueue = 1
  MaxErrors = 2
  MaxBlocks = 2
PROPERTIES Agreement WorkEnds UpdateEnds
CHECK_DEADLOCK FALSE
