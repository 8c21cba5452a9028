SPECIFICATION Spec
CONSTANTS
  MaxGeneration = 2
  MaxStops = 1
  Host <- MCHost
  User <- MCUser
INVARIANT AllocationsGivenBack
CHECK_DEADLOCK FALSE
