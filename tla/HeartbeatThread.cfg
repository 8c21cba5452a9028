SPECIFICATION FairSpec
CONSTANTS
  MaxGeneration = 4
  Networks <- MCNetworks
INVARIANTS NotRelisted NoHeartbeatAfterShutdown
PROPERTIES HidingDelists ShowingLists
