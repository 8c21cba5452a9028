SPECIFICATION Spec
CONSTANTS
  MaxAttempts = 2
  UdpCand <- MCUdp
  EosCand <- MCNoEos
  OverlayCand <- MCOverlay
INVARIANTS ProbeSocketLifetime Explained LatestAttemptConnects
PROPERTY ChosenRouteKept
CHECK_DEADLOCK FALSE
