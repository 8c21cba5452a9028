SPECIFICATION Spec
CONSTANTS
  MaxAttempts = 2
  UdpCand <- MCUdp
  EosCand <- MCNoEos
  OverlayCand <- MCOverlay
INVARIANT NoOlderRoute
CHECK_DEADLOCK FALSE
