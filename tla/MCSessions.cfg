SPECIFICATION SessionsSpec
CONSTANTS
  MaxGeneration = 2
  MaxStops = 1
  Host <- MCHosts
  User <- MCUsers
  MaxAttempts = 2
  UdpCand <- MCUdp
  EosCand <- MCEos
  OverlayCand <- MCNoOverlay
INVARIANTS HandleFree AdvertisedRelayServed AloneGivesBack
PROPERTIES StartReturns StopReturns AttemptEnds
CHECK_DEADLOCK FALSE
