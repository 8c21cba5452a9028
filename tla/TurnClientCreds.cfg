SPECIFICATION Spec
CONSTANTS
  MaxGeneration = 2
  MaxStops = 0
  Host <- MCHosts
  User <- MCUsers
INVARIANT CredentialsMatchRelay
CHECK_DEADLOCK FALSE
