SPECIFICATION FairSpec
CONSTANTS
  c1 = c1
  c2 = c2
  relayed = relayed
  Handle = {c1}
  KindOf <- MCKindOf
  TrustedKinds = {"turn"}
  MaxIncoming = 1
  MaxQueued = 2
  PluginQueueCap = 5
  SendKinds = {"game", "identify", "ping"}
  MaxSend = 3
INVARIANT InOrder
PROPERTIES IdleReaped UnidentifiedReaped ClosedConnectionForgotten
