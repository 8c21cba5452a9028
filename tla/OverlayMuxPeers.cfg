SPECIFICATION Spec
CONSTANTS
  c1 = c1
  c2 = c2
  relayed = relayed
  Handle = {c1, c2}
  KindOf <- MCKindOf
  TrustedKinds = {"turn"}
  MaxIncoming = 1
  MaxQueued = 2
  PluginQueueCap = 2
  SendKinds = {"game", "identify", "part"}
  MaxSend = 1
INVARIANTS HandlesMatchPeers RecordsBelongToPeers IncomingCapped
PROPERTIES ImplementsRegistry OnlyAdmittedQueued IdsNeverReused
