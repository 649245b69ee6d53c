SPECIFICATION Spec
CONSTANTS
  Protocols = {"map", "ws", "udp"}
  MaxClients = 2
  MaxSends = 2
  MaxData <- MCMaxData
INVARIANTS
  TypeOK
  ListIsTrue
  DeliveredAsMeant
  BroadcastReachesAll
CHECK_DEADLOCK FALSE
