CONSTANTS
  plain = plain
  reconnecting = reconnecting
  Clients <- TwoClients
  Reconnecting <- OneReconnects
  MaxScoid = 3
SPECIFICATION FairSpec
INVARIANTS TypeOK OneClient NoScoidLeak
PROPERTIES RegisteredNotified LookingEnds
