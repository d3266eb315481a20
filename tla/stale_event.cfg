CONSTANTS
  plain = plain
  reconnecting = reconnecting
  Clients <- TwoClients
  Reconnecting <- OneReconnects
  MaxScoid = 3
SPECIFICATION Spec
PROPERTIES OwnEventDelivered
