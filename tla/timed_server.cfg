CONSTANTS
  c1 = c1
  c2 = c2
  c3 = c3
  Clients <- AllClients
  MAX_CLIENT = 2
  TIMEOUT = 3
  MaxPulses = 1
SPECIFICATION FairSpec
INVARIANTS TypeOK SlotsBlock
PROPERTIES TimedOutOnTime RendezvousSpec SlotsFreed
