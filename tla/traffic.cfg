CONSTANTS
  DELAY_GO = 1
  DELAY_TRAM = 1
  DELAY_YELLOW = 1
  DELAY_FLASHING = 1
  DELAY_STOP = 1
  MQ_MAXMSG = 1
  INTERSECTION_COUNT = 2
  Me = 1
  Keys <- OperatorKeys
  OverrideLights <- NoLights
  LampKeys <- NoLamp
  CopiedLights <- NoLights
SPECIFICATION CommandsSpec
INVARIANTS TypeOK CommandsApplied
CHECK_DEADLOCK FALSE
