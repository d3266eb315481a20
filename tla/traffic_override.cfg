CONSTANTS
  DELAY_GO = 1
  DELAY_TRAM = 1
  DELAY_YELLOW = 1
  DELAY_FLASHING = 1
  DELAY_STOP = 1
  MQ_MAXMSG = 1
  INTERSECTION_COUNT = 1
  Me = 0
  Keys <- OverrideKeys
  OverrideLights <- NoLights
  LampKeys <- OneLamp
  CopiedLights <- YellowLights
SPECIFICATION CommandsSpec
INVARIANTS CommandsApplied
CHECK_DEADLOCK FALSE
