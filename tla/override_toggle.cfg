CONSTANTS
  DELAY_GO = 1
  DELAY_TRAM = 1
  DELAY_YELLOW = 1
  DELAY_FLASHING = 1
  DELAY_STOP = 1
  MQ_MAXMSG = 1
  INTERSECTION_COUNT = 1
  Me = 0
  Keys <- NoKeys
  OverrideLights <- NoLights
  LampKeys <- NoLamp
  CopiedLights <- NoLights
SPECIFICATION PatientSpec
PROPERTIES OverrideAlternates
CHECK_DEADLOCK FALSE
