CONSTANTS
  DELAY_GO = 2
  DELAY_TRAM = 1
  DELAY_YELLOW = 1
  DELAY_FLASHING = 1
  DELAY_STOP = 1
  MQ_MAXMSG = 1
  Keys <- Requests
  OverrideLights <- YellowOverride
SPECIFICATION Spec
INVARIANTS TypeOK NoLostRequest NoUseAfterClean
PROPERTIES MinimumDwell SafeCrossingSpec
CHECK_DEADLOCK FALSE
