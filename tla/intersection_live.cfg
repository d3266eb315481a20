CONSTANTS
  DELAY_GO = 1
  DELAY_TRAM = 1
  DELAY_YELLOW = 1
  DELAY_FLASHING = 1
  DELAY_STOP = 1
  MQ_MAXMSG = 1
  Keys <- OperatorKeys
  OverrideLights <- YellowOverride
SPECIFICATION AloneSpec
PROPERTIES RoadRequestsServed TramServedInTimerMode ExitCompletes
CHECK_DEADLOCK FALSE
