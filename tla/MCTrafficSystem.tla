---------------------------- MODULE MCTrafficSystem ----------------------------
\* Small instances of TrafficSystem for TLC.
EXTENDS TrafficSystem

\* The tram plays no part in what is asked of an intersection, nor does what the
\* stack of the state thread first held in how commands are carried out.
CommandsInit == Init /\ tram_en = FALSE /\ tmp_override_en = FALSE
CommandsSpec == CommandsInit /\ [][Next]_vars

OperatorKeys == {"m", "o", "s_car_n"}
OverrideKeys == {"o"}
NoKeys == {}

\* The controller's operator waits for room in the queue before an override key,
\* so that no override command is dropped.
PatientSpec ==
  /\ Init /\ tram_en = FALSE
  /\ [][Next /\ (Len(mode_mq) = MQ_MAXMSG => ~C!OverrideSetKey)]_vars

\* The colour of one lamp is changed.
OneLamp == {"l_tram"}
NoLamp == {}
NoLights == {}
YellowLights == {intersection_light_safe}
===============================================================================
