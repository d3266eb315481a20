---------------------------- MODULE MCIntersection ----------------------------
\* Small instances of Intersection for TLC.
EXTENDS Intersection

\* A request of each road, the tram.
Requests == {"s_car_n", "s_ped_s", "s_tram"}

\* A request of each road, the tram, and the two keys of the operator.
OperatorKeys == {"s_car_n", "s_ped_s", "s_tram", "m", "o"}

\* What a controller asks an override to show.
YellowOverride == {intersection_light_safe}

\* The intersection alone: no controller is running, so that status_mq is soon
\* full and stays so, and all commands come from the keys.
AloneSpec == Init /\ [][Step]_vars /\ Fairness
===============================================================================
