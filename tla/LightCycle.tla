------------------------------ MODULE LightCycle ------------------------------
(*****************************************************************************)
(* timing.c: the table of the nine light states of an intersection, the      *)
(* function that leaves one state for the next, and the colour helpers.      *)
(* Pure operators: the threads that call them are in Intersection and        *)
(* Controller.                                                               *)
(*****************************************************************************)
EXTENDS Integers

CONSTANTS DELAY_GO, DELAY_TRAM, DELAY_YELLOW, DELAY_FLASHING, DELAY_STOP

\* The delays of timing.h are positive numbers of seconds.
ASSUME DelayAssumption ==
  /\ DELAY_GO \in Nat \ {0}
  /\ DELAY_TRAM \in Nat \ {0}
  /\ DELAY_YELLOW \in Nat \ {0}
  /\ DELAY_FLASHING \in Nat \ {0}
  /\ DELAY_STOP \in Nat \ {0}

LIGHT_RED == "R"
LIGHT_YLW == "Y"
LIGHT_GRN == "G"
light_t == {LIGHT_RED, LIGHT_YLW, LIGHT_GRN}

\* The five lamps of intersection_light_t; its timeout is phase_timeout below.
Lamps == {"l_traffic_ns", "l_traffic_ew", "l_ped_ns", "l_ped_ew", "l_tram"}
Lights == [Lamps -> light_t]

\* The nine sensors of intersection_state_t. A sensor that is set is a member
\* of the set `sensors`.
Sensors == {"s_car_n", "s_car_e", "s_car_s", "s_car_w",
            "s_ped_n", "s_ped_e", "s_ped_s", "s_ped_w", "s_tram"}

MODE_INIT == -1
MODE_TIMER == 0
MODE_SENSOR == 1
MODE_COUNT == 2
Modes == {MODE_TIMER, MODE_SENSOR}

Phases == 0..8

-------------------------------------------------------------------------------
\* intersection_light_init

AllRed == [l \in Lamps |-> LIGHT_RED]

light_states == [p \in Phases |->
  CASE p = 1 -> [AllRed EXCEPT !["l_traffic_ew"] = LIGHT_GRN, !["l_ped_ns"] = LIGHT_GRN]
    [] p = 2 -> [AllRed EXCEPT !["l_traffic_ew"] = LIGHT_GRN, !["l_ped_ns"] = LIGHT_YLW]
    [] p = 3 -> [AllRed EXCEPT !["l_traffic_ew"] = LIGHT_YLW]
    [] p = 5 -> [AllRed EXCEPT !["l_tram"] = LIGHT_GRN]
    [] p = 6 -> [AllRed EXCEPT !["l_traffic_ns"] = LIGHT_GRN, !["l_ped_ew"] = LIGHT_GRN]
    [] p = 7 -> [AllRed EXCEPT !["l_traffic_ns"] = LIGHT_GRN, !["l_ped_ew"] = LIGHT_YLW]
    [] p = 8 -> [AllRed EXCEPT !["l_traffic_ns"] = LIGHT_YLW]
    [] OTHER -> AllRed]

phase_timeout == [p \in Phases |->
  CASE p \in {0, 4} -> DELAY_STOP
    [] p \in {1, 6} -> DELAY_GO
    [] p \in {2, 7} -> DELAY_FLASHING
    [] p \in {3, 8} -> DELAY_YELLOW
    [] OTHER -> DELAY_TRAM]

-------------------------------------------------------------------------------
\* intersection_light_next

\* The requests that end the green of state 1, and those that end that of 6.
NSRequests == {"s_car_n", "s_car_s", "s_ped_e", "s_ped_w"}
EWRequests == {"s_car_e", "s_car_w", "s_ped_n", "s_ped_s"}

\* Two slips: only the cars are asked for; a switch to timer mode is not seen
\* before the next stop state.
MayLeaveForCars(p, sensors, mode, mode_current) ==
  LET timed == mode_current = MODE_TIMER \/ mode = MODE_TIMER
  IN  /\ p = 1 => timed \/ sensors \cap {"s_car_n", "s_car_s"} # {}
      /\ p = 6 => timed \/ sensors \cap {"s_car_e", "s_car_w"} # {}

MayLeaveInOldMode(p, sensors, mode, mode_current) ==
  LET timed == mode_current = MODE_TIMER
  IN  /\ p = 1 => timed \/ sensors \cap NSRequests # {}
      /\ p = 6 => timed \/ sensors \cap EWRequests # {}

\* Traffic or tram is waiting at a green that is not theirs: the test of the
\* two green states. The other states may always be left.
MayLeave(p, sensors, mode, mode_current) ==
  LET timed == mode_current = MODE_TIMER \/ mode = MODE_TIMER
  IN  /\ p = 1 => timed \/ sensors \cap NSRequests # {}
      /\ p = 6 => timed \/ sensors \cap EWRequests # {}

\* A slip: the ring is closed one state too late, without its all-red state.
FollowingWithoutStop(p, sensors, tram_en) ==
  CASE p = 8 -> 1
    [] p = 4 /\ ~(tram_en /\ "s_tram" \in sensors) -> 6
    [] OTHER -> p + 1

\* The state entered from p: a ring, with the tram state only on request.
Following(p, sensors, tram_en) ==
  CASE p = 8 -> 0
    [] p = 4 /\ ~(tram_en /\ "s_tram" \in sensors) -> 6
    [] OTHER -> p + 1

\* A slip: it is the sensors of the road that had its green which are cleared,
\* at the end of its flashing.
ClearedAfterGreen(p, tram_en) ==
  CASE p = 2 -> EWRequests
    [] p = 7 -> NSRequests
    [] p = 4 /\ tram_en -> {"s_tram"}
    [] OTHER -> {}

\* The sensors that leaving p clears.
ClearedBy(p, tram_en) ==
  CASE p = 1 -> NSRequests
    [] p = 6 -> EWRequests
    [] p = 4 /\ tram_en -> {"s_tram"}
    [] OTHER -> {}

\* A mode switch is picked up in the two stop states.
ModeAfter(p, mode, mode_current) == IF p \in {0, 4} THEN mode ELSE mode_current

-------------------------------------------------------------------------------
\* The colour helpers of the override.

\* intersection_light_safe: what an override shows unless told otherwise.
intersection_light_safe == [l \in Lamps |-> LIGHT_YLW]

\* intersection_light_next_colour
intersection_light_next_colour(light) ==
  CASE light = LIGHT_RED -> LIGHT_GRN
    [] light = LIGHT_YLW -> LIGHT_RED
    [] OTHER -> LIGHT_YLW
===============================================================================
