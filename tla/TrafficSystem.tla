----------------------------- MODULE TrafficSystem -----------------------------
(*****************************************************************************)
(* An intersection and the central controller, sharing the two queues of the *)
(* intersection: commands in mode_mq, light states in status_mq.             *)
(*****************************************************************************)
EXTENDS LightCycle, Sequences, SequencesExt

CONSTANTS Keys, OverrideLights, MQ_MAXMSG,
          INTERSECTION_COUNT, Me, LampKeys, CopiedLights

ASSUME ControllerAssumption ==
  /\ INTERSECTION_COUNT \in Nat \ {0}
  /\ Me \in 0..(INTERSECTION_COUNT - 1)
  /\ LampKeys \subseteq Lamps
  /\ CopiedLights \subseteq Lights
  /\ MQ_MAXMSG \in Nat \ {0}

VARIABLES
  sensors, mode, override_en, override, tram_en,
  light_current, mode_current, timeout, override_current,
  run, lock, main_pc, light_pc, attached, waiting, dwell,
  controller, override_state, cache, tmp_override_en, c_run,
  mode_mq, status_mq,
  asked  \* history: what the intersection is to do once mode_mq is empty

ivars == <<sensors, mode, override_en, override, tram_en,
           light_current, mode_current, timeout, override_current,
           run, lock, main_pc, light_pc, attached, waiting, dwell>>
ctlvars == <<controller, override_state, cache, tmp_override_en, c_run>>
vars == <<ivars, ctlvars, mode_mq, status_mq, asked>>

I == INSTANCE Intersection
C == INSTANCE Controller

\* What Intersection assumes, but for OverrideLights: here it is the controller
\* that decides on the lights of an override.
ASSUME ComposedAssumption ==
  /\ Keys \subseteq Sensors \cup {"m", "o"}
  /\ DELAY_STOP <= I!StartupTimeout

Init ==
  /\ I!Init /\ C!CInit
  /\ asked = [mode |-> mode, override_en |-> override_en, override |-> override]

Queued(type) == \E i \in DOMAIN mode_mq : mode_mq[i].type = type

\* What is asked of the intersection by a command the queue has accepted.
Told(msg) ==
  IF msg.type = "m"
  THEN [asked EXCEPT !.mode = msg.mode]
  ELSE [asked EXCEPT !.override_en = msg.override_en, !.override = msg.override]

ControllerStep ==
  /\ C!CStep
  /\ asked' = IF Len(mode_mq') > Len(mode_mq) THEN Told(Last(mode_mq')) ELSE asked
  /\ UNCHANGED ivars

\* A key of the intersection counts unless a command of its kind is under way.
ModeKeyStep ==
  /\ I!ModeKey
  /\ asked' = IF Queued("m") THEN asked ELSE [asked EXCEPT !.mode = mode']
  /\ UNCHANGED ctlvars

OverrideKeyStep ==
  /\ I!OverrideKey
  /\ asked' = IF Queued("o") THEN asked ELSE [asked EXCEPT !.override_en = override_en']
  /\ UNCHANGED ctlvars

IntersectionStep ==
  /\ I!LightThread \/ (\E s \in Sensors : I!SensorKey(s)) \/ I!Escape \/ I!Join
  /\ UNCHANGED <<ctlvars, asked>>

Next == ControllerStep \/ ModeKeyStep \/ OverrideKeyStep \/ IntersectionStep

Spec == Init /\ [][Next]_vars

-------------------------------------------------------------------------------
TypeOK ==
  /\ I!TypeOK
  /\ controller \in 0..(INTERSECTION_COUNT - 1) /\ override_state \in Lights
  /\ cache \in C!Cached
  /\ c_run \in BOOLEAN

\* The last word counts. With the commands of a kind all received, the
\* intersection is in the mode, and under the override, it was last told to be,
\* although commands come one an iteration, may be dropped by a full queue, and
\* race the keys of the intersection itself.
CommandsApplied ==
  /\ ~Queued("m") => mode = asked.mode
  /\ ~Queued("o") => override_en = asked.override_en /\ override = asked.override

\* "Tell selected intersection to change override": each override command
\* changes what the one before it asked for.
OverrideAlternates ==
  [][Len(mode_mq') > Len(mode_mq) /\ Last(mode_mq').type = "o" =>
       asked'.override_en # asked.override_en]_vars
===============================================================================
