----------------------------- MODULE TrafficProofs -----------------------------
(*****************************************************************************)
(* Proofs about TrafficSystem: what is proved of an intersection with any    *)
(* controller holds of it with the controller of the repository, and the     *)
(* last command, or key, of a kind is the one that is carried out.           *)
(*****************************************************************************)
EXTENDS TrafficSystem, TLAPS

\* The intersection with a controller that may ask for any lights.
Free == INSTANCE IntersectionProofs WITH OverrideLights <- Lights

LEMMA FreeAssumptions ==
  Free!IntersectionAssumption /\ Free!StartupAssumption /\ Free!DelayAssumption
BY ControllerAssumption, ComposedAssumption, DelayAssumption
   DEF Free!IntersectionAssumption, Free!StartupAssumption, Free!DelayAssumption,
       Free!Sensors, Sensors, Free!Lights, Lights, Free!Lamps, Lamps, Free!light_t, light_t,
       Free!LIGHT_RED, Free!LIGHT_YLW, Free!LIGHT_GRN, LIGHT_RED, LIGHT_YLW, LIGHT_GRN,
       Free!StartupTimeout, I!StartupTimeout

-------------------------------------------------------------------------------
\* The composition implements the intersection: the controller does nothing to
\* the queues that Intersection does not let a controller do.

LEMMA FreeInit == Init => Free!Init
BY DEF Init, I!Init, Free!Init, I!StartupTimeout, Free!StartupTimeout,
       I!intersection_light_safe, Free!intersection_light_safe, I!Lamps, Free!Lamps,
       I!LIGHT_YLW, Free!LIGHT_YLW, I!MODE_TIMER, Free!MODE_TIMER, I!MODE_INIT, Free!MODE_INIT

LEMMA FreeKeys ==
  /\ \A s \in Sensors : I!SensorKey(s) => Free!SensorKey(s)
  /\ I!ModeKey => Free!ModeKey
  /\ I!OverrideKey => Free!OverrideKey
  /\ I!Escape => Free!Escape
  /\ I!Join => Free!Join
<1> USE DEF I!HandlesKey, Free!HandlesKey, I!shared, Free!shared, I!locals, Free!locals,
            I!history, Free!history
<1>1. \A s \in Sensors : I!SensorKey(s) => Free!SensorKey(s)
  BY DEF I!SensorKey, Free!SensorKey, I!ServedBy, Free!ServedBy, I!Sensors, Free!Sensors,
         I!NSRequests, Free!NSRequests, I!EWRequests, Free!EWRequests
<1>2. I!ModeKey => Free!ModeKey
  BY DEF I!ModeKey, Free!ModeKey, I!MODE_COUNT, Free!MODE_COUNT
<1>3. I!OverrideKey => Free!OverrideKey
  BY DEF I!OverrideKey, Free!OverrideKey
<1>4. I!Escape => Free!Escape
  BY DEF I!Escape, Free!Escape
<1>5. I!Join => Free!Join
  BY DEF I!Join, Free!Join
<1> QED
  BY <1>1, <1>2, <1>3, <1>4, <1>5

LEMMA FreeLightThread == I!LightThread => Free!LightThread
<1> USE DEF I!shared, Free!shared, I!locals, Free!locals, I!history, Free!history
<1>1. I!StartLight => Free!StartLight
  BY DEF I!StartLight, Free!StartLight
<1>2. I!LockLight => Free!LockLight
  BY DEF I!LockLight, Free!LockLight
<1>3. I!ExitLight => Free!ExitLight
  BY DEF I!ExitLight, Free!ExitLight
<1>4. I!ReceiveNothing => Free!ReceiveNothing
  BY DEF I!ReceiveNothing, Free!ReceiveNothing
<1>5. I!ReceiveCommand => Free!ReceiveCommand
  BY DEF I!ReceiveCommand, Free!ReceiveCommand
<1>6. I!FinishIteration => Free!FinishIteration
  BY DEF I!FinishIteration, Free!FinishIteration
<1>7. I!StayOverridden => Free!StayOverridden
  BY <1>6 DEF I!StayOverridden, Free!StayOverridden
<1>8. I!CountDown => Free!CountDown
  BY <1>6 DEF I!CountDown, Free!CountDown
<1>9. I!MayLeave(light_current, sensors, mode, mode_current)
        <=> Free!MayLeave(light_current, sensors, mode, mode_current)
  BY DEF I!MayLeave, Free!MayLeave, I!MODE_TIMER, Free!MODE_TIMER, I!NSRequests,
         Free!NSRequests, I!EWRequests, Free!EWRequests
<1>10. I!HoldGreen => Free!HoldGreen
  BY <1>6, <1>9 DEF I!HoldGreen, Free!HoldGreen
<1>11. I!phase_timeout = Free!phase_timeout
  BY DEF I!phase_timeout, Free!phase_timeout, I!Phases, Free!Phases
<1>12. I!EnterNext => Free!EnterNext
  BY <1>6, <1>9, <1>11
  DEF I!EnterNext, Free!EnterNext, I!Following, Free!Following, I!ModeAfter, Free!ModeAfter,
      I!ClearedBy, Free!ClearedBy, I!Send, Free!Send, I!ServedBy, Free!ServedBy,
      I!NSRequests, Free!NSRequests, I!EWRequests, Free!EWRequests
<1>13. I!Wake => Free!Wake
  BY <1>11 DEF I!Wake, Free!Wake
<1> QED
  BY <1>1, <1>2, <1>3, <1>4, <1>5, <1>7, <1>8, <1>10, <1>12, <1>13
  DEF I!LightThread, Free!LightThread

\* The controller's own variables.
ControllerTypeOK ==
  /\ controller \in 0..(INTERSECTION_COUNT - 1) /\ override_state \in Lights
  /\ cache \in C!Cached /\ tmp_override_en \in BOOLEAN
  /\ c_run \in BOOLEAN

LEMMA ControllerTypeInit == Init => ControllerTypeOK
BY ControllerAssumption
   DEF Init, C!CInit, ControllerTypeOK, C!Cached, C!Modes, C!MODE_TIMER, C!MODE_SENSOR,
       C!intersection_light_safe, C!Lamps, C!LIGHT_YLW, Lights, Lamps, light_t, LIGHT_YLW

\* What the intersection reports.
StatusesTyped == status_mq \in Seq(I!Statuses)

LEMMA ControllerTypeStep ==
  ControllerTypeOK /\ StatusesTyped /\ [Next]_vars => ControllerTypeOK'
<1> SUFFICES ASSUME ControllerTypeOK, StatusesTyped, [Next]_vars PROVE ControllerTypeOK'
  OBVIOUS
<1> USE DEF ControllerTypeOK
<1>1. ASSUME NEW l \in C!Lamps, C!ColourKey(l) PROVE ControllerTypeOK'
  BY <1>1 DEF C!ColourKey, C!intersection_light_next_colour, C!Lamps, Lamps, Lights, light_t,
       LIGHT_RED, LIGHT_YLW, LIGHT_GRN, C!LIGHT_RED, C!LIGHT_YLW, C!LIGHT_GRN
<1>2. CASE C!SelectKey
  BY <1>2, ControllerAssumption DEF C!SelectKey
<1>3. CASE C!SwitchKey
  BY <1>3 DEF C!SwitchKey, C!ctl
<1>4. CASE C!OverrideSetKey
  <2>1. override_state' \in Lights
    BY <1>4, ControllerAssumption DEF C!OverrideSetKey
  <2>2. cache' \in C!Cached
    BY <1>4 DEF C!OverrideSetKey, C!Cached
  <2> QED
    BY <1>4, <2>1, <2>2 DEF C!OverrideSetKey
<1>5. CASE C!CExit
  BY <1>5 DEF C!CExit, C!ctl
<1>6. CASE C!ReadStatus
  <2>1. Head(status_mq) \in I!Statuses
    BY <1>6 DEF C!ReadStatus, StatusesTyped
  <2>2. cache' \in C!Cached
    BY <1>6, <2>1 DEF C!ReadStatus, C!Cached, I!Statuses, I!Modes, C!Modes, I!MODE_TIMER,
         I!MODE_SENSOR, C!MODE_TIMER, C!MODE_SENSOR
  <2> QED
    BY <1>6, <2>2 DEF C!ReadStatus
<1>7. CASE UNCHANGED ctlvars
  BY <1>7 DEF ctlvars
<1> QED
  BY <1>1, <1>2, <1>3, <1>4, <1>5, <1>6, <1>7
  DEF Next, ControllerStep, ModeKeyStep, OverrideKeyStep, IntersectionStep, C!CStep, C!CMain,
      vars

\* A key of the operator is a message sent, or none; a pass of the state thread
\* takes one status.
LEMMA FreeController ==
  ControllerTypeOK /\ ControllerStep =>
    Free!PeerSends \/ Free!PeerReceives \/ UNCHANGED Free!vars
<1> SUFFICES ASSUME ControllerTypeOK, ControllerStep
             PROVE  Free!PeerSends \/ Free!PeerReceives \/ UNCHANGED Free!vars
  OBVIOUS
<1>0. UNCHANGED <<Free!shared, Free!locals, run, lock, main_pc, light_pc, attached, Free!history>>
  BY DEF ControllerStep, ivars, Free!shared, Free!locals, Free!history
<1>1. CASE C!SwitchKey
  <2> DEFINE m == [type |-> "m",
                   mode |-> IF cache.mode = MODE_TIMER THEN MODE_SENSOR ELSE MODE_TIMER]
  <2>1. m \in Free!ModeMessages
    BY DEF Free!ModeMessages, Free!Modes, MODE_TIMER, MODE_SENSOR, Free!MODE_TIMER,
           Free!MODE_SENSOR
  <2>2. mode_mq' = Free!Send(mode_mq, m) /\ UNCHANGED status_mq
    BY <1>1 DEF C!SwitchKey, C!CSend, Free!Send, MODE_TIMER, MODE_SENSOR, C!MODE_TIMER,
                C!MODE_SENSOR
  <2> QED
    BY <1>0, <2>1, <2>2 DEF Free!PeerSends
<1>2. CASE C!OverrideSetKey /\ controller = Me
  <2> DEFINE m == [type |-> "o", override_en |-> cache'.override_en,
                   override |-> override_state']
  <2>1. override_state' \in Lights
    BY <1>2, ControllerAssumption DEF C!OverrideSetKey, ControllerTypeOK
  <2>2. cache'.override_en \in BOOLEAN
    BY <1>2 DEF C!OverrideSetKey, ControllerTypeOK, C!Cached
  <2>3. m \in Free!OverrideMessages(Lights)
    BY <2>1, <2>2 DEF Free!OverrideMessages
  <2>4. mode_mq' = Free!Send(mode_mq, m) /\ UNCHANGED status_mq
    BY <1>2 DEF C!OverrideSetKey, C!CSend, Free!Send
  <2> QED
    BY <1>0, <2>3, <2>4 DEF Free!PeerSends
<1>3. CASE C!OverrideSetKey /\ controller # Me
  BY <1>0, <1>3 DEF C!OverrideSetKey, Free!vars
<1>4. CASE C!ReadStatus
  BY <1>0, <1>4 DEF C!ReadStatus, Free!PeerReceives
<1>5. CASE \E l \in C!Lamps : C!ColourKey(l)
  BY <1>0, <1>5 DEF C!ColourKey, Free!vars
<1>6. CASE C!SelectKey \/ C!CExit
  BY <1>0, <1>6 DEF C!SelectKey, C!CExit, Free!vars
<1> QED
  BY <1>1, <1>2, <1>3, <1>4, <1>5, <1>6 DEF ControllerStep, C!CStep, C!CMain

LEMMA FreeStep == ControllerTypeOK /\ [Next]_vars => [Free!Next]_(Free!vars)
<1> SUFFICES ASSUME ControllerTypeOK, [Next]_vars PROVE [Free!Next]_(Free!vars)
  OBVIOUS
<1>1. CASE ControllerStep
  BY <1>1, FreeController DEF Free!Next
<1>2. CASE ModeKeyStep
  BY <1>2, FreeKeys DEF ModeKeyStep, Free!Next, Free!Step, Free!Main
<1>3. CASE OverrideKeyStep
  BY <1>3, FreeKeys DEF OverrideKeyStep, Free!Next, Free!Step, Free!Main
<1>4. CASE IntersectionStep
  <2>1. CASE I!LightThread
    BY <2>1, FreeLightThread DEF Free!Next, Free!Step
  <2>2. CASE I!Escape \/ I!Join
    BY <2>2, FreeKeys DEF Free!Next, Free!Step, Free!Main
  <2>3. CASE \E s \in Sensors : I!SensorKey(s)
    <3>1. \E s \in Free!Sensors : Free!SensorKey(s)
      BY <2>3, FreeKeys DEF Sensors, Free!Sensors
    <3> QED
      BY <3>1 DEF Free!Next, Free!Step, Free!Main
  <2> QED
    BY <1>4, <2>1, <2>2, <2>3 DEF IntersectionStep
<1>5. CASE UNCHANGED vars
  BY <1>5 DEF vars, ivars, Free!vars, Free!shared, Free!locals, Free!history
<1> QED
  BY <1>1, <1>2, <1>3, <1>4, <1>5 DEF Next

TrafficInv == Free!TypeOK /\ ControllerTypeOK

LEMMA TrafficInvStep == TrafficInv /\ [Next]_vars => TrafficInv'
<1>1. TrafficInv => StatusesTyped
  BY DEF TrafficInv, Free!TypeOK, StatusesTyped, Free!Statuses, I!Statuses, Free!Modes, I!Modes,
         Free!MODE_TIMER, I!MODE_TIMER, Free!MODE_SENSOR, I!MODE_SENSOR
<1> QED
  BY <1>1, FreeStep, ControllerTypeStep, FreeAssumptions, Free!TypeStep DEF TrafficInv

LEMMA TrafficInvInit == Init => TrafficInv
BY FreeInit, ControllerTypeInit, FreeAssumptions, Free!TypeInit DEF TrafficInv

LEMMA TrafficInvAlways == Spec => []TrafficInv
BY TrafficInvInit, TrafficInvStep, PTL DEF Spec

\* The intersection under the controller of the repository is one under a
\* controller of any kind.
THEOREM IntersectionImplemented == Spec => Free!Spec
<1>1. TrafficInv /\ [Next]_vars => [Free!Next]_(Free!vars)
  BY FreeStep DEF TrafficInv
<1> QED
  BY <1>1, FreeInit, TrafficInvAlways, PTL DEF Spec, Free!Spec

\* So under the controller's commands too no request is lost, every light state
\* is shown for its time and the lights never release two movements at once.
THEOREM RemoteControlSafe ==
  Spec => /\ []Free!NoLostRequest
          /\ Free!MinimumDwell
          /\ [](Free!Crossing!OneMovement /\ Free!Crossing!WalkBesideGreen)
BY IntersectionImplemented, FreeAssumptions, Free!RequestsKept, Free!DwellKept, Free!LightsSafe,
   PTL

\* Both processes' variables and the two queues keep their types.
THEOREM TrafficTypeCorrect == Spec => []TypeOK
<1>1. TrafficInv => TypeOK
  <2>1. Free!TypeOK => I!TypeOK
    BY DEF Free!TypeOK, I!TypeOK, Free!Sensors, I!Sensors, Free!Modes, I!Modes,
       Free!MODE_TIMER, I!MODE_TIMER, Free!MODE_SENSOR, I!MODE_SENSOR, Free!MODE_INIT,
       I!MODE_INIT, Free!Lights, I!Lights, Free!Lamps, I!Lamps, Free!light_t, I!light_t,
       Free!LIGHT_RED, Free!LIGHT_YLW, Free!LIGHT_GRN, I!LIGHT_RED, I!LIGHT_YLW, I!LIGHT_GRN,
       Free!Phases, I!Phases, Free!Commands, I!Commands, Free!ModeMessages, I!ModeMessages,
       Free!OverrideMessages, I!OverrideMessages, Free!Statuses, I!Statuses
  <2> QED
    BY <2>1 DEF TrafficInv, ControllerTypeOK, TypeOK
<1> QED
  BY <1>1, TrafficInvAlways, PTL

-------------------------------------------------------------------------------
\* The last word counts. CommandsApplied says nothing of a mode or an override
\* while commands of its kind wait. What keeps it is that the last of them asks
\* for what the intersection is to do: the one before may be overtaken by a key,
\* the last one not.

LastOfKind(type, i) ==
  /\ i \in DOMAIN mode_mq /\ mode_mq[i].type = type
  /\ \A j \in DOMAIN mode_mq : j > i => mode_mq[j].type # type

LastCommands ==
  \A i \in DOMAIN mode_mq :
    /\ LastOfKind("m", i) => asked.mode = mode_mq[i].mode
    /\ LastOfKind("o", i) => /\ asked.override_en = mode_mq[i].override_en
                             /\ asked.override = mode_mq[i].override

Asked == [mode : Modes, override_en : BOOLEAN, override : Lights]

CommandsInv == asked \in Asked /\ LastCommands /\ CommandsApplied

\* The two kinds of commands.
Command(m) ==
  \/ m.type = "m" /\ m.mode \in Modes
  \/ m.type = "o" /\ m.override_en \in BOOLEAN /\ m.override \in Lights

LEMMA QueueTyped ==
  TrafficInv => /\ mode_mq \in Seq(Free!Commands)
                /\ \A i \in DOMAIN mode_mq : Command(mode_mq[i])
                /\ mode \in Modes /\ override_en \in BOOLEAN /\ override \in Lights
<1> SUFFICES ASSUME TrafficInv
             PROVE  /\ mode_mq \in Seq(Free!Commands)
                    /\ \A i \in DOMAIN mode_mq : Command(mode_mq[i])
                    /\ mode \in Modes /\ override_en \in BOOLEAN /\ override \in Lights
  OBVIOUS
<1> USE DEF Free!Modes, Modes, Free!MODE_TIMER, MODE_TIMER, Free!MODE_SENSOR, MODE_SENSOR,
            Free!Lights, Lights, Free!Lamps, Lamps, Free!light_t, light_t, Free!LIGHT_RED,
            Free!LIGHT_YLW, Free!LIGHT_GRN, LIGHT_RED, LIGHT_YLW, LIGHT_GRN
<1>1. \A m \in Free!Commands : Command(m)
  BY DEF Free!Commands, Free!ModeMessages, Free!OverrideMessages, Command
<1>2. mode_mq \in Seq(Free!Commands)
  BY DEF TrafficInv, Free!TypeOK
<1>3. mode \in Modes /\ override_en \in BOOLEAN /\ override \in Lights
  BY DEF TrafficInv, Free!TypeOK
<1> QED
  BY <1>1, <1>2, <1>3

LEMMA CommandsInit == Init => CommandsInv
BY TrafficInvInit, QueueTyped
   DEF Init, I!Init, CommandsInv, Asked, LastCommands, CommandsApplied, Queued

\* A command the queue accepts is now the last of its kind.
LEMMA SentIsAsked ==
  ASSUME TrafficInv, CommandsInv, NEW m, Command(m), mode_mq' = C!CSend(mode_mq, m),
         asked' = IF Len(mode_mq') > Len(mode_mq) THEN Told(Last(mode_mq')) ELSE asked,
         UNCHANGED <<mode, override_en, override>>
  PROVE  CommandsInv'
<1>0. mode_mq \in Seq(Free!Commands) /\ \A i \in DOMAIN mode_mq : Command(mode_mq[i])
  BY QueueTyped
<1>1. CASE mode_mq' = mode_mq
  BY <1>0, <1>1
  DEF CommandsInv, LastCommands, LastOfKind, CommandsApplied, Queued
<1>2. CASE mode_mq' = Append(mode_mq, m)
  <2> DEFINE n == Len(mode_mq)
  <2>1. /\ n \in Nat /\ DOMAIN mode_mq = 1..n /\ DOMAIN mode_mq' = 1..(n + 1)
        /\ Len(mode_mq') = n + 1 /\ mode_mq'[n + 1] = m
        /\ \A i \in 1..n : mode_mq'[i] = mode_mq[i]
    BY <1>0, <1>2
  <2>2. asked' = Told(m)
    BY <2>1 DEF Last
  <2>3. CASE m.type = "m"
    <3>1. asked' = [asked EXCEPT !.mode = m.mode] /\ m.mode \in Modes
      BY <2>2, <2>3 DEF Told, Command
    <3>2. /\ asked' \in Asked /\ asked'.mode = m.mode
          /\ asked'.override_en = asked.override_en /\ asked'.override = asked.override
      BY <3>1 DEF CommandsInv, Asked
    <3>3. \A i \in DOMAIN mode_mq' : LastOfKind("m", i)' => i = n + 1
      BY <2>1, <2>3 DEF LastOfKind
    <3>4. \A i \in DOMAIN mode_mq' : LastOfKind("o", i)' => i \in 1..n /\ LastOfKind("o", i)
      BY <2>1, <2>3 DEF LastOfKind
    <3>5. LastCommands'
      BY <2>1, <3>2, <3>3, <3>4 DEF LastCommands, CommandsInv
    <3>6. Queued("m")' /\ (~Queued("o")' => ~Queued("o"))
      BY <2>1, <2>3 DEF Queued
    <3> QED
      BY <3>2, <3>5, <3>6 DEF CommandsInv, CommandsApplied
  <2>4. CASE m.type = "o"
    <3>1. /\ asked' = [asked EXCEPT !.override_en = m.override_en, !.override = m.override]
          /\ m.override_en \in BOOLEAN /\ m.override \in Lights
      BY <2>2, <2>4 DEF Told, Command
    <3>2. /\ asked' \in Asked /\ asked'.mode = asked.mode
          /\ asked'.override_en = m.override_en /\ asked'.override = m.override
      BY <3>1 DEF CommandsInv, Asked
    <3>3. \A i \in DOMAIN mode_mq' : LastOfKind("o", i)' => i = n + 1
      BY <2>1, <2>4 DEF LastOfKind
    <3>4. \A i \in DOMAIN mode_mq' : LastOfKind("m", i)' => i \in 1..n /\ LastOfKind("m", i)
      BY <2>1, <2>4 DEF LastOfKind
    <3>5. LastCommands'
      BY <2>1, <3>2, <3>3, <3>4 DEF LastCommands, CommandsInv
    <3>6. Queued("o")' /\ (~Queued("m")' => ~Queued("m"))
      BY <2>1, <2>4 DEF Queued
    <3> QED
      BY <3>2, <3>5, <3>6 DEF CommandsInv, CommandsApplied
  <2> QED
    BY <2>3, <2>4 DEF Command
<1> QED
  BY <1>1, <1>2 DEF C!CSend

LEMMA ControllerKeepsCommands ==
  TrafficInv /\ CommandsInv /\ ControllerStep => CommandsInv'
<1> SUFFICES ASSUME TrafficInv, CommandsInv, ControllerStep PROVE CommandsInv'
  OBVIOUS
<1>0. /\ UNCHANGED <<mode, override_en, override>>
      /\ asked' = IF Len(mode_mq') > Len(mode_mq) THEN Told(Last(mode_mq')) ELSE asked
      /\ mode_mq \in Seq(Free!Commands)
  BY QueueTyped DEF ControllerStep, ivars
<1>1. CASE C!SwitchKey
  <2> DEFINE m == [type |-> "m",
                   mode |-> IF cache.mode = MODE_TIMER THEN MODE_SENSOR ELSE MODE_TIMER]
  <2>1. Command(m)
    BY DEF Command, Modes
  <2>2. mode_mq' = C!CSend(mode_mq, m)
    BY <1>1 DEF C!SwitchKey, MODE_TIMER, MODE_SENSOR, C!MODE_TIMER, C!MODE_SENSOR
  <2> QED
    BY <1>0, <2>1, <2>2, SentIsAsked
<1>2. CASE C!OverrideSetKey /\ controller = Me
  <2> DEFINE m == [type |-> "o", override_en |-> cache'.override_en,
                   override |-> override_state']
  <2>1. override_state' \in Lights
    BY <1>2, ControllerAssumption DEF C!OverrideSetKey, TrafficInv, ControllerTypeOK
  <2>2. cache'.override_en \in BOOLEAN
    BY <1>2 DEF C!OverrideSetKey, TrafficInv, ControllerTypeOK, C!Cached
  <2>3. Command(m)
    BY <2>1, <2>2 DEF Command
  <2>4. mode_mq' = C!CSend(mode_mq, m)
    BY <1>2 DEF C!OverrideSetKey
  <2> QED
    BY <1>0, <2>3, <2>4, SentIsAsked
<1>3. CASE UNCHANGED mode_mq
  BY <1>0, <1>3 DEF CommandsInv, LastCommands, LastOfKind, CommandsApplied, Queued
<1> QED
  BY <1>1, <1>2, <1>3
  DEF ControllerStep, C!CStep, C!CMain, C!ColourKey, C!SelectKey, C!OverrideSetKey, C!CExit,
      C!ReadStatus, C!ctl

\* A key counts as the last word only while no command of its kind waits.
LEMMA KeysKeepCommands ==
  TrafficInv /\ CommandsInv /\ (ModeKeyStep \/ OverrideKeyStep) => CommandsInv'
<1> SUFFICES ASSUME TrafficInv, CommandsInv, ModeKeyStep \/ OverrideKeyStep PROVE CommandsInv'
  OBVIOUS
<1>0. /\ mode_mq' = mode_mq
      /\ \A i, type : LastOfKind(type, i)' <=> LastOfKind(type, i)
      /\ \A i, type : LastOfKind(type, i) => Queued(type)
      /\ \A type : Queued(type)' <=> Queued(type)
  BY DEF ModeKeyStep, OverrideKeyStep, I!ModeKey, I!OverrideKey, LastOfKind, Queued
<1>1. CASE ModeKeyStep
  <2>1. /\ asked' = IF Queued("m") THEN asked ELSE [asked EXCEPT !.mode = mode']
        /\ UNCHANGED <<override_en, override>>
    BY <1>1 DEF ModeKeyStep, I!ModeKey
  <2>2. mode' \in Modes
    BY <1>1, QueueTyped DEF ModeKeyStep, I!ModeKey, I!MODE_COUNT, Modes, MODE_TIMER, MODE_SENSOR
  <2>3. /\ asked' \in Asked
        /\ asked'.override_en = asked.override_en /\ asked'.override = asked.override
        /\ asked'.mode = IF Queued("m") THEN asked.mode ELSE mode'
    BY <2>1, <2>2 DEF CommandsInv, Asked
  <2> QED
    BY <1>0, <2>1, <2>3 DEF CommandsInv, LastCommands, CommandsApplied
<1>2. CASE OverrideKeyStep
  <2>1. /\ asked' = IF Queued("o") THEN asked ELSE [asked EXCEPT !.override_en = override_en']
        /\ UNCHANGED <<mode, override>> /\ override_en' \in BOOLEAN
    BY <1>2, QueueTyped DEF OverrideKeyStep, I!OverrideKey
  <2>2. /\ asked' \in Asked
        /\ asked'.mode = asked.mode /\ asked'.override = asked.override
        /\ asked'.override_en = IF Queued("o") THEN asked.override_en ELSE override_en'
    BY <2>1 DEF CommandsInv, Asked
  <2> QED
    BY <1>0, <2>1, <2>2 DEF CommandsInv, LastCommands, CommandsApplied
<1> QED
  BY <1>1, <1>2

\* A command that is received was the last of its kind, or another is left.
LEMMA ReceiveKeepsCommands ==
  TrafficInv /\ CommandsInv /\ I!ReceiveCommand /\ UNCHANGED asked => CommandsInv'
<1> SUFFICES ASSUME TrafficInv, CommandsInv, I!ReceiveCommand, UNCHANGED asked
             PROVE  CommandsInv'
  OBVIOUS
<1> DEFINE n == Len(mode_mq)
<1>1. mode_mq \in Seq(Free!Commands) /\ mode_mq # <<>> /\ mode_mq' = Tail(mode_mq)
  BY QueueTyped DEF I!ReceiveCommand
<1>2. /\ n \in Nat /\ n > 0 /\ DOMAIN mode_mq = 1..n /\ DOMAIN mode_mq' = 1..(n - 1)
      /\ \A i \in 1..(n - 1) : mode_mq'[i] = mode_mq[i + 1]
      /\ Head(mode_mq) = mode_mq[1]
  BY <1>1
<1>3. \A i \in 1..(n - 1), type \in {"m", "o"} :
        LastOfKind(type, i)' => LastOfKind(type, i + 1)
  <2> SUFFICES ASSUME NEW i \in 1..(n - 1), NEW type \in {"m", "o"}, LastOfKind(type, i)',
                      NEW j \in DOMAIN mode_mq, j > i + 1
               PROVE  mode_mq[j].type # type
    BY <1>2 DEF LastOfKind
  <2>1. j - 1 \in 1..(n - 1) /\ j - 1 > i
    BY <1>2
  <2>2. mode_mq'[j - 1] = mode_mq[j]
    BY <1>2, <2>1
  <2> QED
    BY <1>2, <2>1, <2>2 DEF LastOfKind
<1>4. LastCommands'
  BY <1>2, <1>3 DEF LastCommands, CommandsInv
<1>5. \A type \in {"m", "o"} : ~Queued(type)' => \A j \in 2..n : mode_mq[j].type # type
  <2> SUFFICES ASSUME NEW type \in {"m", "o"}, ~Queued(type)', NEW j \in 2..n
               PROVE  mode_mq[j].type # type
    OBVIOUS
  <2>1. j - 1 \in 1..(n - 1) /\ mode_mq'[j - 1] = mode_mq[j]
    BY <1>2
  <2> QED
    BY <1>2, <2>1 DEF Queued
<1>6. ASSUME NEW type \in {"m", "o"}, ~Queued(type)', mode_mq[1].type = type
      PROVE  LastOfKind(type, 1)
  BY <1>2, <1>5, <1>6 DEF LastOfKind
<1>7. ASSUME NEW type \in {"m", "o"}, ~Queued(type)', mode_mq[1].type # type
      PROVE  ~Queued(type)
  BY <1>2, <1>5, <1>7 DEF Queued
<1>8. ~Queued("m")' => mode' = asked'.mode
  BY <1>2, <1>6, <1>7 DEF I!ReceiveCommand, LastCommands, CommandsInv, CommandsApplied
<1>9. ~Queued("o")' => override_en' = asked'.override_en /\ override' = asked'.override
  BY <1>2, <1>6, <1>7 DEF I!ReceiveCommand, LastCommands, CommandsInv, CommandsApplied
<1> QED
  BY <1>4, <1>8, <1>9 DEF CommandsInv, CommandsApplied

LEMMA CommandsStep == TrafficInv /\ CommandsInv /\ [Next]_vars => CommandsInv'
<1> SUFFICES ASSUME TrafficInv, CommandsInv, [Next]_vars PROVE CommandsInv'
  OBVIOUS
<1>1. CASE I!ReceiveCommand /\ UNCHANGED asked
  BY <1>1, ReceiveKeepsCommands
<1>2. CASE UNCHANGED <<mode, override_en, override, mode_mq, asked>>
  BY <1>2 DEF CommandsInv, LastCommands, LastOfKind, CommandsApplied, Queued
<1>3. CASE IntersectionStep
  BY <1>1, <1>2, <1>3
  DEF IntersectionStep, I!LightThread, I!SensorKey, I!Escape, I!Join, I!StartLight, I!LockLight,
      I!ExitLight, I!ReceiveNothing, I!FinishIteration, I!StayOverridden, I!CountDown,
      I!HoldGreen, I!EnterNext, I!Wake, I!shared, I!locals, I!history
<1>4. CASE UNCHANGED vars
  BY <1>2, <1>4 DEF vars, ivars
<1> QED
  BY <1>3, <1>4, ControllerKeepsCommands, KeysKeepCommands DEF Next

\* Whatever the queue drops and however keys and commands race, with no command
\* of a kind under way the intersection does what it was last told.
THEOREM LastWordCounts == Spec => []CommandsApplied
<1>1. CommandsInv => CommandsApplied
  BY DEF CommandsInv
<1> QED
  BY <1>1, CommandsInit, CommandsStep, TrafficInvAlways, PTL DEF Spec

===============================================================================
