-------------------------- MODULE IntersectionProofs --------------------------
(*****************************************************************************)
(* Proofs about Intersection, for all delays, keys, overrides and queue      *)
(* capacities that its assumptions allow.                                    *)
(*****************************************************************************)
EXTENDS Intersection, TLAPS

-------------------------------------------------------------------------------
\* Facts about the operators of timing.c.

\* intersection_light_init fills the table with colours and positive delays.
LEMMA TableType ==
  /\ light_states \in [Phases -> Lights]
  /\ phase_timeout \in [Phases -> Nat \ {0}]
<1>1. AllRed \in Lights
  BY DEF AllRed, Lights, light_t, LIGHT_RED
<1>2. \A c \in light_t : \A L \in Lights : \A l \in Lamps : [L EXCEPT ![l] = c] \in Lights
  BY DEF Lights
<1>3. ASSUME NEW p \in Phases PROVE light_states[p] \in Lights
  BY <1>1, <1>2 DEF light_states, light_t, LIGHT_GRN, LIGHT_YLW, Lamps
<1>4. ASSUME NEW p \in Phases PROVE phase_timeout[p] \in Nat \ {0}
  BY DelayAssumption DEF phase_timeout
<1>5. light_states = [p \in Phases |-> light_states[p]]
  BY DEF light_states
<1>6. phase_timeout = [p \in Phases |-> phase_timeout[p]]
  BY DEF phase_timeout
<1> QED
  BY <1>3, <1>4, <1>5, <1>6

\* intersection_light_next stays within the table.
LEMMA FollowingType ==
  ASSUME NEW p \in Phases, NEW S, NEW t
  PROVE  Following(p, S, t) \in Phases
BY DEF Following, Phases

\* A non-blocking send keeps the queue typed and within its capacity.
LEMMA SendType ==
  ASSUME NEW M, NEW q \in Seq(M), Len(q) <= MQ_MAXMSG, NEW m \in M
  PROVE  Send(q, m) \in Seq(M) /\ Len(Send(q, m)) <= MQ_MAXMSG
BY IntersectionAssumption DEF Send

\* Whatever a controller may send is a command.
LEMMA PeerSendsCommands ==
  ModeMessages \cup OverrideMessages(OverrideLights) \subseteq Commands
BY IntersectionAssumption DEF Commands, ModeMessages, OverrideMessages

-------------------------------------------------------------------------------
LEMMA TypeInit == Init => TypeOK
<1> SUFFICES ASSUME Init PROVE TypeOK
  OBVIOUS
<1>1. override \in Lights
  BY DEF Init, intersection_light_safe, Lights, light_t
<1>2. /\ mode_mq \in Seq(Commands) /\ Len(mode_mq) <= MQ_MAXMSG
      /\ status_mq \in Seq(Statuses) /\ Len(status_mq) <= MQ_MAXMSG
  BY IntersectionAssumption DEF Init
<1>3. /\ mode \in Modes /\ mode_current \in Modes \cup {MODE_INIT}
      /\ light_current \in Phases /\ timeout \in Nat /\ dwell \in Nat
  BY DEF Init, Modes, Phases, MODE_TIMER, MODE_SENSOR, MODE_INIT, StartupTimeout
<1>4. sensors \in SUBSET Sensors /\ waiting \in SUBSET Sensors
  BY DEF Init
<1> QED
  BY <1>1, <1>2, <1>3, <1>4 DEF Init, TypeOK

LEMMA TypeStep == TypeOK /\ [Next]_vars => TypeOK'
<1> SUFFICES ASSUME TypeOK, [Next]_vars PROVE TypeOK'
  OBVIOUS
<1>1. ASSUME NEW s \in Sensors, SensorKey(s) PROVE TypeOK'
  BY <1>1 DEF SensorKey, TypeOK, locals, HandlesKey
<1>2. CASE ModeKey
  <2>1. mode' \in Modes
    BY <1>2 DEF ModeKey, TypeOK, Modes, MODE_TIMER, MODE_SENSOR, MODE_COUNT
  <2> QED
    BY <1>2, <2>1 DEF ModeKey, TypeOK, locals, history
<1>3. CASE OverrideKey
  BY <1>3 DEF OverrideKey, TypeOK, locals, history
<1>4. CASE Escape
  BY <1>4 DEF Escape, TypeOK, shared, locals, history
<1>5. CASE Join
  BY <1>5 DEF Join, TypeOK, shared, locals, history
<1>6. CASE StartLight
  BY <1>6 DEF StartLight, TypeOK, shared, history
<1>7. CASE LockLight
  BY <1>7 DEF LockLight, TypeOK, shared, locals, history
<1>8. CASE ExitLight
  BY <1>8 DEF ExitLight, TypeOK, shared, locals, history
<1>9. CASE ReceiveNothing
  BY <1>9 DEF ReceiveNothing, TypeOK, shared, locals, history
<1>10. CASE ReceiveCommand
  <2>1. mode_mq' \in Seq(Commands) /\ Len(mode_mq') <= MQ_MAXMSG
    BY <1>10, IntersectionAssumption DEF ReceiveCommand, TypeOK
  <2>2. Head(mode_mq) \in Commands
    BY <1>10 DEF ReceiveCommand, TypeOK
  <2>3. mode' \in Modes /\ override_en' \in BOOLEAN /\ override' \in Lights
    BY <1>10, <2>2 DEF ReceiveCommand, TypeOK, Commands, ModeMessages, OverrideMessages
  <2> QED
    BY <1>10, <2>1, <2>3 DEF ReceiveCommand, TypeOK, locals, history
<1>11. CASE StayOverridden
  BY <1>11 DEF StayOverridden, FinishIteration, TypeOK, history
<1>12. CASE CountDown
  BY <1>12 DEF CountDown, FinishIteration, TypeOK, history
<1>13. CASE HoldGreen
  BY <1>13 DEF HoldGreen, FinishIteration, TypeOK, history
<1>14. CASE EnterNext
  <2>1. light_current' \in Phases
    BY <1>14, FollowingType DEF EnterNext, TypeOK
  <2>2. timeout' \in Nat
    BY <1>14, <2>1, TableType DEF EnterNext
  <2>3. mode_current' \in Modes \cup {MODE_INIT}
    BY <1>14 DEF EnterNext, TypeOK, ModeAfter
  <2>4. [mode |-> mode] \in Statuses
    BY DEF Statuses, TypeOK
  <2>5. status_mq' \in Seq(Statuses) /\ Len(status_mq') <= MQ_MAXMSG
    BY <1>14, <2>4, SendType DEF EnterNext, TypeOK
  <2> QED
    BY <1>14, <2>1, <2>2, <2>3, <2>5 DEF EnterNext, FinishIteration, TypeOK
<1>15. CASE Wake
  BY <1>15 DEF Wake, TypeOK, shared, locals
<1>16. CASE PeerSends
  <2>1. mode_mq' \in Seq(Commands) /\ Len(mode_mq') <= MQ_MAXMSG
    BY <1>16, PeerSendsCommands, SendType DEF PeerSends, TypeOK
  <2> QED
    BY <1>16, <2>1 DEF PeerSends, TypeOK, shared, locals, history
<1>17. CASE PeerReceives
  <2>1. status_mq' \in Seq(Statuses) /\ Len(status_mq') <= MQ_MAXMSG
    BY <1>17, IntersectionAssumption DEF PeerReceives, TypeOK
  <2> QED
    BY <1>17, <2>1 DEF PeerReceives, TypeOK, shared, locals, history
<1>18. CASE UNCHANGED vars
  BY <1>18 DEF vars, TypeOK, shared, locals, history
<1> QED
  BY <1>1, <1>2, <1>3, <1>4, <1>5, <1>6, <1>7, <1>8, <1>9, <1>10, <1>11, <1>12,
     <1>13, <1>14, <1>15, <1>16, <1>17, <1>18
  DEF Next, Step, Main, LightThread

\* The shared state, the threads' variables and both queues keep their types
\* through every step of the two threads and of the controller.
THEOREM TypeCorrect == Spec => []TypeOK
BY TypeInit, TypeStep, PTL DEF Spec

-------------------------------------------------------------------------------
\* No request is lost. NoLostRequest is inductive with the types alone: the
\* states in which a request may be out of its latch are exactly those between
\* the state that clears it and the state that serves it.

LEMMA LostRequestStep == TypeOK /\ NoLostRequest /\ [Next]_vars => NoLostRequest'
<1> SUFFICES ASSUME TypeOK, NoLostRequest, [Next]_vars PROVE NoLostRequest'
  OBVIOUS
<1>1. ASSUME NEW s \in Sensors, SensorKey(s) PROVE NoLostRequest'
  BY <1>1 DEF SensorKey, NoLostRequest, locals
<1>2. CASE EnterNext
  <2> SUFFICES ASSUME NEW s \in waiting'
               PROVE  \/ s \in sensors'
                      \/ s \in NSRequests /\ light_current' \in 2..5
                      \/ s \in EWRequests /\ light_current' \in {7, 8, 0}
    BY DEF NoLostRequest
  <2>1. /\ s \in waiting /\ s \in Sensors /\ ServedBy(s) # light_current'
        /\ light_current \in 0..8
        /\ light_current' = Following(light_current, sensors, tram_en)
        /\ sensors' = sensors \ ClearedBy(light_current, tram_en)
    BY <1>2 DEF EnterNext, TypeOK, Phases
  <2>2. CASE s \in NSRequests
    BY <2>1, <2>2 DEF NoLostRequest, Following, ClearedBy, ServedBy, NSRequests, EWRequests
  <2>3. CASE s \in EWRequests
    BY <2>1, <2>3 DEF NoLostRequest, Following, ClearedBy, ServedBy, NSRequests, EWRequests
  <2>4. CASE s = "s_tram"
    BY <2>1, <2>4 DEF NoLostRequest, Following, ClearedBy, ServedBy, NSRequests, EWRequests
  <2> QED
    BY <2>1, <2>2, <2>3, <2>4 DEF Sensors, NSRequests, EWRequests
<1>3. CASE UNCHANGED <<sensors, waiting, light_current>>
  BY <1>3 DEF NoLostRequest
<1>4. \/ \E s \in Sensors : SensorKey(s)
      \/ EnterNext
      \/ UNCHANGED <<sensors, waiting, light_current>>
  BY DEF Next, Step, Main, LightThread, ModeKey, OverrideKey, Escape, Join, StartLight,
         LockLight, ExitLight, ReceiveNothing, ReceiveCommand, StayOverridden, CountDown,
         HoldGreen, Wake, PeerSends, PeerReceives, vars, shared, locals, history
<1> QED
  BY <1>1, <1>2, <1>3, <1>4

\* However keys, commands and the light thread interleave, a request that has
\* not had its light is latched or committed to.
THEOREM RequestsKept == Spec => []NoLostRequest
<1>1. Init => NoLostRequest
  BY DEF Init, NoLostRequest
<1> QED
  BY <1>1, LostRequestStep, TypeCorrect, PTL DEF Spec

-------------------------------------------------------------------------------
\* The mutex: it is held exactly in the light thread's critical section, and
\* destroyed only when that thread is gone.
LockInv ==
  /\ lock = "light" <=> light_pc \in {"receive", "lights"}
  /\ ~attached => light_pc = "done"

LEMMA LockInvariant == Spec => []LockInv
<1>1. Init => LockInv
  BY DEF Init, LockInv
<1>2. TypeOK /\ LockInv /\ [Next]_vars => LockInv'
  BY DEF LockInv, TypeOK, Next, Step, Main, LightThread, HandlesKey, SensorKey, ModeKey,
         OverrideKey, Escape, Join, StartLight, LockLight, ExitLight, ReceiveNothing,
         ReceiveCommand, FinishIteration, StayOverridden, CountDown, HoldGreen, EnterNext,
         Wake, PeerSends, PeerReceives, vars, shared, locals, history
<1> QED
  BY <1>1, <1>2, TypeCorrect, PTL DEF Spec

\* ESC at any point of the light thread leaves nobody to use the destroyed
\* mutex or the closed queues.
THEOREM CleanIsLast == Spec => []NoUseAfterClean
<1>1. TypeOK /\ LockInv => NoUseAfterClean
  BY DEF TypeOK, LockInv, NoUseAfterClean
<1> QED
  BY <1>1, LockInvariant, TypeCorrect, PTL

-------------------------------------------------------------------------------
\* The clock of a light state. The timeout and the seconds shown add up to the
\* state's delay; asleep after an iteration that was not overridden, the light
\* thread is one second short of it.
DwellInv ==
  /\ light_pc \in {"start", "lock", "receive", "lights"} =>
       dwell >= phase_timeout[light_current] - timeout
  /\ light_pc = "sleep" =>
       dwell >= phase_timeout[light_current] - timeout - (IF override_current THEN 0 ELSE 1)

LEMMA DwellStep == TypeOK /\ DwellInv /\ [Next]_vars => DwellInv'
<1> SUFFICES ASSUME TypeOK, DwellInv, [Next]_vars PROVE DwellInv'
  OBVIOUS
<1>0. phase_timeout[light_current] \in Nat /\ timeout \in Nat /\ dwell \in Nat
  BY TableType DEF TypeOK
<1>1. CASE StartLight
  BY <1>0, <1>1 DEF StartLight, DwellInv, history
<1>2. CASE LockLight
  BY <1>0, <1>2 DEF LockLight, DwellInv, locals, history
<1>3. CASE ExitLight
  BY <1>3 DEF ExitLight, DwellInv
<1>4. CASE ReceiveNothing
  BY <1>0, <1>4 DEF ReceiveNothing, DwellInv, locals, history
<1>5. CASE ReceiveCommand
  BY <1>0, <1>5 DEF ReceiveCommand, DwellInv, locals, history
<1>6. CASE StayOverridden
  BY <1>0, <1>6 DEF StayOverridden, FinishIteration, DwellInv, history
<1>7. CASE CountDown
  BY <1>0, <1>7 DEF CountDown, FinishIteration, DwellInv, history
<1>8. CASE HoldGreen
  BY <1>0, <1>8 DEF HoldGreen, FinishIteration, DwellInv, history
<1>9. CASE EnterNext
  <2>1. light_current' \in Phases
    BY <1>9, FollowingType DEF EnterNext, TypeOK
  <2>2. phase_timeout[light_current'] \in Nat
    BY <2>1, TableType
  <2> QED
    BY <1>9, <2>2 DEF EnterNext, FinishIteration, DwellInv
<1>10. CASE Wake
  BY <1>0, <1>10 DEF Wake, DwellInv, locals
<1>11. CASE UNCHANGED <<locals, light_pc, dwell>>
  BY <1>11 DEF DwellInv, locals
<1> QED
  BY <1>1, <1>2, <1>3, <1>4, <1>5, <1>6, <1>7, <1>8, <1>9, <1>10, <1>11
  DEF Next, Step, Main, LightThread, SensorKey, ModeKey, OverrideKey, Escape, Join,
      PeerSends, PeerReceives, vars, history

\* For any delays, a light state is shown at least as long as the table says.
THEOREM DwellKept == Spec => MinimumDwell
<1>1. Init => DwellInv
  <2>1. phase_timeout[0] = DELAY_STOP
    BY DEF phase_timeout, Phases
  <2> QED
    BY <2>1, DelayAssumption, StartupAssumption DEF Init, DwellInv, StartupTimeout
<1>2. ASSUME TypeOK, DwellInv, [Next]_vars
      PROVE  [light_current' # light_current => dwell >= phase_timeout[light_current]]_vars
  <2>1. CASE EnterNext
    <3>1. timeout = 0 /\ light_pc = "lights"
      BY <1>2, <2>1 DEF EnterNext, FinishIteration, TypeOK
    <3>2. phase_timeout[light_current] \in Nat
      BY <1>2, TableType DEF TypeOK
    <3> QED
      BY <1>2, <3>1, <3>2 DEF DwellInv
  <2>2. CASE light_current' = light_current
    BY <2>2
  <2> QED
    BY <1>2, <2>1, <2>2
    DEF Next, Step, Main, LightThread, SensorKey, ModeKey, OverrideKey, Escape, Join,
        StartLight, LockLight, ExitLight, ReceiveNothing, ReceiveCommand, StayOverridden,
        CountDown, HoldGreen, Wake, PeerSends, PeerReceives, vars, locals
<1> QED
  BY <1>1, <1>2, DwellStep, TypeCorrect, PTL DEF Spec, MinimumDwell

-------------------------------------------------------------------------------
\* The programmed lights implement SafeCrossing.

\* What SafeCrossing sees of each row of the table.
ViewOf(p) ==
  [head |-> [m \in {"ns", "ew", "tram"} |->
               CASE m = "ns" -> (IF p \in {6, 7} THEN "G" ELSE IF p = 8 THEN "Y" ELSE "R")
                 [] m = "ew" -> (IF p \in {1, 2} THEN "G" ELSE IF p = 3 THEN "Y" ELSE "R")
                 [] OTHER -> (IF p = 5 THEN "G" ELSE "R")],
   walk |-> [d \in {"ns", "ew"} |->
               IF d = "ns" THEN (IF p = 6 THEN "G" ELSE IF p = 7 THEN "Y" ELSE "R")
                           ELSE (IF p = 1 THEN "G" ELSE IF p = 2 THEN "Y" ELSE "R")]]

LEMMA TableViewed ==
  ASSUME NEW p \in Phases
  PROVE  /\ light_states[p]["l_traffic_ns"] = ViewOf(p).head["ns"]
         /\ light_states[p]["l_traffic_ew"] = ViewOf(p).head["ew"]
         /\ light_states[p]["l_tram"] = ViewOf(p).head["tram"]
         /\ light_states[p]["l_ped_ew"] = ViewOf(p).walk["ns"]
         /\ light_states[p]["l_ped_ns"] = ViewOf(p).walk["ew"]
<1> USE DEF ViewOf, light_states, AllRed, Lamps, Phases, LIGHT_RED, LIGHT_YLW, LIGHT_GRN
<1>1. CASE p \in {0, 4, 5}
  BY <1>1
<1>2. CASE p \in {1, 2, 3}
  BY <1>2
<1>3. CASE p \in {6, 7, 8}
  BY <1>3
<1> QED
  BY <1>1, <1>2, <1>3

\* A light state to the next is one step of SafeCrossing, two all-red states
\* in a row are none.
LEMMA CrossingStep == TypeOK /\ [Next]_vars => [Crossing!Next]_(Crossing!vars)
<1> SUFFICES ASSUME TypeOK, [Next]_vars PROVE [Crossing!Next]_(Crossing!vars)
  OBVIOUS
<1>1. CASE light_current' = light_current
  BY <1>1 DEF Heads, Walks, Crossing!vars
<1>2. CASE light_current' # light_current
  <2>1. EnterNext
    BY <1>2
    DEF Next, Step, Main, LightThread, SensorKey, ModeKey, OverrideKey, Escape, Join,
        StartLight, LockLight, ExitLight, ReceiveNothing, ReceiveCommand, StayOverridden,
        CountDown, HoldGreen, Wake, PeerSends, PeerReceives, vars, locals
  <2>2. /\ light_current \in Phases
        /\ light_current' = Following(light_current, sensors, tram_en)
        /\ light_current' \in Phases
    BY <2>1, FollowingType DEF EnterNext, TypeOK
  <2>3. /\ Heads = ViewOf(light_current).head /\ Heads' = ViewOf(light_current').head
    BY <2>2, TableViewed DEF Heads, ViewOf
  <2>4. /\ Walks = ViewOf(light_current).walk /\ Walks' = ViewOf(light_current').walk
    BY <2>2, TableViewed DEF Walks, ViewOf
  <2> USE <2>2, <2>3, <2>4
      DEF ViewOf, Following, Phases, Crossing!Next, Crossing!vars, Crossing!Movements, Crossing!Roads
  <2>5. CASE light_current = 0
    <3>1. Crossing!Release("ew")
      BY <2>5 DEF Crossing!Release
    <3> QED
      BY <3>1
  <2>6. CASE light_current = 1
    <3>1. Crossing!Flash("ew")
      BY <2>6 DEF Crossing!Flash
    <3> QED
      BY <3>1
  <2>7. CASE light_current = 2
    <3>1. Crossing!Caution("ew")
      BY <2>7 DEF Crossing!Caution
    <3> QED
      BY <3>1
  <2>8. CASE light_current = 3
    <3>1. Crossing!Stop("ew")
      BY <2>8 DEF Crossing!Stop
    <3> QED
      BY <3>1
  <2>9. CASE light_current = 5
    <3>1. Crossing!TramClears
      BY <2>9 DEF Crossing!TramClears
    <3> QED
      BY <3>1
  <2>10. CASE light_current = 6
    <3>1. Crossing!Flash("ns")
      BY <2>10 DEF Crossing!Flash
    <3> QED
      BY <3>1
  <2>11. CASE light_current = 7
    <3>1. Crossing!Caution("ns")
      BY <2>11 DEF Crossing!Caution
    <3> QED
      BY <3>1
  <2>12. CASE light_current = 8
    <3>1. Crossing!Stop("ns")
      BY <2>12 DEF Crossing!Stop
    <3> QED
      BY <3>1
  <2>13. CASE light_current = 4
    <3>1. CASE light_current' = 5
      <4>1. Crossing!Release("tram")
        BY <2>13, <3>1 DEF Crossing!Release
      <4> QED
        BY <4>1
    <3>2. CASE light_current' = 6
      <4>1. Crossing!Release("ns")
        BY <2>13, <3>2 DEF Crossing!Release
      <4> QED
        BY <4>1
    <3> QED
      BY <2>13, <3>1, <3>2
  <2> QED
    BY <2>5, <2>6, <2>7, <2>8, <2>9, <2>10, <2>11, <2>12, <2>13
<1> QED
  BY <1>1, <1>2

\* The lights of the table, stepped by intersection_light_next in any mode and
\* under any requests and overrides, implement the abstract crossing.
THEOREM LightsImplementCrossing == Spec => SafeCrossingSpec
<1>1. Init => Crossing!Init
  <2> SUFFICES ASSUME Init PROVE Crossing!Init
    OBVIOUS
  <2>1. light_current \in Phases /\ light_current = 0
    BY DEF Init, Phases
  <2>2. Heads = ViewOf(0).head
    BY <2>1, TableViewed DEF Heads, ViewOf
  <2>3. Walks = ViewOf(0).walk
    BY <2>1, TableViewed DEF Walks, ViewOf
  <2> QED
    BY <2>2, <2>3 DEF ViewOf, Crossing!Init, Crossing!Movements, Crossing!Roads
<1> QED
  BY <1>1, CrossingStep, TypeCorrect, PTL DEF Spec, SafeCrossingSpec, Crossing!Spec

\* In particular the programmed lights never release two movements at once, and
\* never let pedestrians onto a road whose traffic light is not green.
THEOREM LightsSafe == Spec => [](Crossing!OneMovement /\ Crossing!WalkBesideGreen)
<1>1. SafeCrossingSpec => []Crossing!CrossingInv
  BY Crossing!CrossingSafe DEF SafeCrossingSpec
<1>2. Crossing!CrossingInv => Crossing!OneMovement /\ Crossing!WalkBesideGreen
  BY DEF Crossing!CrossingInv
<1> QED
  BY <1>1, <1>2, LightsImplementCrossing, PTL
===============================================================================
