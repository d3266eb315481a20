----------------------------- MODULE Intersection -----------------------------
(*****************************************************************************)
(* intersection-ui.c: one intersection process. Its main thread turns keys   *)
(* into sensor requests, mode switches and overrides; its light thread       *)
(* drives the lights once a second. They share intersection_state_t under a  *)
(* mutex, and talk to the central controller through two message queues      *)
(* opened O_NONBLOCK: mode_mq (commands in), status_mq (light states out).   *)
(* One section of the main thread under the mutex is one step, since all it  *)
(* does is read and write what the mutex protects; that of the light thread  *)
(* is three, since the controller sees its receive and its send.             *)
(*****************************************************************************)
EXTENDS LightCycle, Sequences

CONSTANTS
  Keys,             \* the keys that are pressed: sensors, "m" and "o"
  OverrideLights,   \* the lights the controller may ask for in an override
  MQ_MAXMSG         \* capacity of a message queue (mq_maxmsg)

ASSUME IntersectionAssumption ==
  /\ Keys \subseteq Sensors \cup {"m", "o"}
  /\ OverrideLights \subseteq Lights
  /\ MQ_MAXMSG \in Nat \ {0}

\* `int timeout = 3` of the light thread: the first stop is not cut short.
StartupTimeout == 3
ASSUME StartupAssumption == DELAY_STOP <= StartupTimeout

VARIABLES
  sensors, mode, override_en, override, tram_en,         \* intersection_state_t
  light_current, mode_current, timeout, override_current,\* the light thread's own
  run, lock,                                             \* thread_state_t
  main_pc, light_pc,                                     \* where the threads are
  attached,                                              \* queues open, mutex exists
  mode_mq, status_mq,
  waiting,  \* history: requests made and not yet given their light
  dwell     \* history: seconds this light state was shown, up to those it must last

shared  == <<sensors, mode, override_en, override, tram_en>>
locals  == <<light_current, mode_current, timeout, override_current>>
history == <<waiting, dwell>>
vars    == <<shared, locals, run, lock, main_pc, light_pc, attached,
             mode_mq, status_mq, history>>

\* The messages. "m" carries the mode asked for; "o" whether to override, and
\* with which lights. A status reports a light state that was entered; of what it
\* carries the controller uses the mode, and only prints the lights and sensors.
ModeMessages == [type : {"m"}, mode : Modes]
OverrideMessages(L) == [type : {"o"}, override_en : BOOLEAN, override : L]
Commands == ModeMessages \cup OverrideMessages(Lights)
Statuses == [mode : Modes]

\* mq_send on a queue opened O_NONBLOCK: with the queue full the message is
\* dropped, and no caller looks at the result.
Send(q, m) == IF Len(q) < MQ_MAXMSG THEN Append(q, m) ELSE q

Init ==
  /\ sensors = {} /\ mode = MODE_TIMER /\ tram_en \in BOOLEAN
  /\ override_en = FALSE /\ override = intersection_light_safe
  /\ light_current = 0 /\ mode_current = MODE_INIT
  /\ timeout = StartupTimeout /\ override_current = FALSE
  /\ run = TRUE /\ lock = "free" /\ attached = TRUE
  /\ main_pc = "keys" /\ light_pc = "start"
  /\ mode_mq = <<>> /\ status_mq = <<>>
  /\ waiting = {} /\ dwell = 0

-------------------------------------------------------------------------------
(* The main thread: one key at a time, under the lock.                       *)

\* The light state that gives a request its light.
ServedBy(s) == CASE s \in NSRequests -> 6
                 [] s \in EWRequests -> 1
                 [] OTHER -> 5

HandlesKey(k) == main_pc = "keys" /\ k \in Keys /\ lock = "free"

SensorKey(s) ==
  /\ HandlesKey(s) /\ s \in Sensors
  /\ s = "s_tram" => tram_en
  /\ sensors' = sensors \cup {s}
  /\ waiting' = IF light_current = ServedBy(s) THEN waiting ELSE waiting \cup {s}
  /\ UNCHANGED <<mode, override_en, override, tram_en, locals, run, lock,
                 main_pc, light_pc, attached, mode_mq, status_mq, dwell>>

ModeKey ==
  /\ HandlesKey("m")
  /\ mode' = (mode + 1) % MODE_COUNT
  /\ UNCHANGED <<sensors, override_en, override, tram_en, locals, run, lock,
                 main_pc, light_pc, attached, mode_mq, status_mq, history>>

OverrideKey ==
  /\ HandlesKey("o")
  /\ override_en' = ~override_en
  /\ UNCHANGED <<sensors, mode, override, tram_en, locals, run, lock,
                 main_pc, light_pc, attached, mode_mq, status_mq, history>>

\* ESC writes run without the lock, at any point of the light thread; the
\* unlock that follows fails, since this thread does not hold the mutex.
Escape ==
  /\ main_pc = "keys"
  /\ run' = FALSE
  /\ main_pc' = "join"
  /\ UNCHANGED <<shared, locals, lock, light_pc, attached, mode_mq, status_mq, history>>

\* A slip: thread_state_clean without the pthread_join.
CleanUnjoined ==
  /\ main_pc = "join"
  /\ main_pc' = "exited"
  /\ attached' = FALSE
  /\ UNCHANGED <<shared, locals, run, lock, light_pc, mode_mq, status_mq, history>>

\* pthread_join, then thread_state_clean: the mutex is destroyed and the two
\* queues are closed and unlinked.
Join ==
  /\ main_pc = "join" /\ light_pc = "done"
  /\ main_pc' = "exited"
  /\ attached' = FALSE
  /\ UNCHANGED <<shared, locals, run, lock, light_pc, mode_mq, status_mq, history>>

Main == (\E s \in Sensors : SensorKey(s)) \/ ModeKey \/ OverrideKey \/ Escape \/ Join

-------------------------------------------------------------------------------
(* The light thread.                                                         *)

\* The first read of override_en, without the lock.
StartLight ==
  /\ light_pc = "start"
  /\ override_current' = override_en
  /\ light_pc' = "lock"
  /\ UNCHANGED <<shared, light_current, mode_current, timeout, run, lock,
                 main_pc, attached, mode_mq, status_mq, history>>

\* A slip: run is not looked at again once the lock is taken.
LockRegardless ==
  /\ light_pc = "lock" /\ lock = "free"
  /\ lock' = "light" /\ light_pc' = "receive"
  /\ UNCHANGED <<shared, locals, run, main_pc, attached, mode_mq, status_mq, history>>

LockLight ==
  /\ light_pc = "lock" /\ lock = "free" /\ run
  /\ lock' = "light" /\ light_pc' = "receive"
  /\ UNCHANGED <<shared, locals, run, main_pc, attached, mode_mq, status_mq, history>>

\* Asked to stop: the lock is released twice, the second time without effect.
ExitLight ==
  /\ light_pc = "lock" /\ lock = "free" /\ ~run
  /\ light_pc' = "done"
  /\ UNCHANGED <<shared, locals, run, lock, main_pc, attached, mode_mq, status_mq, history>>

\* Two slips in the switch over the command: the break of 'm' is missing, so that
\* its third character is read as an override flag too; the lights that come
\* with an 'o' are not copied.
ReceiveFallingThrough ==
  /\ light_pc = "receive" /\ mode_mq # <<>>
  /\ mode_mq' = Tail(mode_mq)
  /\ light_pc' = "lights"
  /\ LET msg == Head(mode_mq)
     IN  \/ /\ msg.type = "m"
            /\ mode' = msg.mode /\ override_en' = FALSE
            /\ UNCHANGED override
         \/ /\ msg.type = "o"
            /\ override_en' = msg.override_en
            /\ override' = msg.override
            /\ UNCHANGED mode
  /\ UNCHANGED <<sensors, tram_en, locals, run, lock, main_pc, attached, status_mq, history>>

ReceiveWithoutLights ==
  /\ light_pc = "receive" /\ mode_mq # <<>>
  /\ mode_mq' = Tail(mode_mq)
  /\ light_pc' = "lights"
  /\ LET msg == Head(mode_mq)
     IN  \/ /\ msg.type = "m"
            /\ mode' = msg.mode
            /\ UNCHANGED override_en
         \/ /\ msg.type = "o"
            /\ override_en' = msg.override_en
            /\ UNCHANGED mode
  /\ UNCHANGED <<sensors, override, tram_en, locals, run, lock, main_pc, attached,
                 status_mq, history>>

\* At most one command per iteration; none is waited for.
ReceiveNothing ==
  /\ light_pc = "receive" /\ mode_mq = <<>>
  /\ light_pc' = "lights"
  /\ UNCHANGED <<shared, locals, run, lock, main_pc, attached, mode_mq, status_mq, history>>

ReceiveCommand ==
  /\ light_pc = "receive" /\ mode_mq # <<>>
  /\ mode_mq' = Tail(mode_mq)
  /\ light_pc' = "lights"
  /\ LET msg == Head(mode_mq)
     IN  \/ /\ msg.type = "m"
            /\ mode' = msg.mode
            /\ UNCHANGED <<override_en, override>>
         \/ /\ msg.type = "o"
            /\ override_en' = msg.override_en
            /\ override' = msg.override
            /\ UNCHANGED mode
  /\ UNCHANGED <<sensors, tram_en, locals, run, lock, main_pc, attached, status_mq, history>>

\* What every iteration ends with: override_current follows the shared flag,
\* the lock is released, and the thread sleeps.
FinishIteration ==
  /\ light_pc = "lights"
  /\ override_current' = override_en
  /\ lock' = "free"
  /\ light_pc' = "sleep"
  /\ UNCHANGED <<mode, override_en, override, tram_en, run, main_pc, attached, mode_mq>>

\* Two slips: the timeout runs on under an override; it is not tested against 0.
OverriddenCountsDown ==
  /\ FinishIteration /\ override_en
  /\ timeout' = IF timeout > 0 THEN timeout - 1 ELSE 0
  /\ UNCHANGED <<sensors, light_current, mode_current, status_mq, history>>

CountDownAlways ==
  /\ FinishIteration /\ ~override_en
  /\ timeout' = timeout - 1
  /\ UNCHANGED <<sensors, light_current, mode_current, status_mq, history>>

\* Overridden: neither the light state nor its timeout moves.
StayOverridden ==
  /\ FinishIteration /\ override_en
  /\ UNCHANGED <<sensors, light_current, mode_current, timeout, status_mq, history>>

CountDown ==
  /\ FinishIteration /\ ~override_en /\ timeout > 0
  /\ timeout' = timeout - 1
  /\ UNCHANGED <<sensors, light_current, mode_current, status_mq, history>>

\* intersection_light_next returns false: the green lasts on.
HoldGreen ==
  /\ FinishIteration /\ ~override_en /\ timeout <= 0
  /\ ~MayLeave(light_current, sensors, mode, mode_current)
  /\ UNCHANGED <<sensors, light_current, mode_current, timeout, status_mq, history>>

\* intersection_light_next returns true: the next light state is entered,
\* reported to the controller, and its timeout starts.
EnterNext ==
  /\ FinishIteration /\ ~override_en /\ timeout <= 0
  /\ MayLeave(light_current, sensors, mode, mode_current)
  /\ light_current' = Following(light_current, sensors, tram_en)
  /\ mode_current' = ModeAfter(light_current, mode, mode_current)
  /\ sensors' = sensors \ ClearedBy(light_current, tram_en)
  /\ status_mq' = Send(status_mq, [mode |-> mode])
  /\ timeout' = phase_timeout[light_current'] - 1
  /\ waiting' = {s \in waiting : ServedBy(s) # light_current'}
  /\ dwell' = 0

\* sleep(INTERVAL): a second passes.
Wake ==
  /\ light_pc = "sleep"
  /\ light_pc' = "lock"
  /\ dwell' = IF ~override_current /\ dwell < phase_timeout[light_current]
                THEN dwell + 1 ELSE dwell
  /\ UNCHANGED <<shared, locals, run, lock, main_pc, attached, mode_mq, status_mq, waiting>>

LightThread == \/ StartLight \/ LockLight \/ ExitLight
               \/ ReceiveNothing \/ ReceiveCommand
               \/ StayOverridden \/ CountDown \/ HoldGreen \/ EnterNext
               \/ Wake

-------------------------------------------------------------------------------
(* The other ends of the queues, as any controller may use them.             *)

PeerSends ==
  /\ \E m \in ModeMessages \cup OverrideMessages(OverrideLights) :
       mode_mq' = Send(mode_mq, m)
  /\ UNCHANGED <<shared, locals, run, lock, main_pc, light_pc, attached, status_mq, history>>

PeerReceives ==
  /\ status_mq # <<>>
  /\ status_mq' = Tail(status_mq)
  /\ UNCHANGED <<shared, locals, run, lock, main_pc, light_pc, attached, mode_mq, history>>

Step == Main \/ LightThread
Next == Step \/ PeerSends \/ PeerReceives

Spec == Init /\ [][Next]_vars

\* The threads are scheduled; keys and the controller owe nothing. The light
\* thread finds the lock free each time it asks, so weak fairness is enough.
Fairness == WF_vars(LightThread) /\ WF_vars(Join)
FairSpec == Spec /\ Fairness

-------------------------------------------------------------------------------
TypeOK ==
  /\ sensors \in SUBSET Sensors /\ mode \in Modes /\ tram_en \in BOOLEAN
  /\ override_en \in BOOLEAN /\ override \in Lights
  /\ light_current \in Phases /\ mode_current \in Modes \cup {MODE_INIT}
  /\ timeout \in Nat /\ override_current \in BOOLEAN
  /\ run \in BOOLEAN /\ lock \in {"free", "light"} /\ attached \in BOOLEAN
  /\ main_pc \in {"keys", "join", "exited"}
  /\ light_pc \in {"start", "lock", "receive", "lights", "sleep", "done"}
  /\ mode_mq \in Seq(Commands) /\ Len(mode_mq) <= MQ_MAXMSG
  /\ status_mq \in Seq(Statuses) /\ Len(status_mq) <= MQ_MAXMSG
  /\ waiting \in SUBSET Sensors /\ dwell \in Nat

\* The sensors are latches that intersection_light_next clears two states or
\* more before the light they ask for, while keys set them at any time and the
\* mode changes under way. No request is lost: until it has its light, either
\* its latch is still set, or the lights are already committed to it.
NoLostRequest ==
  \A s \in waiting :
    \/ s \in sensors
    \/ s \in NSRequests /\ light_current \in 2..5
    \/ s \in EWRequests /\ light_current \in {7, 8, 0}

\* "Wait at least the predefined interval": a light state is left only after
\* it was shown for the seconds the table gives it. The seconds in which an
\* override is shown instead do not count, however overrides come and go.
MinimumDwell ==
  [][light_current' # light_current => dwell >= phase_timeout[light_current]]_vars

\* The mutex and the queues are gone only when nothing will use them again:
\* ESC may come between any two steps of the light thread.
NoUseAfterClean == ~attached => light_pc = "done" /\ lock = "free"

\* What SafeCrossing sees of the light state: the three movements, and the
\* pedestrians beside each road. l_ped_ns runs along with east-west traffic,
\* l_ped_ew with north-south.
Heads == [m \in {"ns", "ew", "tram"} |->
            CASE m = "ns" -> light_states[light_current]["l_traffic_ns"]
              [] m = "ew" -> light_states[light_current]["l_traffic_ew"]
              [] OTHER -> light_states[light_current]["l_tram"]]

Walks == [d \in {"ns", "ew"} |->
            IF d = "ns" THEN light_states[light_current]["l_ped_ew"]
                        ELSE light_states[light_current]["l_ped_ns"]]

Crossing == INSTANCE SafeCrossing WITH head <- Heads, walk <- Walks

\* The programmed lights implement SafeCrossing, in either mode, whatever the
\* requests, the commands and the overrides.
SafeCrossingSpec == Crossing!Spec

-------------------------------------------------------------------------------
\* A request by car or pedestrian is given its light, in both modes and with
\* nobody reading status_mq, unless an override or the exit intervenes.
RoadRequestsServed ==
  \A s \in NSRequests \cup EWRequests :
    s \in waiting ~> (s \notin waiting \/ override_en \/ ~run)

\* The tram is only promised its light in timer mode: in sensor mode a green
\* without cross traffic never ends for it.
TramServedInTimerMode ==
  "s_tram" \in waiting ~>
    ("s_tram" \notin waiting \/ mode # MODE_TIMER \/ override_en \/ ~run)

\* After ESC the light thread stops and the process exits.
ExitCompletes == ~run ~> main_pc = "exited"

\* A green state is left though nobody waits for the other road.
EndsUnasked ==
  /\ light_current \in {1, 6} /\ light_current' # light_current
  /\ sensors \cap ClearedBy(light_current, tram_en) = {}

\* "Mode switched (will update on next stop state)": a green is ended without
\* a request only when timer mode was in force at the last stop state.
ModeUpdatesAtStop == [][EndsUnasked => mode_current = MODE_TIMER]_vars
===============================================================================
