------------------------------ MODULE Controller ------------------------------
(*****************************************************************************)
(* controller-ui.c: the central controller, as seen from one of its          *)
(* intersections, Me. The other intersections have queues of their own, and  *)
(* matter here only through what handling their keys does to the cached      *)
(* state of Me. The main thread handles a key, and the state thread makes a  *)
(* pass over the status queues, under one mutex; each touches the queues of  *)
(* Me at most once, so each is one step.                                     *)
(*****************************************************************************)
EXTENDS LightCycle, Sequences

CONSTANTS
  INTERSECTION_COUNT,  \* intersections the controller supports
  Me,                  \* the one whose queues are modelled
  LampKeys,            \* the lamps whose colour keys are pressed
  CopiedLights,        \* colours an overrunning copy may leave in override_state
  MQ_MAXMSG            \* capacity of a message queue

VARIABLES
  controller,       \* the selected intersection
  override_state,   \* the lights the next override will show
  cache,            \* intersection_states[Me]: what the keys look at
  tmp_override_en,  \* tmp_state.override_en, never written by the state thread
  c_run,
  mode_mq, status_mq

ctl   == <<controller, override_state, cache, tmp_override_en>>
cvars == <<ctl, c_run, mode_mq, status_mq>>

\* What the keys look at of a cached intersection state.
Cached == [mode : Modes, override_en : BOOLEAN]

\* mq_send on a queue opened O_NONBLOCK: full, it drops, and nobody notices.
CSend(q, m) == IF Len(q) < MQ_MAXMSG THEN Append(q, m) ELSE q

\* tmp_state is an uninitialised local of the state thread.
CInit ==
  /\ controller = 0 /\ override_state = intersection_light_safe
  /\ cache = [mode |-> MODE_TIMER, override_en |-> FALSE]
  /\ tmp_override_en \in BOOLEAN
  /\ c_run = TRUE
  /\ mode_mq = <<>> /\ status_mq = <<>>

-------------------------------------------------------------------------------
ColourKey(l) ==
  /\ c_run /\ l \in LampKeys
  /\ override_state' = [override_state EXCEPT ![l] = intersection_light_next_colour(@)]
  /\ UNCHANGED <<controller, cache, tmp_override_en, c_run, mode_mq, status_mq>>

\* A slip: the selection is not kept within the intersections there are.
SelectUnbounded ==
  /\ c_run
  /\ \/ controller' = controller - 1
     \/ controller' = controller + 1
  /\ UNCHANGED <<override_state, cache, tmp_override_en, c_run, mode_mq, status_mq>>

SelectKey ==
  /\ c_run
  /\ \/ controller' = IF controller = 0 THEN 0 ELSE controller - 1
     \/ controller' = IF controller = INTERSECTION_COUNT - 1 THEN controller ELSE controller + 1
  /\ UNCHANGED <<override_state, cache, tmp_override_en, c_run, mode_mq, status_mq>>

\* The mode asked for is the other one than the cached mode, which is as old as
\* the last status.
SwitchKey ==
  /\ c_run /\ controller = Me
  /\ mode_mq' = CSend(mode_mq,
       [type |-> "m", mode |-> IF cache.mode = MODE_TIMER THEN MODE_SENSOR ELSE MODE_TIMER])
  /\ UNCHANGED <<ctl, c_run, status_mq>>

\* The override key. Its memcpy has the size of an intersection_state_t where
\* the target is the intersection_light_t at the end of one: the 48 bytes in
\* excess, whatever follows override_state on the stack, fall on the mode and
\* the flags of the next intersection. For the last intersection they fall
\* outside the array; the model lets them miss or hit override_state.
OverrideSetKey ==
  /\ c_run
  /\ IF controller = INTERSECTION_COUNT - 1
     THEN override_state' \in {override_state} \cup CopiedLights
     ELSE UNCHANGED override_state
  /\ \/ /\ controller = Me
        /\ cache' = [cache EXCEPT !.override_en = ~@]
        /\ mode_mq' = CSend(mode_mq, [type |-> "o", override_en |-> cache'.override_en,
                                      override |-> override_state'])
     \/ /\ controller # Me
        /\ cache' \in IF controller = Me - 1 THEN Cached ELSE {cache}
        /\ UNCHANGED mode_mq
  /\ UNCHANGED <<controller, tmp_override_en, c_run, status_mq>>

\* One pass of the state thread, for the queue of Me. The whole of tmp_state
\* replaces the cached state, its override_en too.
ReadStatus ==
  /\ c_run /\ status_mq # <<>>
  /\ status_mq' = Tail(status_mq)
  /\ cache' = [mode |-> Head(status_mq).mode, override_en |-> tmp_override_en]
  /\ UNCHANGED <<controller, override_state, tmp_override_en, c_run, mode_mq>>

\* ESC. The state thread is not joined; thread_state_clean closes and unlinks
\* the queues, and the process ends. The intersection keeps its descriptors of
\* the old queues, and a controller started later opens new ones.
CExit ==
  /\ c_run
  /\ c_run' = FALSE
  /\ UNCHANGED <<ctl, mode_mq, status_mq>>

CMain == \/ \E l \in Lamps : ColourKey(l)
         \/ SelectKey \/ SwitchKey \/ OverrideSetKey \/ CExit
CStep == CMain \/ ReadStatus
===============================================================================
