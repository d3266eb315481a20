------------------------------- MODULE Bridge -------------------------------
(* Soldiers cross a bridge that bears saveNum of them, behind a semaphore,     *)
(* while main looks now and then at how many are on it.  onBridge is a plain   *)
(* variable: each ++ and -- loads it, then stores the new value.               *)
EXTENDS Integers

CONSTANTS Soldiers,   \* the threads of semFunction1
          saveNum,    \* how many may be on the bridge
          Crossings,  \* how often each crosses
          Looks       \* how often main looks before it returns

VARIABLES
  onBridge,   \* the count that main looks at
  sem,        \* the semaphore's value
  step,       \* step[s]: what soldier s does next
  loaded,     \* loaded[s]: the value s has read for its ++ or --
  crossed,    \* crossed[s]: i, the crossings s has done
  looked,     \* i in main
  lost        \* history: a store has overwritten another one

vars == <<onBridge, sem, step, loaded, crossed, looked, lost>>

Init ==
  /\ onBridge = 0 /\ sem = saveNum
  /\ step = [s \in Soldiers |-> "wait"]
  /\ loaded = [s \in Soldiers |-> 0]
  /\ crossed = [s \in Soldiers |-> 0]
  /\ looked = 0 /\ lost = FALSE

\* A slip: a sem_wait that a signal has cut short passes for a successful one.
WaitInterrupted(s) ==
  /\ step[s] = "wait" /\ crossed[s] < Crossings
  /\ sem' = IF sem > 0 THEN sem - 1 ELSE sem
  /\ step' = [step EXCEPT ![s] = "load_up"]
  /\ UNCHANGED <<onBridge, loaded, crossed, looked, lost>>

Wait(s) ==
  /\ step[s] = "wait" /\ crossed[s] < Crossings
  /\ sem > 0 /\ sem' = sem - 1
  /\ step' = [step EXCEPT ![s] = "load_up"]
  /\ UNCHANGED <<onBridge, loaded, crossed, looked, lost>>

Load(s) ==
  /\ step[s] \in {"load_up", "load_down"}
  /\ loaded' = [loaded EXCEPT ![s] = onBridge]
  /\ step' = [step EXCEPT ![s] = IF @ = "load_up" THEN "store_up" ELSE "store_down"]
  /\ UNCHANGED <<onBridge, sem, crossed, looked, lost>>

Store(s) ==
  /\ step[s] \in {"store_up", "store_down"}
  /\ onBridge' = loaded[s] + (IF step[s] = "store_up" THEN 1 ELSE -1)
  /\ lost' = (lost \/ onBridge # loaded[s])
  /\ step' = [step EXCEPT ![s] = IF @ = "store_up" THEN "load_down" ELSE "post"]
  /\ UNCHANGED <<sem, loaded, crossed, looked>>

Post(s) ==
  /\ step[s] = "post"
  /\ sem' = sem + 1
  /\ crossed' = [crossed EXCEPT ![s] = @ + 1]
  /\ step' = [step EXCEPT ![s] = "wait"]
  /\ UNCHANGED <<onBridge, loaded, looked, lost>>

Look ==
  /\ looked' = looked + 1
  /\ UNCHANGED <<onBridge, sem, step, loaded, crossed, lost>>

\* When main returns the process ends.
Next ==
  /\ looked < Looks
  /\ \/ \E s \in Soldiers : Wait(s) \/ Load(s) \/ Store(s) \/ Post(s)
     \/ Look

Spec == Init /\ [][Next]_vars

-----------------------------------------------------------------------------
Steps == {"wait", "load_up", "store_up", "load_down", "store_down", "post"}

\* Every variable has its type; a lost store may even leave onBridge negative.
TypeOK ==
  /\ onBridge \in Int /\ sem \in Nat /\ looked \in 0..Looks
  /\ step \in [Soldiers -> Steps] /\ loaded \in [Soldiers -> Int]
  /\ crossed \in [Soldiers -> 0..Crossings] /\ lost \in BOOLEAN

\* main says that the bridge is falling down only when an unlocked ++ or -- has
\* lost another one: the semaphore itself never lets too many on the bridge.
NoFalseAlarm == onBridge > saveNum => lost
=============================================================================
