------------------------------- MODULE Barrier ------------------------------
(* Z__Barrier: two threads meet at a barrier for two, round after round, at    *)
(* their own pace; a third runs beside them and does not take part.            *)
EXTENDS Integers, FiniteSets

CONSTANTS Rounds      \* bound on the rounds of a thread

VARIABLES
  state,    \* state[t]: not created, asleep, or at the barrier
  inside,   \* the threads blocked at the barrier
  arrived,  \* history: arrived[t], how often t came to the barrier
  passed    \* history: passed[t], how often it went on

vars == <<state, inside, arrived, passed>>

Threads == {"barrierTest1", "barrierTest2", "barrierTest3"}
Count == 2       \* barrier_init, line 25

Init ==
  /\ state = [t \in Threads |-> "none"]
  /\ inside = {}
  /\ arrived = [t \in Threads |-> 0] /\ passed = [t \in Threads |-> 0]

\* main creates the threads one after the other, then joins them for ever.
Create(t) ==
  /\ state[t] = "none"
  /\ \/ t = "barrierTest1"
     \/ t = "barrierTest2" /\ state["barrierTest1"] # "none"
     \/ t = "barrierTest3" /\ state["barrierTest2"] # "none"
  /\ state' = [state EXCEPT ![t] = "asleep"]
  /\ UNCHANGED <<inside, arrived, passed>>

\* Who comes to the barrier after its sleep: barrierTest3 once did, line 95.
AllTakePart == Threads
Parties == {"barrierTest1", "barrierTest2"}

\* pthread_barrier_wait: the last one of Count opens the barrier for all.
Arrive(t) ==
  /\ state[t] = "asleep" /\ t \in Parties /\ arrived[t] < Rounds
  /\ arrived' = [arrived EXCEPT ![t] = @ + 1]
  /\ IF Cardinality(inside) + 1 < Count
       THEN /\ state' = [state EXCEPT ![t] = "at_barrier"]
            /\ inside' = inside \cup {t}
       ELSE /\ state' = [s \in Threads |-> IF s \in inside \cup {t} THEN "through" ELSE state[s]]
            /\ inside' = {}
  /\ UNCHANGED passed

\* The thread goes on, says so and sleeps.
Pass(t) ==
  /\ state[t] = "through"
  /\ state' = [state EXCEPT ![t] = "asleep"]
  /\ passed' = [passed EXCEPT ![t] = @ + 1]
  /\ UNCHANGED <<inside, arrived>>

Next == \E t \in Threads : Create(t) \/ Arrive(t) \/ Pass(t)

Spec == Init /\ [][Next]_vars

-----------------------------------------------------------------------------
\* Every variable has its type; a thread is blocked at the barrier or is not.
TypeOK ==
  /\ state \in [Threads -> {"none", "asleep", "at_barrier", "through"}]
  /\ inside = {t \in Threads : state[t] = "at_barrier"}
  /\ arrived \in [Threads -> 0..Rounds] /\ passed \in [Threads -> 0..Rounds]

\* The first two threads go from round to round together: neither passes the
\* barrier for the nth time before the other has come to it n times.
MeetTogether ==
  /\ passed["barrierTest1"] <= arrived["barrierTest2"]
  /\ passed["barrierTest2"] <= arrived["barrierTest1"]
=============================================================================
