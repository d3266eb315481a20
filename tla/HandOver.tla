------------------------------ MODULE HandOver ------------------------------
(* A producer and a consumer of S_condvars hand over data through data_ready,  *)
(* under a mutex and one condition variable for both directions.  A wait may   *)
(* end without a signal, and main ends the process at any time.                *)
EXTENDS Integers

VARIABLES
  data_ready,
  at,        \* at[t]: where thread t is
  owner,     \* who has the mutex, or "nobody"
  ended,     \* main has returned
  surplus    \* history: data produced and not consumed

vars == <<data_ready, at, owner, ended, surplus>>

Threads == {"consumer", "producer"}
Other(t) == IF t = "consumer" THEN "producer" ELSE "consumer"

Init ==
  /\ data_ready = 0
  /\ at = [t \in Threads |-> "start"]
  /\ owner = "nobody" /\ ended = FALSE /\ surplus = 0

\* pthread_mutex_lock, at the start of a round or when a wait has ended; the
\* producer's sleep takes any time.
Lock(t) ==
  /\ at[t] \in {"start", "awake"}
  /\ IF owner = "nobody" THEN owner' = t /\ at' = [at EXCEPT ![t] = "test"]
                         ELSE at' = [at EXCEPT ![t] = "blocked"] /\ UNCHANGED owner
  /\ UNCHANGED <<data_ready, ended, surplus>>

\* t gives the mutex up and goes on at `to'; the other thread gets it if it is
\* blocked, and wakes up if it waits and is signalled.
Release(t, to, signalled) ==
  LET o == Other(t) IN
  /\ owner' = IF at[o] = "blocked" THEN o ELSE "nobody"
  /\ at' = [at EXCEPT ![t] = to,
                      ![o] = CASE @ = "blocked" -> "test"
                               [] @ = "waiting" /\ signalled -> "awake"
                               [] OTHER -> @]

\* What each waits for: the consumer for data, the producer for none.
MustWait(t) == data_ready = IF t = "consumer" THEN 0 ELSE 1

\* pthread_cond_wait lets the mutex go.
CondWait(t) ==
  /\ at[t] = "test" /\ MustWait(t)
  /\ Release(t, "waiting", FALSE)
  /\ UNCHANGED <<data_ready, ended, surplus>>

\* A slip: the condition is not tested again after a wait.
WakeIntoHand(t) ==
  /\ at[t] = "waiting" /\ owner = "nobody"
  /\ at' = [at EXCEPT ![t] = "hand"] /\ owner' = t
  /\ UNCHANGED <<data_ready, ended, surplus>>

\* A wait ends without a signal; the loop tests again.
SpuriousWake(t) ==
  /\ at[t] = "waiting"
  /\ at' = [at EXCEPT ![t] = "awake"]
  /\ UNCHANGED <<data_ready, owner, ended, surplus>>

PassTest(t) ==
  /\ at[t] = "test" /\ ~MustWait(t)
  /\ at' = [at EXCEPT ![t] = "hand"]
  /\ UNCHANGED <<data_ready, owner, ended, surplus>>

\* The hand-over, as seen by the other thread: data_ready, the history of it.
Move(t) ==
  /\ at[t] = "hand"
  /\ data_ready' = IF t = "consumer" THEN 0 ELSE 1
  /\ surplus' = surplus + (IF t = "consumer" THEN -1 ELSE 1)
  /\ UNCHANGED ended

\* A slip: nobody is signalled.
HandOverInSilence(t) == Move(t) /\ Release(t, "start", FALSE)

\* data_ready changed, pthread_cond_signal, pthread_mutex_unlock.
HandOverData(t) == Move(t) /\ Release(t, "start", TRUE)

\* main's sleep is over and it returns.
End == ended' = TRUE /\ UNCHANGED <<data_ready, at, owner, surplus>>

Next ==
  /\ ~ended
  /\ \/ End
     \/ \E t \in Threads :
          Lock(t) \/ CondWait(t) \/ SpuriousWake(t) \/ PassTest(t) \/ HandOverData(t)

Spec == Init /\ [][Next]_vars

\* Threads are scheduled; nothing makes a wait end without a signal.
Thread(t) == ~ended /\ (Lock(t) \/ CondWait(t) \/ PassTest(t) \/ HandOverData(t))
FairSpec == Spec /\ \A t \in Threads : WF_vars(Thread(t))

-----------------------------------------------------------------------------
\* Every variable has its type, and one thread at most is within the mutex.
TypeOK ==
  /\ data_ready \in 0..1 /\ ended \in BOOLEAN /\ surplus \in Int
  /\ at \in [Threads -> {"start", "blocked", "test", "waiting", "awake", "hand"}]
  /\ \A t \in Threads : at[t] \in {"test", "hand"} => owner = t

\* Each piece of data is consumed once and none is overwritten: data_ready says
\* at all times how many are on the way, whatever waits end without a signal.
HandedOnce == surplus = data_ready

\* Data produced is consumed, and a producer that has data hands it over, as long
\* as main sleeps: no signal is lost and the two never wait for each other.
DataMovesOn ==
  /\ data_ready = 1 ~> (data_ready = 0 \/ ended)
  /\ (data_ready = 0 /\ at["producer"] # "start") ~> (data_ready = 1 \/ ended)
=============================================================================
