----------------------------- MODULE SigSleeper -----------------------------
(* Programs that sleep as their critical operation while a SIGTERM may come:   *)
(* sigsleeper handles it in the sleeping thread, sigsleeper_fixed has a thread *)
(* for it, Z__Signal_Sender has its handler commented out.  A signal for the   *)
(* process goes to the thread that waits for it, or else to one that does not  *)
(* block it; without a handler it then ends the process.                       *)

CONSTANTS Sleepers    \* which of the programs are looked at

VARIABLES
  sleeper,    \* the program that runs
  main,       \* "start", "set_up", "sleeping", "slept", "exited"
  sigThread,  \* "none", "start", "listening" (in sigwaitinfo), "in_myHandler"
  handled,    \* sigaction has installed myHandler
  masked,     \* the threads that block SIGTERM
  pending,    \* a SIGTERM was sent and no thread has taken it
  killed,     \* the process was ended by a SIGTERM
  cut         \* history: a SIGTERM cut the critical operation short

vars == <<sleeper, main, sigThread, handled, masked, pending, killed, cut>>

Init ==
  /\ sleeper \in Sleepers
  /\ main = "start" /\ sigThread = "none"
  /\ handled = FALSE /\ masked = {}
  /\ pending = FALSE /\ killed = FALSE /\ cut = FALSE

\* main as far as its first call about signals: sigaction or pthread_create.
SetUp ==
  /\ main = "start"
  /\ main' = "set_up"
  /\ handled' = (sleeper = "sigsleeper")
  /\ sigThread' = IF sleeper = "sigsleeper_fixed" THEN "start" ELSE "none"
  /\ UNCHANGED <<sleeper, masked, pending, killed, cut>>

\* Of sigsleeper_fixed, the mask of main, which SIG_UNBLOCK takes SIGTERM from
\* (it was not there); then sleep.
BeginSleep ==
  /\ main = "set_up"
  /\ main' = "sleeping"
  /\ masked' = masked \ {"main"}
  /\ UNCHANGED <<sleeper, sigThread, handled, pending, killed, cut>>

SleepOut ==
  /\ main = "sleeping"
  /\ main' = "slept"
  /\ UNCHANGED <<sleeper, sigThread, handled, masked, pending, killed, cut>>

\* The mask is what it was; main prints what it got and exits.
Exit ==
  /\ main = "slept"
  /\ main' = "exited"
  /\ UNCHANGED <<sleeper, sigThread, handled, masked, pending, killed, cut>>

\* sig_thread blocks SIGTERM and waits for it, again when myHandler has returned.
Listen ==
  /\ sigThread \in {"start", "in_myHandler"}
  /\ sigThread' = "listening"
  /\ masked' = masked \cup {"sig_thread"}
  /\ UNCHANGED <<sleeper, main, handled, pending, killed, cut>>

\* Someone slays the program.
Slay ==
  /\ ~pending
  /\ pending' = TRUE
  /\ UNCHANGED <<sleeper, main, sigThread, handled, masked, killed, cut>>

\* sigwaitinfo returns and sig_thread calls myHandler.
Caught ==
  /\ pending /\ sigThread = "listening"
  /\ pending' = FALSE
  /\ sigThread' = "in_myHandler"
  /\ UNCHANGED <<sleeper, main, handled, masked, killed, cut>>

\* The threads that do not block SIGTERM.
Open == {t \in {"main", "sig_thread"} \ masked : t = "main" \/ sigThread # "none"}

\* One of them takes the signal: the handler runs there, and the sleep ends.
Taken(t) ==
  /\ pending /\ t \in Open /\ sigThread # "listening"
  /\ pending' = FALSE
  /\ cut' = (cut \/ (main = "sleeping" /\ (t = "main" \/ ~handled)))
  /\ killed' = ~handled
  /\ main' = IF handled /\ t = "main" /\ main = "sleeping" THEN "slept" ELSE main
  /\ UNCHANGED <<sleeper, sigThread, handled, masked>>

Next ==
  /\ ~killed /\ main # "exited"
  /\ \/ SetUp \/ BeginSleep \/ SleepOut \/ Exit \/ Listen \/ Slay \/ Caught
     \/ \E t \in {"main", "sig_thread"} : Taken(t)

Spec == Init /\ [][Next]_vars

-----------------------------------------------------------------------------
\* Every variable has its type; a handler is the only way to outlive a signal
\* that cut the sleep.
TypeOK ==
  /\ main \in {"start", "set_up", "sleeping", "slept", "exited"}
  /\ sigThread \in {"none", "start", "listening", "in_myHandler"}
  /\ masked \subseteq {"main", "sig_thread"}
  /\ {handled, pending, killed, cut} \subseteq BOOLEAN
  /\ cut => killed \/ handled

\* What sigsleeper_fixed is written for: once its listening thread is there, no
\* SIGTERM cuts the critical operation of main short (the comment at line 54).
CriticalOperationKept ==
  sleeper = "sigsleeper_fixed" /\ sigThread \in {"listening", "in_myHandler"} => ~cut
=============================================================================
