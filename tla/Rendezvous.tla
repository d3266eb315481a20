------------------------------ MODULE Rendezvous ------------------------------
(*****************************************************************************)
(* What a rendezvous server with a timeout promises its clients. A client    *)
(* may wait for data; a client that brings data is paired with one that      *)
(* waits; waiting too long ends without data. At most Capacity clients wait. *)
(*****************************************************************************)
EXTENDS Naturals, FiniteSets

CONSTANTS Clients, Capacity

VARIABLES
  waiting,  \* the clients that were accepted and not yet given up
  answer,   \* the outcome of each client's last call
  dead      \* the clients that died
vars == <<waiting, answer, dead>>

\* Outcomes: none yet, timed out, or the data of a client.
NoAnswer == [type |-> "none"]
TimedOut == [type |-> "timedout"]
Data(s)  == [type |-> "data", from |-> s]
Answers  == {NoAnswer, TimedOut} \cup {Data(s) : s \in Clients}

Init == /\ waiting = {} /\ dead = {}
        /\ answer = [c \in Clients |-> NoAnswer]

\* The dead are told nothing.
Tell(C, a) == [c \in Clients |-> IF c \in C \ dead THEN a ELSE answer[c]]

Call(c) ==
  /\ c \notin waiting \cup dead
  /\ answer' = Tell({c}, NoAnswer)
  /\ UNCHANGED <<waiting, dead>>

Accept(c) ==
  /\ c \notin waiting \cup dead /\ answer[c] = NoAnswer
  /\ Cardinality(waiting) < Capacity
  /\ waiting' = waiting \cup {c}
  /\ UNCHANGED <<answer, dead>>

\* Both parties learn of the data at once, and the one that waited no longer
\* does. A waiting client that died still uses up the data.
Pair(s, w) ==
  /\ s \notin waiting \cup dead /\ answer[s] = NoAnswer
  /\ w \in waiting
  /\ waiting' = waiting \ {w}
  /\ answer' = Tell({s, w}, Data(s))
  /\ UNCHANGED dead

TimeOut(W) ==
  /\ W # {}
  /\ waiting' = waiting \ W
  /\ answer' = Tell(W, TimedOut)
  /\ UNCHANGED dead

Die(c) ==
  /\ dead' = dead \cup {c}
  /\ answer' = [answer EXCEPT ![c] = NoAnswer]
  /\ UNCHANGED waiting

Next == \/ \E c \in Clients : Call(c) \/ Accept(c) \/ Die(c)
        \/ \E s, w \in Clients : Pair(s, w)
        \/ \E W \in SUBSET waiting : TimeOut(W)

Spec == Init /\ [][Next]_vars
===============================================================================
