----------------------------- MODULE TimedServer -----------------------------
(*****************************************************************************)
(* S_time.c: a server with one thread and a table of blocked clients. It     *)
(* answers a client that waits for data when another client brings some, or  *)
(* after `timeout` pulses of a timer. The client programs are not in the     *)
(* repository: they send one message at a time, and may die.                 *)
(*****************************************************************************)
EXTENDS Naturals, FiniteSets

CONSTANTS
  Clients,      \* the client threads; a rcvid names one of them
  MAX_CLIENT,   \* slots of the table
  TIMEOUT,      \* pulses a client waits
  MaxPulses     \* bound on the pulses queued and not yet received

ASSUME TimedServerAssumption ==
  /\ 0 \notin Clients
  /\ MAX_CLIENT \in Nat \ {0} /\ TIMEOUT \in Nat \ {0} /\ MaxPulses \in Nat \ {0}

VARIABLES
  clients,  \* the client table
  state,    \* of a client: running, SEND-blocked with a message of some type,
            \* REPLY-blocked or dead
  answer,   \* the reply to its last message
  pulses,   \* pulses of the timer in the channel
  waited    \* history: pulses since the client was put in the table

vars == <<clients, state, answer, pulses, waited>>

Slots == 0..(MAX_CLIENT - 1)
Types == {"MT_WAIT_DATA", "MT_SEND_DATA", "unknown"}

\* What is left in a slot that is not in use is never read.
Unused == [in_use |-> FALSE, rcvid |-> 0, timeout |-> 0]

NoAnswer == [type |-> "none"]
TimedOut == [type |-> "timedout"]
Data(s)  == [type |-> "data", from |-> s]
Answers  == {NoAnswer, TimedOut} \cup {Data(s) : s \in Clients}

InUse == {i \in Slots : clients[i].in_use}
Waiting == {clients[i].rcvid : i \in InUse}
Dead == {c \in Clients : state[c] = "dead"}
First(S) == CHOOSE i \in S : \A j \in S : i <= j

Init ==
  /\ clients = [i \in Slots |-> Unused]
  /\ state = [c \in Clients |-> "running"]
  /\ answer = [c \in Clients |-> NoAnswer]
  /\ pulses = 0
  /\ waited = [c \in Clients |-> 0]

-------------------------------------------------------------------------------
\* The clients and the timer.

Send(c, type) ==
  /\ state[c] = "running"
  /\ state' = [state EXCEPT ![c] = type]
  /\ answer' = [answer EXCEPT ![c] = NoAnswer]
  /\ UNCHANGED <<clients, pulses, waited>>

\* A message not yet received disappears with its sender; a slot does not. The
\* channel is created without the flags that would tell the server.
Die(c) ==
  /\ state[c] # "dead"
  /\ state' = [state EXCEPT ![c] = "dead"]
  /\ answer' = [answer EXCEPT ![c] = NoAnswer]
  /\ UNCHANGED <<clients, pulses, waited>>

Fire ==
  /\ pulses < MaxPulses
  /\ pulses' = pulses + 1
  /\ UNCHANGED <<clients, state, answer, waited>>

-------------------------------------------------------------------------------
\* The server. MsgReceive takes any message that is there: which one depends on
\* the priorities of the clients.

\* MsgReply: unblocks the client, or fails on a stale rcvid, and nobody looks.
Reply(C, a) ==
  LET alive == {c \in C : state[c] # "dead"}
  IN  /\ state' = [c \in Clients |-> IF c \in alive THEN "running" ELSE state[c]]
      /\ answer' = [c \in Clients |-> IF c \in alive THEN a ELSE answer[c]]

\* Two slips: --timeout is not compared; timeout-- in place of --timeout.
ExpiredUncompared == InUse
ExpiredLate == {i \in InUse : clients[i].timeout = 0}

Expired == {i \in InUse : clients[i].timeout - 1 = 0}

\* A slip: the walk down the list ends with the first client it finds.
PulseForFirstOnly ==
  /\ pulses > 0
  /\ pulses' = pulses - 1
  /\ LET seen == IF InUse = {} THEN {} ELSE {First(InUse)}
         late == seen \cap Expired
     IN  /\ clients' = [i \in Slots |->
              CASE i \in late -> Unused
                [] i \in seen \ late -> [clients[i] EXCEPT !.timeout = @ - 1]
                [] OTHER -> clients[i]]
         /\ Reply({clients[i].rcvid : i \in late}, TimedOut)
         /\ waited' = [c \in Clients |->
              IF \E i \in seen \ late : clients[i].rcvid = c THEN waited[c] + 1 ELSE waited[c]]

gotAPulse ==
  /\ pulses > 0
  /\ pulses' = pulses - 1
  /\ clients' = [i \in Slots |->
       IF i \in InUse \ Expired THEN [clients[i] EXCEPT !.timeout = @ - 1] ELSE Unused]
  /\ Reply({clients[i].rcvid : i \in Expired}, TimedOut)
  /\ waited' = [c \in Clients |-> IF c \in Waiting' THEN waited[c] + 1 ELSE 0]

WaitData(c) ==
  /\ state[c] = "MT_WAIT_DATA" /\ InUse # Slots
  /\ clients' = [clients EXCEPT ![First(Slots \ InUse)] =
                   [in_use |-> TRUE, rcvid |-> c, timeout |-> TIMEOUT]]
  /\ state' = [state EXCEPT ![c] = "reply"]
  /\ UNCHANGED <<answer, pulses, waited>>

\* Two slips: the entry is left in use; the loop does not end with the first one.
SendDataKeepingSlot(c) ==
  /\ state[c] = "MT_SEND_DATA" /\ InUse # {}
  /\ Reply({clients[First(InUse)].rcvid, c}, Data(c))
  /\ UNCHANGED <<clients, pulses, waited>>

SendDataToAll(c) ==
  /\ state[c] = "MT_SEND_DATA" /\ InUse # {}
  /\ Reply(Waiting \cup {c}, Data(c))
  /\ clients' = [i \in Slots |-> Unused]
  /\ waited' = [w \in Clients |-> 0]
  /\ UNCHANGED pulses

\* "reply to BOTH CLIENTS!": the first in the table, and the sender.
SendData(c) ==
  /\ state[c] = "MT_SEND_DATA" /\ InUse # {}
  /\ LET i == First(InUse)
         w == clients[i].rcvid
     IN  /\ Reply({w, c}, Data(c))
         /\ clients' = [clients EXCEPT ![i] = Unused]
         /\ waited' = [waited EXCEPT ![w] = 0]
  /\ UNCHANGED pulses

\* Table full, table empty, or a message of another type: no reply, ever.
Ignore(c) ==
  /\ \/ state[c] = "MT_WAIT_DATA" /\ InUse = Slots
     \/ state[c] = "MT_SEND_DATA" /\ InUse = {}
     \/ state[c] = "unknown"
  /\ state' = [state EXCEPT ![c] = "reply"]
  /\ UNCHANGED <<clients, answer, pulses, waited>>

gotAMessage(c) == WaitData(c) \/ SendData(c) \/ Ignore(c)

Next == \/ \E c \in Clients : (\E type \in Types : Send(c, type)) \/ Die(c) \/ gotAMessage(c)
        \/ Fire \/ gotAPulse

Spec == Init /\ [][Next]_vars

\* The timer runs for ever, and the server always returns to MsgReceive, which
\* passes over no pulse for ever. Clients owe nothing.
FairSpec == Spec /\ WF_vars(Fire) /\ WF_vars(gotAPulse)

-------------------------------------------------------------------------------
TypeOK ==
  /\ clients \in [Slots -> [in_use : BOOLEAN, rcvid : Clients \cup {0}, timeout : 0..TIMEOUT]]
  /\ \A i \in Slots : IF clients[i].in_use
                     THEN clients[i].rcvid # 0 /\ clients[i].timeout # 0
                     ELSE clients[i] = Unused
  /\ state \in [Clients -> {"running", "reply", "dead"} \cup Types]
  /\ answer \in [Clients -> Answers]
  /\ pulses \in 0..MaxPulses
  /\ waited \in [Clients -> 0..(TIMEOUT - 1)]

\* A slot in use stands for one client that is still blocked on it, or has died
\* on it: no slot survives the reply to its client and answers a later call.
SlotsBlock ==
  /\ \A i, j \in InUse : clients[i].rcvid = clients[j].rcvid => i = j
  /\ \A c \in Waiting : state[c] \in {"reply", "dead"} /\ answer[c] = NoAnswer

\* A client is told that it timed out at the pulse that makes it TIMEOUT since it
\* came, and not before, whatever happened to its slot and to the others.
TimedOutOnTime ==
  [][\A c \in Clients : answer'[c] = TimedOut /\ answer[c] # TimedOut =>
       c \in Waiting /\ waited[c] + 1 = TIMEOUT]_vars

\* The server is a rendezvous: data brought by a client goes to one client that
\* waits, and both are told so.
Promise == INSTANCE Rendezvous WITH
  Capacity <- MAX_CLIENT, waiting <- Waiting, dead <- Dead
RendezvousSpec == Promise!Spec

\* No slot is lost: every client leaves the table, the dead ones too.
SlotsFreed == \A c \in Clients : c \in Waiting ~> c \notin Waiting

\* "reply to BOTH CLIENTS!": the sender is told of success only with a client
\* that is alive to get the data.
BothGetData ==
  [][\A s \in Clients : answer'[s] = Data(s) /\ answer[s] # Data(s) =>
       \E w \in Clients \ {s} : answer'[w] = Data(s) /\ answer[w] # Data(s)]_vars
===============================================================================
