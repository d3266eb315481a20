---------------------------- MODULE QueueWriters ----------------------------
(* Z_Mq_Writer sends numbered messages into a queue that Z__Mq_Reader empties. *)
(* The two find each other by name only; each may be killed and started again, *)
(* and run twice at once.  A queue without a name lives as long as it is open. *)
EXTENDS Naturals, Sequences

CONSTANTS Writers,    \* processes of Z_Mq_Writer
          Readers,    \* processes of Z__Mq_Reader
          Capacity,   \* mq_maxmsg
          MaxQueues,  \* bound on the queues ever created
          MaxSends    \* bound on the messages sent

VARIABLES
  named,      \* the queue behind the name, 0 if there is none
  created,    \* how many queues were created
  contents,   \* contents[q]: the messages in queue q
  open,       \* open[p]: the queue process p has open, 0 if it does not run
  num,        \* num[w]: the number the next message of w will have
  \* history
  accepted,   \* the messages mq_send has taken, in order
  received    \* the messages the readers got, in order

vars == <<named, created, contents, open, num, accepted, received>>

Init ==
  /\ named = 0 /\ created = 0
  /\ contents = [q \in 1..MaxQueues |-> <<>>]
  /\ open = [p \in Writers \cup Readers |-> 0]
  /\ num = [w \in Writers |-> 0]
  /\ accepted = <<>> /\ received = <<>>

\* A slip, put out of use at line 42: the name is taken away first.
UnlinkAndOpen(w) ==
  /\ open[w] = 0 /\ created < MaxQueues
  /\ created' = created + 1
  /\ named' = created'
  /\ open' = [open EXCEPT ![w] = named']
  /\ num' = [num EXCEPT ![w] = 0]
  /\ UNCHANGED <<contents, accepted, received>>

\* Write_function up to its loop: mq_open with O_CREAT.
OpenWriter(w) ==
  /\ open[w] = 0
  /\ IF named = 0 THEN created < MaxQueues /\ created' = created + 1 /\ named' = created'
                  ELSE UNCHANGED <<created, named>>
  /\ open' = [open EXCEPT ![w] = named']
  /\ num' = [num EXCEPT ![w] = 0]
  /\ UNCHANGED <<contents, accepted, received>>

\* mq_send, which blocks while the queue is full.
Send(w) ==
  /\ open[w] # 0 /\ Len(contents[open[w]]) < Capacity
  /\ Len(accepted) < MaxSends
  /\ contents' = [contents EXCEPT ![open[w]] = Append(@, <<w, num[w]>>)]
  /\ accepted' = Append(accepted, <<w, num[w]>>)
  /\ num' = [num EXCEPT ![w] = @ + 1]
  /\ UNCHANGED <<named, created, open, received>>

\* mq_open without O_CREAT: a reader that comes first ends.
OpenReader(r) ==
  /\ open[r] = 0 /\ named # 0
  /\ open' = [open EXCEPT ![r] = named]
  /\ UNCHANGED <<named, created, contents, num, accepted, received>>

\* mq_receive, which blocks while the queue is empty.
Receive(r) ==
  /\ open[r] # 0 /\ contents[open[r]] # <<>>
  /\ received' = Append(received, Head(contents[open[r]]))
  /\ contents' = [contents EXCEPT ![open[r]] = Tail(@)]
  /\ UNCHANGED <<named, created, open, num, accepted>>

Kill(p) ==
  /\ open[p] # 0
  /\ open' = [open EXCEPT ![p] = 0]
  /\ UNCHANGED <<named, created, contents, num, accepted, received>>

Next ==
  \/ \E w \in Writers : OpenWriter(w) \/ Send(w)
  \/ \E r \in Readers : OpenReader(r) \/ Receive(r)
  \/ \E p \in Writers \cup Readers : Kill(p)

Spec == Init /\ [][Next]_vars

-----------------------------------------------------------------------------
\* Every variable has its type.
TypeOK ==
  /\ named \in 0..created /\ created \in 0..MaxQueues
  /\ open \in [Writers \cup Readers -> 0..MaxQueues]
  /\ num \in [Writers -> 0..MaxSends]
  /\ \A q \in 1..MaxQueues : Len(contents[q]) <= Capacity
  /\ Len(received) <= Len(accepted)

\* What was sent is what was received and what waits under the name, in order:
\* writers and readers come and go, and no message is lost or overtaken.
NothingLost ==
  accepted = received \o (IF named = 0 THEN <<>> ELSE contents[named])
=============================================================================
