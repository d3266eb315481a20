--------------------------- MODULE MessagePassing ---------------------------
(* The programs that exchange Neutrino messages: a server thread on a channel  *)
(* and clients that are blocked until it answers.  Each program is a table of *)
(* what its server answers and what its clients send; the kernel between them *)
(* is the same for all.  `program' says which of them runs.                   *)
EXTENDS Naturals, Sequences, FiniteSets

CONSTANTS Clients,      \* client processes or threads; some programs use one
          MaxPending,   \* bound on what waits on the channel (for pulses only)
          Values        \* the values of a pulse are counted modulo this

VARIABLES
  program,    \* the program that runs
  connects,   \* whether name_open sends _IO_CONNECT, as S_function_name_attach.c:71 has it
  kind,       \* kind[c]: which client program c is, or "none"
  pc,         \* pc[c]: where c is
  step,       \* step[c]: how many messages of its script c has finished
  message,    \* message[c]: the message c last sent
  value,      \* value[c]: the value in the event c gives away
  inbox,      \* inbox[c]: values of the pulses delivered to c, not yet received
  doomed,     \* doomed[c]: c was killed while REPLY-blocked
  conn,       \* conn[c]: the server's side of the connection of c
  server,     \* "down", "receiving", "handling", "delivering" or "ended"
  caller,     \* the client the server is handling
  channel     \* what waits on the channel, in the order it came

client_vars == <<kind, pc, step, message, value, inbox, doomed>>
vars == <<program, connects, client_vars, conn, server, caller, channel>>

Waiting == {"sending", "replying"}
Nobody  == "nobody"

-----------------------------------------------------------------------------
(* What each server answers.                                                  *)

SendrecServer(m)       == IF m = "text" THEN "reply" ELSE "error"
Z_SendRecServer(m)     == IF m = "text" THEN "reply" ELSE "error"
SimpleServer(m)        == IF m \in {"Hello", "Ni_Hao"} THEN "reply" ELSE "error"
KernelTimeoutServer(m) == "reply"
\* A slip: _IO_CONNECT is not answered.
NameAttachServerOwn(m) == IF m = "own" THEN "reply" ELSE "nothing"
\* _IO_CONNECT, and its own messages; others of the I/O range, which no client
\* here sends, are refused.
NameAttachServer(m)    == IF m \in {"connect", "own"} THEN "reply" ELSE "error"
\* A slip: the event is kept.
AttachPointServerKeeps(m) == CASE m \in {"give", "usual"} -> "reply" [] OTHER -> "nothing"
AttachPointServer(m)   == CASE m = "give"  -> "deliver_and_reply"
                            [] m = "usual" -> "reply"
                            [] OTHER       -> "nothing"
\* It replies to whatever comes first; only for "gave" there is more to do.
GiveEventServer(m)     == IF m = "gave" THEN "reply_and_deliver" ELSE "reply_and_end"
\* Types the callback is not attached to are refused by the dispatch library.
DispatchServer(m)      == IF m = "in_range" THEN "reply" ELSE "error"

\* The answer of the server to message m.
Answer(m) ==
  CASE program = "sendrec"       -> SendrecServer(m)
    [] program = "Z_SendRec"     -> Z_SendRecServer(m)
    [] program = "simple"        -> SimpleServer(m)
    [] program = "KernalTimeout" -> KernelTimeoutServer(m)
    [] program = "name_attach"   -> NameAttachServer(m)
    [] program = "AttachPoint"   -> AttachPointServer(m)
    [] program = "give_event"    -> GiveEventServer(m)
    [] program = "dispatch"      -> DispatchServer(m)

Programs == {"sendrec", "Z_SendRec", "simple", "KernalTimeout", "name_attach",
             "AttachPoint", "give_event", "dispatch"}
Named    == {"name_attach", "AttachPoint", "give_event"}
\* Those that go on receiving on a channel made by name_attach: the kernel tells
\* them by pulses of connections that are gone and of callers that were killed.
Told     == {"name_attach", "AttachPoint"}
\* Those whose channel is there before the first client is started.
ChannelFirst == {"sendrec", "Z_SendRec", "AttachPoint"}

-----------------------------------------------------------------------------
(* What each client sends next.  A client with Steps 0 sends for ever.        *)

worker(c)        == {"text", "b_text"}            \* a line that begins with b
z_worker(c)      == {"text"}
SimpleClient(c)  == {IF step[c] = 6 THEN "Unknown"
                     ELSE IF step[c] % 2 = 0 THEN "Hello" ELSE "Ni_Hao"}
clientWork(c)    == {"text"}
client(c)        == {"own"}
NameOpen(c)      == {"usual"}
NameopenPulse(c) == {"give"}
ClientPulse(c)   == {"raw"}                       \* a string, without a type
GaveClient(c)    == {"gave"}
DispatchClient(c) == {"in_range", "out_of_range"}

Messages(c) ==
  CASE kind[c] = "worker"     -> worker(c)
    [] kind[c] = "z_worker"   -> z_worker(c)
    [] kind[c] = "simple"     -> SimpleClient(c)
    [] kind[c] = "clientWork" -> clientWork(c)
    [] kind[c] = "client"     -> client(c)
    [] kind[c] = "usual"      -> NameOpen(c)
    [] kind[c] = "give"       -> NameopenPulse(c)
    [] kind[c] = "raw"        -> ClientPulse(c)
    [] kind[c] = "gave"       -> GaveClient(c)
    [] kind[c] = "dispatch"   -> DispatchClient(c)
    [] OTHER                  -> {}

Steps(c) == CASE kind[c] = "simple" -> 7 [] kind[c] = "client" -> 5
              [] kind[c] \in {"gave", "dispatch"} -> 1 [] OTHER -> 0

\* The client programs that go with a server.
KindsOf(p) ==
  CASE p = "sendrec"       -> {"worker"}
    [] p = "Z_SendRec"     -> {"z_worker"}
    [] p = "simple"        -> {"simple"}
    [] p = "KernalTimeout" -> {"clientWork"}
    [] p = "name_attach"   -> {"client"}
    [] p = "AttachPoint"   -> {"usual", "give", "raw", "pulser"}
    [] p = "give_event"    -> {"gave"}
    [] p = "dispatch"      -> {"dispatch"}

\* These start their client themselves, once.
OneClient == {"sendrec", "Z_SendRec", "KernalTimeout", "give_event"}
TheClient == CHOOSE c \in Clients : TRUE

Init ==
  /\ program \in Programs
  /\ connects \in (IF program \in Named THEN BOOLEAN ELSE {FALSE})
  /\ kind \in [Clients -> KindsOf(program) \cup {"none"}]
  /\ \A c \in Clients : kind[c] = "none" <=> (program \in OneClient /\ c # TheClient)
  /\ pc = [c \in Clients |-> "start"]
  /\ step = [c \in Clients |-> 0]
  /\ message = [c \in Clients |-> "none"]
  /\ value = [c \in Clients |-> 0]
  /\ inbox = [c \in Clients |-> <<>>]
  /\ doomed = [c \in Clients |-> FALSE]
  /\ conn = [c \in Clients |-> "none"]
  /\ server = IF program \in ChannelFirst THEN "receiving" ELSE "down"
  /\ caller = Nobody
  /\ channel = <<>>

-----------------------------------------------------------------------------
(* The kernel.                                                                *)

Entry(what, c) == [what |-> what, from |-> c]

\* c sends m and is SEND-blocked.
SendBlocked(c, m) ==
  /\ message' = [message EXCEPT ![c] = m]
  /\ pc' = [pc EXCEPT ![c] = "sending"]
  /\ channel' = Append(channel, Entry("message", c))

\* The channel when the entry at its place i is gone.
LeftBy(i) == SubSeq(channel, 1, i - 1) \o SubSeq(channel, i + 1, Len(channel))

\* What is left of c, which sends once at a time, on the channel once it is gone,
\* with the pulse for the connection that went with it.
Without(c) ==
  LET places == {i \in DOMAIN channel : channel[i] = Entry("message", c)}
      rest == IF places = {} THEN channel ELSE LeftBy(CHOOSE i \in places : TRUE)
  IN  IF program \in Told /\ conn[c] = "open"
      THEN Append(rest, Entry("disconnect", c)) ELSE rest

\* c has ended, of itself or killed.
Over(c) ==
  /\ pc' = [pc EXCEPT ![c] = "over"]
  /\ channel' = IF server = "ended" THEN channel ELSE Without(c)
  /\ conn' = [conn EXCEPT ![c] = IF @ = "open" /\ program \in Told THEN "closed" ELSE @]
  /\ inbox' = [inbox EXCEPT ![c] = <<>>]

\* Where c goes when MsgSend of m returns.
AfterSend(c, m, ok) ==
  LET last == step[c] + 1 = Steps(c)
  IN  IF doomed[c] THEN "over"
      ELSE IF m = "connect" THEN IF ok THEN "ready" ELSE "over"
      ELSE CASE kind[c] = "gave"       -> "awaiting"     \* the result is not looked at
             [] kind[c] = "give" /\ ok -> "awaiting"
             [] kind[c] \in {"worker", "z_worker", "clientWork"} -> "ready"
             [] OTHER                  -> IF ok /\ ~last THEN "ready" ELSE "over"

\* MsgSend of m returns to c.
Unblock(c, m, ok) ==
  /\ IF AfterSend(c, m, ok) = "over" THEN Over(c)
     ELSE /\ pc' = [pc EXCEPT ![c] = AfterSend(c, m, ok)]
          /\ UNCHANGED <<conn, channel, inbox>>
  /\ step' = [step EXCEPT ![c] = IF m # "connect" /\ @ < Steps(c) THEN @ + 1 ELSE @]

-----------------------------------------------------------------------------
(* Clients.                                                                   *)

\* The client looks for the server.  Without one it ends, but for clientWork,
\* which never looks at the coid it got.
Connect(c) ==
  /\ pc[c] = "start" /\ kind[c] # "none"
  /\ \/ /\ server \notin {"down", "ended"}
        /\ conn' = [conn EXCEPT ![c] = "open"]
        /\ IF connects THEN SendBlocked(c, "connect")
           ELSE /\ pc' = [pc EXCEPT ![c] = "ready"]
                /\ UNCHANGED <<message, channel>>
     \/ /\ server \in {"down", "ended"}
        /\ pc' = [pc EXCEPT ![c] = IF kind[c] = "clientWork" THEN "deaf" ELSE "over"]
        /\ UNCHANGED <<conn, message, channel>>
  /\ UNCHANGED <<program, connects, kind, step, value, inbox, doomed, server, caller>>

Send(c) ==
  /\ pc[c] = "ready" /\ server # "ended"
  /\ \E m \in Messages(c) : SendBlocked(c, m)
  /\ UNCHANGED <<program, connects, kind, step, value, inbox, doomed, conn, server, caller>>

\* A pulse to the server; the client is not blocked.
SendPulse(c) ==
  /\ pc[c] = "ready" /\ kind[c] = "pulser" /\ server # "ended" /\ Len(channel) < MaxPending
  /\ channel' = Append(channel, Entry("pulse", c))
  /\ UNCHANGED <<program, connects, client_vars, conn, server, caller>>

\* MsgReceivePulse: the value goes into the next event.
TakePulse(c) ==
  /\ pc[c] = "awaiting" /\ inbox[c] # <<>>
  /\ value' = [value EXCEPT ![c] = Head(inbox[c])]
  /\ IF kind[c] = "give"
     THEN /\ pc' = [pc EXCEPT ![c] = "ready"]
          /\ inbox' = [inbox EXCEPT ![c] = Tail(@)]
          /\ UNCHANGED <<conn, channel>>
     ELSE Over(c)
  /\ UNCHANGED <<program, connects, kind, step, message, doomed, server, caller>>

\* A client of a server that is told is terminated.  One that is REPLY-blocked
\* stays until it is answered, and for ever if it is not; the server gets a pulse
\* that asks for it.
Kill(c) ==
  /\ program \in Told /\ ~doomed[c]
  /\ \/ /\ pc[c] \in {"ready", "sending", "awaiting"}
        /\ Over(c)
        /\ UNCHANGED doomed
     \/ /\ pc[c] = "replying" /\ server # "ended"
        /\ doomed' = [doomed EXCEPT ![c] = TRUE]
        /\ channel' = Append(channel, Entry("unblock", c))
        /\ UNCHANGED <<pc, conn, inbox>>
  /\ UNCHANGED <<program, connects, kind, step, message, value, server, caller>>

\* The server has ended: whoever waits for it, or sends to it, gets an error.
SendFails(c) ==
  /\ server = "ended"
  /\ \/ pc[c] \in Waiting /\ Unblock(c, message[c], FALSE)
     \/ pc[c] = "ready" /\ \E m \in Messages(c) : Unblock(c, m, FALSE)
  /\ UNCHANGED <<program, connects, kind, message, value, doomed, server, caller>>

-----------------------------------------------------------------------------
(* Servers.                                                                   *)

StartServer ==
  /\ server = "down"
  /\ server' = "receiving"
  /\ UNCHANGED <<program, connects, client_vars, conn, caller, channel>>

ReceiveMessage ==
  /\ server = "receiving" /\ channel # <<>> /\ Head(channel).what = "message"
  /\ LET c == Head(channel).from IN
       /\ caller' = c
       /\ pc' = [pc EXCEPT ![c] = "replying"]
  /\ server' = "handling"
  /\ channel' = Tail(channel)
  /\ UNCHANGED <<program, connects, kind, step, message, value, inbox, doomed, conn>>

\* A slip: no ConnectDetach.
ReceivePulseIgnored ==
  /\ server = "receiving" /\ channel # <<>> /\ Head(channel).what # "message"
  /\ channel' = Tail(channel)
  /\ UNCHANGED <<program, connects, client_vars, conn, server, caller>>

\* rcvid 0.  S_function_name_attach detaches a connection that is gone and does
\* nothing about the others; Z__Server_NameAttach prints the value of every pulse,
\* and a connection that is gone stays closed on its side for ever.
ReceivePulse ==
  /\ server = "receiving" /\ channel # <<>> /\ Head(channel).what # "message"
  /\ conn' = IF Head(channel).what = "disconnect" /\ program = "name_attach"
             THEN [conn EXCEPT ![Head(channel).from] = "none"] ELSE conn
  /\ channel' = Tail(channel)
  /\ UNCHANGED <<program, connects, client_vars, server, caller>>

\* The event of c is delivered with v.
Deliver(c, v) == inbox' = [inbox EXCEPT ![c] = Append(@, v)]

\* MsgReply and MsgError; the server goes on, or delivers what it was given.
AnswerCaller ==
  /\ server = "handling" /\ Answer(message[caller]) \in {"reply", "error", "reply_and_deliver", "reply_and_end"}
  /\ Unblock(caller, message[caller], Answer(message[caller]) # "error")
  /\ server' = CASE Answer(message[caller]) = "reply_and_deliver" -> "delivering"
                 [] Answer(message[caller]) = "reply_and_end"     -> "ended"
                 [] OTHER                                         -> "receiving"
  /\ UNCHANGED <<program, connects, kind, message, value, doomed, caller>>

\* MSG_GIVE_PULSE: the event goes back with its value raised by one, then the
\* reply, which is the end of a client that was killed.
GiveBack ==
  /\ server = "handling" /\ Answer(message[caller]) = "deliver_and_reply"
  /\ \/ doomed[caller] /\ Over(caller)
     \/ /\ ~doomed[caller]
        /\ Deliver(caller, (value[caller] + 1) % Values)
        /\ pc' = [pc EXCEPT ![caller] = AfterSend(caller, "give", TRUE)]
        /\ UNCHANGED <<conn, channel>>
  /\ server' = "receiving"
  /\ UNCHANGED <<program, connects, kind, step, message, value, doomed, caller>>

\* No branch for the message: its sender stays REPLY-blocked.
LeaveUnanswered ==
  /\ server = "handling" /\ Answer(message[caller]) = "nothing"
  /\ server' = "receiving"
  /\ UNCHANGED <<program, connects, client_vars, conn, caller, channel>>

\* S_server_pulse delivers the event seconds after the reply, and ends.
DeliverAndEnd ==
  /\ server = "delivering"
  /\ Deliver(caller, 125 % Values)
  /\ server' = "ended"
  /\ UNCHANGED <<program, connects, kind, pc, step, message, value, doomed, conn, caller, channel>>

\* MsgReceive fails; these servers leave their loop.
ReceiveFails ==
  /\ program \in {"name_attach", "simple", "dispatch"} /\ server = "receiving"
  /\ server' = "ended"
  /\ channel' = <<>>
  /\ UNCHANGED <<program, connects, client_vars, conn, caller>>

Serve == ReceiveMessage \/ ReceivePulse \/ AnswerCaller \/ GiveBack \/ LeaveUnanswered \/ DeliverAndEnd

Next ==
  \/ \E c \in Clients : Connect(c) \/ Send(c) \/ SendPulse(c) \/ TakePulse(c) \/ Kill(c) \/ SendFails(c)
  \/ StartServer \/ ReceiveFails \/ Serve

Spec == Init /\ [][Next]_vars

\* The servers are endless loops; a client that waits for its pulse takes it.
FairSpec == Spec /\ WF_vars(Serve)
                 /\ \A c \in Clients : WF_vars(TakePulse(c)) /\ WF_vars(SendFails(c))

-----------------------------------------------------------------------------
\* Every variable has its type.
TypeOK ==
  /\ program \in Programs /\ connects \in BOOLEAN
  /\ kind \in [Clients -> (UNION {KindsOf(p) : p \in Programs}) \cup {"none"}]
  /\ pc \in [Clients -> Waiting \cup {"start", "ready", "awaiting", "deaf", "over"}]
  /\ step \in [Clients -> 0..7]
  /\ value \in [Clients -> 0..Values - 1]
  /\ \A c \in Clients : Len(inbox[c]) <= 1
  /\ doomed \in [Clients -> BOOLEAN]
  /\ conn \in [Clients -> {"none", "open", "closed"}]
  /\ server \in {"down", "receiving", "handling", "delivering", "ended"}
  /\ caller \in Clients \cup {Nobody}
  /\ Len(channel) <= MaxPending + 2 * Cardinality(Clients)

\* Z__Server_NameAttach has no branch for these.
Unanswerable(m) == program = "AttachPoint" /\ m \in {"raw", "connect"}

\* A client blocked in MsgSend is released, whatever the other clients send, and
\* also when the server gives up; but for the messages with no branch.
CallersReleased ==
  \A c \in Clients :
    (pc[c] \in Waiting /\ ~Unanswerable(message[c])) ~> pc[c] \notin Waiting

\* The server of S_function_name_attach lets go of every connection whose
\* client has closed it or was terminated (the comment at its line 44).  Of
\* Z__Server_NameAttach, which never detaches one, this is not said.
ConnectionsFreed ==
  \A c \in Clients :
    (program = "name_attach" /\ conn[c] = "closed") ~> (conn[c] = "none" \/ server = "ended")

\* A client that gave its event away, and waits, gets the pulse; unless
\* S_server_pulse took the _IO_CONNECT of name_open for its one message.
EventsComeBack ==
  \A c \in Clients :
    (pc[c] = "awaiting" /\ ~(connects /\ kind[c] = "gave")) ~> pc[c] # "awaiting"
=============================================================================
