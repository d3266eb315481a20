----------------------------- MODULE PulseServer -----------------------------
(*****************************************************************************)
(* pulse_server.c and its clients pulse_client.c and                         *)
(* pulse_client_server_reconnect.c. The server keeps one client, which it    *)
(* notifies every second from a second thread. The two threads share the     *)
(* save_ variables with no lock: each access is a step, and the copy of an   *)
(* event one per field. The number of the notification, notify_count, is     *)
(* left out.                                                                 *)
(*****************************************************************************)
EXTENDS Naturals, FiniteSets

CONSTANTS
  Clients,        \* the client processes
  Reconnecting,   \* those that run pulse_client_server_reconnect
  MaxScoid        \* connections the kernel has numbers for

ASSUME PulseServerAssumption ==
  /\ 0 \notin Clients /\ Reconnecting \subseteq Clients
  /\ MaxScoid \in Nat \ {0}

VARIABLES
  up,                                               \* the server runs
  save_rcvid, save_scoid, save_event,               \* client tracking information
  main_pc, rcvid, sender,   \* main: where, the connection and the client it serves,
  copied,                   \* and the fields of the event it copied
  notify_pc, target,        \* notify_thread: where, and the rcvid it has loaded
  attached,                 \* connections the server has not detached from
  disconnects,              \* disconnect pulses in the server's channel
  conn,                     \* of a client: its connection to the server, or 0
  cstate,                   \* of a client: where it is
  got                       \* history: the clients that got their own event

saved    == <<save_rcvid, save_scoid, save_event>>
mainvars == <<main_pc, rcvid, sender, copied>>
notvars  == <<notify_pc, target>>
kernel   == <<attached, disconnects>>
clivars  == <<conn, cstate, got>>
vars     == <<up, saved, mainvars, notvars, kernel, clivars>>

Scoids == 1..MaxScoid
Fields == {"coid", "code"}

\* A zeroed sigevent: it notifies nobody.
ZeroEvent == [coid |-> 0, code |-> 0]

\* The event a client has set up: a pulse on its own channel, with its own code.
\* A client gets whatever pulse is sent on that channel.
EventOf(c) == [f \in Fields |-> c]

\* The client at the other end of a connection. The receive ids of a connection
\* are taken to be its number: the kernel gives both again after ConnectDetach.
\* Nobody is at 0.
At(s) == {c \in Clients : s # 0 /\ conn[c] = s}

ServerInit ==
  /\ save_rcvid = 0 /\ save_scoid = 0 /\ save_event = ZeroEvent
  /\ main_pc = "receive" /\ rcvid = 0 /\ sender = 0 /\ copied = {}
  /\ notify_pc = "sleep" /\ target = 0
  /\ attached = {} /\ disconnects = {}

Init ==
  /\ up = TRUE /\ ServerInit
  /\ conn = [c \in Clients |-> 0]
  /\ cstate = [c \in Clients |-> "looking"]
  /\ got = {}

-------------------------------------------------------------------------------
\* notify_thread.

NotifyAt(pc, next) ==
  /\ up /\ notify_pc = pc /\ notify_pc' = next
  /\ UNCHANGED <<up, saved, mainvars, kernel, conn, cstate>>

Wake ==
  /\ NotifyAt("sleep", IF save_rcvid # 0 THEN "target" ELSE "sleep")
  /\ UNCHANGED <<target, got>>

\* save_rcvid is read again, for the call.
LoadTarget ==
  /\ NotifyAt("target", "deliver")
  /\ target' = save_rcvid
  /\ UNCHANGED got

\* MsgDeliverEvent: the kernel reads the event, and finds the client or fails.
Deliver ==
  /\ NotifyAt("deliver", "sleep")
  /\ got' = got \cup {c \in At(target) : save_event = EventOf(c)}
  /\ target' = 0

Notify == Wake \/ LoadTarget \/ Deliver

-------------------------------------------------------------------------------
\* The main thread.

MainAt(pc, next) ==
  /\ up /\ main_pc = pc /\ main_pc' = next
  /\ UNCHANGED <<up, notvars, got>>

\* A disconnect pulse: of our client, whose saved data is cleaned up in two
\* steps, or of another.
GetDisconnect(s) ==
  /\ s \in disconnects
  /\ MainAt("receive", IF s = save_scoid THEN "clear_scoid" ELSE "detach")
  /\ rcvid' = s
  /\ disconnects' = disconnects \ {s}
  /\ save_rcvid' = IF s = save_scoid THEN 0 ELSE save_rcvid
  /\ sender' = 0
  /\ UNCHANGED <<save_scoid, save_event, copied, attached, conn, cstate>>

\* A slip: no client is marked by an invalid coid in place of 0.
ClearScoidToInvalid ==
  /\ MainAt("clear_scoid", "detach")
  /\ save_scoid' = MaxScoid + 1
  /\ UNCHANGED <<save_rcvid, save_event, rcvid, sender, copied, kernel, conn, cstate>>

ClearScoid ==
  /\ MainAt("clear_scoid", "detach")
  /\ save_scoid' = 0
  /\ UNCHANGED <<save_rcvid, save_event, rcvid, sender, copied, kernel, conn, cstate>>

\* A slip: the connection saved, already cleared, is detached from.
DetachSaved ==
  /\ MainAt("detach", "receive")
  /\ attached' = attached \ {save_scoid} /\ rcvid' = 0
  /\ UNCHANGED <<saved, sender, copied, disconnects, conn, cstate>>

Detach ==
  /\ MainAt("detach", "receive")
  /\ attached' = attached \ {rcvid} /\ rcvid' = 0
  /\ UNCHANGED <<saved, sender, copied, disconnects, conn, cstate>>

\* A slip: _IO_CONNECT falls under the system messages answered with ENOSYS.
ConnectUnexpected(c) ==
  /\ cstate[c] = "looking" /\ MainAt("receive", "receive")
  /\ UNCHANGED <<saved, rcvid, sender, copied, kernel, conn, cstate>>

\* A name_open: _IO_CONNECT is answered with EOK.
Connect(c) ==
  /\ cstate[c] = "looking" /\ MainAt("receive", "receive")
  /\ \E s \in Scoids \ attached :
       /\ \A t \in Scoids \ attached : s <= t
       /\ attached' = attached \cup {s}
       /\ conn' = [conn EXCEPT ![c] = s]
  /\ cstate' = [cstate EXCEPT ![c] = "open"]
  /\ UNCHANGED <<saved, rcvid, sender, copied, disconnects>>

\* REG_MSG while there is a client already: EBUSY, and the new client exits.
Reject(c) ==
  /\ cstate[c] = "register" /\ save_rcvid # 0 /\ MainAt("receive", "receive")
  /\ cstate' = [cstate EXCEPT ![c] = "gone"]
  /\ conn' = [conn EXCEPT ![c] = 0]
  /\ disconnects' = disconnects \cup {conn[c]}
  /\ UNCHANGED <<saved, rcvid, sender, copied, attached>>

\* A slip: a client is taken although there is one already.
SaveRcvidAnyway(c) ==
  /\ cstate[c] = "register" /\ MainAt("receive", "scoid")
  /\ rcvid' = conn[c] /\ sender' = c /\ save_rcvid' = conn[c] /\ copied' = {}
  /\ cstate' = [cstate EXCEPT ![c] = "received"]
  /\ UNCHANGED <<save_scoid, save_event, kernel, conn>>

SaveRcvid(c) ==
  /\ cstate[c] = "register" /\ save_rcvid = 0 /\ MainAt("receive", "scoid")
  /\ rcvid' = conn[c] /\ sender' = c /\ save_rcvid' = conn[c] /\ copied' = {}
  /\ cstate' = [cstate EXCEPT ![c] = "received"]
  /\ UNCHANGED <<save_scoid, save_event, kernel, conn>>

SaveScoid ==
  /\ MainAt("scoid", "event")
  /\ save_scoid' = rcvid
  /\ UNCHANGED <<save_rcvid, save_event, rcvid, sender, copied, kernel, conn, cstate>>

\* A slip: of the event, only the first field is copied.
SaveEventHead ==
  /\ MainAt("event", "event")
  /\ copied # Fields /\ copied' = Fields
  /\ save_event' = [save_event EXCEPT !["coid"] = sender]
  /\ UNCHANGED <<save_rcvid, save_scoid, rcvid, sender, kernel, conn, cstate>>

\* save_event = recv_buf.client_msg.ev, one field after the other.
SaveEvent ==
  /\ MainAt("event", "event")
  /\ \E f \in Fields \ copied :
       /\ copied' = copied \cup {f}
       /\ save_event' = [save_event EXCEPT ![f] = sender]
  /\ UNCHANGED <<save_rcvid, save_scoid, rcvid, sender, kernel, conn, cstate>>

\* MsgReply: it fails if the client has died meanwhile.
Accept ==
  /\ copied = Fields /\ MainAt("event", "receive")
  /\ cstate' = [c \in Clients |->
       IF c = sender /\ conn[c] = rcvid THEN "registered" ELSE cstate[c]]
  /\ rcvid' = 0 /\ sender' = 0 /\ copied' = {}
  /\ UNCHANGED <<saved, kernel, conn>>

Main == \/ \E s \in Scoids : GetDisconnect(s)
        \/ ClearScoid \/ Detach
        \/ \E c \in Clients : Connect(c) \/ Reject(c) \/ SaveRcvid(c)
        \/ SaveScoid \/ SaveEvent \/ Accept

-------------------------------------------------------------------------------
\* The clients. name_open fails and is tried again while there is no server.

Register(c) ==
  /\ cstate[c] = "open"
  /\ cstate' = [cstate EXCEPT ![c] = IF conn[c] = 0 THEN "gone" ELSE "register"]
  /\ UNCHANGED <<up, saved, mainvars, notvars, kernel, conn, got>>

\* _PULSE_CODE_COIDDEATH: look for a new server. The plain client is not told.
LoseServer(c) ==
  /\ c \in Reconnecting /\ cstate[c] = "registered" /\ conn[c] = 0
  /\ cstate' = [cstate EXCEPT ![c] = "looking"]
  /\ got' = got \ {c}
  /\ UNCHANGED <<up, saved, mainvars, notvars, kernel, conn>>

\* A client dies. The kernel tells the server, as name_attach has asked it to,
\* and keeps the number of the connection until the server detaches.
Die(c) ==
  /\ cstate[c] # "gone"
  /\ cstate' = [cstate EXCEPT ![c] = "gone"]
  /\ conn' = [conn EXCEPT ![c] = 0]
  /\ disconnects' = IF conn[c] = 0 THEN disconnects ELSE disconnects \cup {conn[c]}
  /\ got' = got \ {c}
  /\ UNCHANGED <<up, saved, mainvars, notvars, attached>>

\* Its program is started anew.
Start(c) ==
  /\ cstate[c] = "gone" /\ conn[c] = 0
  /\ cstate' = [cstate EXCEPT ![c] = "looking"]
  /\ UNCHANGED <<up, saved, mainvars, notvars, kernel, conn, got>>

\* The server dies, with the connections to it: a MsgSend that was under way
\* fails, and its client exits. Then it may be started anew.
ServerDies ==
  /\ up /\ up' = FALSE
  /\ save_rcvid' = 0 /\ save_scoid' = 0 /\ save_event' = ZeroEvent
  /\ main_pc' = "receive" /\ rcvid' = 0 /\ sender' = 0 /\ copied' = {}
  /\ notify_pc' = "sleep" /\ target' = 0
  /\ attached' = {} /\ disconnects' = {}
  /\ conn' = [c \in Clients |-> 0]
  /\ cstate' = [c \in Clients |->
       IF cstate[c] \in {"register", "received"} THEN "gone" ELSE cstate[c]]
  /\ UNCHANGED got

ServerStarts ==
  /\ ~up /\ up' = TRUE
  /\ UNCHANGED <<saved, mainvars, notvars, kernel, clivars>>

Client(c) == Register(c) \/ LoseServer(c)

Next == \/ Notify \/ Main \/ ServerDies \/ ServerStarts
        \/ \E c \in Clients : Client(c) \/ Die(c) \/ Start(c)

Spec == Init /\ [][Next]_vars

\* Both threads of the server run, and clients carry on. Main serves whoever is
\* there, so that a client is not passed over for ever is asked for apart.
FairSpec ==
  /\ Spec /\ WF_vars(Notify) /\ WF_vars(Main)
  /\ \A c \in Clients : WF_vars(Client(c)) /\ SF_vars(Connect(c))
                       /\ SF_vars(Reject(c) \/ SaveRcvid(c))

-------------------------------------------------------------------------------
TypeOK ==
  /\ up \in BOOLEAN
  /\ save_rcvid \in Scoids \cup {0} /\ save_scoid \in Scoids \cup {0}
  /\ save_event \in [Fields -> Clients \cup {0}]
  /\ main_pc \in {"receive", "clear_scoid", "detach", "scoid", "event"}
  /\ rcvid \in Scoids \cup {0} /\ sender \in Clients \cup {0} /\ copied \subseteq Fields
  /\ notify_pc \in {"sleep", "target", "deliver"}
  /\ target \in Scoids \cup {0}
  /\ attached \subseteq Scoids /\ disconnects \subseteq attached
  /\ conn \in [Clients -> Scoids \cup {0}]
  /\ cstate \in [Clients -> {"looking", "open", "register", "received", "registered", "gone"}]
  /\ got \subseteq Clients

\* At most one client is in the belief that it is the one the server notifies,
\* and the server, when it is idle, agrees: what it saved is that client's, or
\* belongs to a connection whose end it is still to be told.
OneClient ==
  /\ \A c, d \in Clients :
       cstate[c] = "registered" /\ conn[c] # 0 /\ cstate[d] = "registered" /\ conn[d] # 0
         => c = d
  /\ main_pc = "receive" =>
       /\ save_scoid = save_rcvid
       /\ \A c \in Clients : cstate[c] = "registered" /\ conn[c] # 0 => conn[c] = save_rcvid
       /\ save_rcvid # 0 => \/ save_rcvid \in disconnects
                           \/ \E c \in At(save_rcvid) : cstate[c] = "registered"

\* No number is lost: a connection the server has not detached from is that of a
\* client, or its end is being handled. "Always do the ConnectDetach".
NoScoidLeak ==
  \A s \in attached : \/ Cardinality(At(s)) = 1
                      \/ s \in disconnects
                      \/ main_pc \in {"clear_scoid", "detach"} /\ rcvid = s

\* A client that stays registered gets its own event, though the two threads race
\* for the variables that hold it.
RegisteredNotified ==
  \A c \in Clients :
    cstate[c] = "registered" /\ conn[c] # 0 ~>
      (c \in got \/ cstate[c] # "registered" \/ conn[c] = 0)

\* A client that looks for a server is registered, or turned away for the one that
\* is, unless it or the server dies.
LookingEnds ==
  \A c \in Clients : cstate[c] = "looking" ~> (cstate[c] \in {"registered", "gone"} \/ ~up)

\* "Server send event to the client using saved event": of what is delivered to
\* the client whose connection is saved no field is one that another client has
\* set up. A field still zero is allowed, so that only what an earlier client
\* has left can break it; so is a call that began for a connection since gone.
OwnEventDelivered ==
  [][Deliver /\ target = save_rcvid =>
       \A c \in At(target), f \in Fields : save_event[f] \in {c, 0}]_vars
===============================================================================
