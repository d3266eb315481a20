-------------------------- MODULE PulseServerProofs --------------------------
(*****************************************************************************)
(* Proofs about PulseServer, for any number of clients and of connections.   *)
(*****************************************************************************)
EXTENDS PulseServer, FiniteSetTheorems, TLAPS

\* A client that believes it is the one notified, and has its connection.
Registered(c) == cstate[c] = "registered" /\ conn[c] # 0

Cleaning == main_pc \in {"clear_scoid", "detach"}
Saving   == main_pc \in {"scoid", "event"}

\* A connection has one client, and the server has not heard of its end.
ConnectionsApart ==
  /\ \A c \in Clients : conn[c] # 0 => conn[c] \in attached /\ conn[c] \notin disconnects
  /\ \A c, d \in Clients : conn[c] # 0 /\ conn[c] = conn[d] => c = d
  /\ \A c \in Clients : cstate[c] = "looking" => conn[c] = 0
  /\ \A c \in Clients : cstate[c] \in {"register", "received"} => conn[c] # 0

\* The connection being cleaned up after is nobody's, and is told of once.
EndHandledOnce ==
  Cleaning => /\ rcvid \in attached /\ rcvid \notin disconnects
              /\ \A c \in Clients : conn[c] # rcvid

\* Every number in use is a client's, or its end is queued, or being handled.
NumbersKept ==
  \A s \in attached : \/ \E c \in Clients : conn[c] = s
                      \/ s \in disconnects
                      \/ Cleaning /\ rcvid = s

\* What was saved is the data of the one registered client, if it still lives.
SavedAgrees ==
  /\ save_scoid = save_rcvid
  /\ \A c \in Clients : Registered(c) => conn[c] = save_rcvid
  /\ save_rcvid # 0 => \/ save_rcvid \in disconnects
                       \/ \E c \in Clients : Registered(c) /\ conn[c] = save_rcvid

\* While the data of a new client is saved, nobody else is registered.
SavedForSender ==
  /\ save_rcvid = rcvid /\ rcvid # 0 /\ sender \in Clients
  /\ main_pc = "event" => save_scoid = rcvid
  /\ rcvid \in disconnects \/ conn[sender] = rcvid
  /\ \A c \in Clients : ~Registered(c)

SavedInv ==
  /\ main_pc \in {"receive", "detach"} => SavedAgrees
  /\ main_pc = "clear_scoid" => save_rcvid = 0 /\ \A c \in Clients : ~Registered(c)
  /\ Saving => SavedForSender

ServerInv == TypeOK /\ ConnectionsApart /\ EndHandledOnce /\ NumbersKept /\ SavedInv

LEMMA InvHolds == Init => ServerInv
<1> SUFFICES ASSUME Init PROVE ServerInv
  OBVIOUS
<1>1. ZeroEvent \in [Fields -> Clients \cup {0}]
  BY DEF ZeroEvent, Fields
<1>2. TypeOK
  BY <1>1, PulseServerAssumption DEF Init, ServerInit, TypeOK, Scoids
<1> QED
  BY <1>2 DEF Init, ServerInit, ServerInv, ConnectionsApart, EndHandledOnce, NumbersKept, SavedInv,
     SavedAgrees, Cleaning, Saving, Registered

LEMMA TypeStep == ServerInv /\ [Next]_vars => TypeOK'
<1> SUFFICES ASSUME ServerInv, [Next]_vars PROVE TypeOK'
  OBVIOUS
<1> USE PulseServerAssumption
<1>1. CASE Notify
  BY <1>1 DEF ServerInv, TypeOK, Notify, NotifyAt, Wake, LoadTarget, Deliver, At, saved, mainvars, kernel, clivars, Scoids, Fields
<1>2. ASSUME NEW s \in Scoids, GetDisconnect(s) PROVE TypeOK'
  BY <1>2 DEF ServerInv, TypeOK, GetDisconnect, MainAt, notvars, Scoids
<1>3. CASE ClearScoid \/ Detach
  BY <1>3 DEF ServerInv, TypeOK, EndHandledOnce, Cleaning, ClearScoid, Detach, MainAt, notvars, kernel, saved, Scoids
<1>4. ASSUME NEW c \in Clients, Connect(c) PROVE TypeOK'
  BY <1>4 DEF ServerInv, TypeOK, Connect, MainAt, notvars, saved, Scoids
<1>5. ASSUME NEW c \in Clients, Reject(c) \/ SaveRcvid(c) PROVE TypeOK'
  <2>1. conn[c] \in Scoids \cap attached
    BY <1>5 DEF ServerInv, TypeOK, ConnectionsApart, Reject, SaveRcvid
  <2>2. CASE Reject(c)
    BY <2>1, <2>2 DEF ServerInv, TypeOK, Reject, MainAt, notvars, saved, Scoids
  <2>3. CASE SaveRcvid(c)
    BY <2>1, <2>3 DEF ServerInv, TypeOK, SaveRcvid, MainAt, notvars, kernel, Scoids
  <2> QED
    BY <1>5, <2>2, <2>3
<1>6. CASE SaveScoid
  BY <1>6 DEF ServerInv, TypeOK, SaveScoid, MainAt, notvars, kernel, Scoids
<1>7. CASE SaveEvent
  BY <1>7 DEF ServerInv, TypeOK, SaveEvent, MainAt, notvars, kernel, Scoids, Fields
<1>8. CASE Accept
  BY <1>8 DEF ServerInv, TypeOK, Accept, MainAt, notvars, kernel, saved, Scoids
<1>9. ASSUME NEW c \in Clients, Client(c) \/ Start(c) PROVE TypeOK'
  BY <1>9 DEF ServerInv, TypeOK, Client, Register, LoseServer, Start, saved, mainvars, notvars, kernel, Scoids
<1>10. ASSUME NEW c \in Clients, Die(c) PROVE TypeOK'
  BY <1>10 DEF ServerInv, TypeOK, ConnectionsApart, Die, saved, mainvars, notvars, Scoids
<1>11. CASE ServerDies \/ ServerStarts
  <2>1. ZeroEvent \in [Fields -> Clients \cup {0}]
    BY DEF ZeroEvent, Fields
  <2> QED
    BY <1>11, <2>1 DEF ServerInv, TypeOK, ServerDies, ServerStarts, saved, mainvars, notvars, kernel, clivars, Scoids
<1>12. CASE UNCHANGED vars
  BY <1>12 DEF ServerInv, TypeOK, vars, saved, mainvars, notvars, kernel, clivars, Scoids
<1> QED
  BY <1>1, <1>2, <1>3, <1>4, <1>5, <1>6, <1>7, <1>8, <1>9, <1>10, <1>11, <1>12 DEF Next, Main

\* Each connection stays that of one client, from the number the kernel gives out
\* to the one disconnect pulse, and only ended connections are cleaned up after.
LEMMA ApartStep == ServerInv /\ [Next]_vars => ConnectionsApart' /\ EndHandledOnce'
<1> SUFFICES ASSUME ServerInv, [Next]_vars PROVE ConnectionsApart' /\ EndHandledOnce'
  OBVIOUS
<1> USE PulseServerAssumption DEF ServerInv, ConnectionsApart, EndHandledOnce, Cleaning
<1>1. CASE Notify
  BY <1>1 DEF Notify, NotifyAt, Wake, LoadTarget, Deliver, saved, mainvars, kernel, clivars
<1>2. ASSUME NEW s \in Scoids, GetDisconnect(s) PROVE ConnectionsApart' /\ EndHandledOnce'
  BY <1>2 DEF TypeOK, GetDisconnect, MainAt, Scoids
<1>3. CASE ClearScoid \/ Detach
  BY <1>3 DEF TypeOK, ClearScoid, Detach, MainAt, kernel
<1>4. ASSUME NEW c \in Clients, Connect(c) PROVE ConnectionsApart' /\ EndHandledOnce'
  BY <1>4 DEF TypeOK, Connect, MainAt, Scoids
<1>5. ASSUME NEW c \in Clients, Reject(c) PROVE ConnectionsApart' /\ EndHandledOnce'
  BY <1>5 DEF TypeOK, Reject, MainAt
<1>6. ASSUME NEW c \in Clients, SaveRcvid(c) PROVE ConnectionsApart' /\ EndHandledOnce'
  BY <1>6 DEF TypeOK, SaveRcvid, MainAt, kernel
<1>7. CASE SaveScoid \/ SaveEvent
  BY <1>7 DEF SaveScoid, SaveEvent, MainAt, kernel
<1>8. CASE Accept
  BY <1>8 DEF TypeOK, Accept, MainAt, kernel
<1>9. ASSUME NEW c \in Clients, Client(c) \/ Start(c) PROVE ConnectionsApart' /\ EndHandledOnce'
  BY <1>9 DEF TypeOK, Client, Register, LoseServer, Start, mainvars, kernel
<1>10. ASSUME NEW c \in Clients, Die(c) PROVE ConnectionsApart' /\ EndHandledOnce'
  BY <1>10 DEF TypeOK, Die, mainvars, Scoids
<1>11. CASE ServerDies \/ ServerStarts
  BY <1>11 DEF TypeOK, ServerDies, ServerStarts, mainvars, kernel, clivars
<1>12. CASE UNCHANGED vars
  BY <1>12 DEF vars, mainvars, kernel, clivars
<1> QED
  BY <1>1, <1>2, <1>3, <1>4, <1>5, <1>6, <1>7, <1>8, <1>9, <1>10, <1>11, <1>12 DEF Next, Main

\* A number leaves the server's hands only by ConnectDetach.
LEMMA NumbersStep == ServerInv /\ [Next]_vars => NumbersKept'
<1> SUFFICES ASSUME ServerInv, [Next]_vars PROVE NumbersKept'
  OBVIOUS
<1> USE PulseServerAssumption DEF ServerInv, NumbersKept, Cleaning
<1>1. CASE Notify
  BY <1>1 DEF Notify, NotifyAt, Wake, LoadTarget, Deliver, saved, mainvars, kernel, clivars
<1>2. ASSUME NEW s \in Scoids, GetDisconnect(s) PROVE NumbersKept'
  BY <1>2 DEF GetDisconnect, MainAt
<1>3. CASE ClearScoid \/ Detach
  BY <1>3 DEF ClearScoid, Detach, MainAt, kernel
<1>4. ASSUME NEW c \in Clients, Connect(c) PROVE NumbersKept'
  <2>1. PICK s \in Scoids \ attached : /\ attached' = attached \cup {s}
                                      /\ conn' = [conn EXCEPT ![c] = s]
    BY <1>4 DEF Connect
  <2>2. conn[c] = 0 /\ conn'[c] = s
    BY <1>4, <2>1 DEF TypeOK, ConnectionsApart, Connect
  <2>3. ASSUME NEW t \in attached, NEW d \in Clients, conn[d] = t PROVE conn'[d] = t
    BY <2>1, <2>2, <2>3 DEF TypeOK, Scoids
  <2>4. main_pc = "receive" /\ main_pc' = "receive" /\ disconnects' = disconnects
    BY <1>4 DEF Connect, MainAt
  <2> QED
    BY <2>1, <2>2, <2>3, <2>4
<1>5. ASSUME NEW c \in Clients, Reject(c) PROVE NumbersKept'
  BY <1>5 DEF TypeOK, Reject, MainAt
<1>6. ASSUME NEW c \in Clients, SaveRcvid(c) PROVE NumbersKept'
  BY <1>6 DEF SaveRcvid, MainAt, kernel
<1>7. CASE SaveScoid \/ SaveEvent \/ Accept
  BY <1>7 DEF SaveScoid, SaveEvent, Accept, MainAt, kernel
<1>8. ASSUME NEW c \in Clients, Client(c) \/ Start(c) PROVE NumbersKept'
  BY <1>8 DEF Client, Register, LoseServer, Start, mainvars, kernel
<1>9. ASSUME NEW c \in Clients, Die(c) PROVE NumbersKept'
  BY <1>9 DEF TypeOK, Die, mainvars, Scoids
<1>10. CASE ServerDies \/ ServerStarts
  BY <1>10 DEF ServerDies, ServerStarts, mainvars, kernel, clivars
<1>11. CASE UNCHANGED vars
  BY <1>11 DEF vars, mainvars, kernel, clivars
<1> QED
  BY <1>1, <1>2, <1>3, <1>4, <1>5, <1>6, <1>7, <1>8, <1>9, <1>10, <1>11 DEF Next, Main

\* What is saved agrees with who is registered, at each point of the main thread.
LEMMA SavedStep == ServerInv /\ [Next]_vars => SavedInv'
<1> SUFFICES ASSUME ServerInv, [Next]_vars PROVE SavedInv'
  OBVIOUS
<1> USE PulseServerAssumption DEF ServerInv, SavedInv, SavedAgrees, SavedForSender, Registered, Saving
<1>1. CASE Notify
  BY <1>1 DEF Notify, NotifyAt, Wake, LoadTarget, Deliver, saved, mainvars, kernel, clivars
<1>2. ASSUME NEW s \in Scoids, GetDisconnect(s) PROVE SavedInv'
  BY <1>2 DEF TypeOK, ConnectionsApart, GetDisconnect, MainAt, Scoids
<1>3. CASE ClearScoid \/ Detach
  BY <1>3 DEF ClearScoid, Detach, MainAt, kernel, saved
<1>4. ASSUME NEW c \in Clients, Connect(c) PROVE SavedInv'
  BY <1>4 DEF TypeOK, ConnectionsApart, Connect, MainAt, saved
<1>5. ASSUME NEW c \in Clients, Reject(c) PROVE SavedInv'
  BY <1>5 DEF TypeOK, Reject, MainAt, saved
<1>6. ASSUME NEW c \in Clients, SaveRcvid(c) PROVE SavedInv'
  BY <1>6 DEF TypeOK, ConnectionsApart, SaveRcvid, MainAt, kernel
<1>7. CASE SaveScoid \/ SaveEvent
  BY <1>7 DEF SaveScoid, SaveEvent, MainAt, kernel
<1>8. CASE Accept
  BY <1>8 DEF TypeOK, ConnectionsApart, Accept, MainAt, kernel, saved
<1>9. ASSUME NEW c \in Clients, Client(c) \/ Start(c) PROVE SavedInv'
  BY <1>9 DEF TypeOK, Client, Register, LoseServer, Start, mainvars, kernel, saved
<1>10. ASSUME NEW c \in Clients, Die(c) PROVE SavedInv'
  BY <1>10 DEF TypeOK, ConnectionsApart, Die, mainvars, saved, Scoids
<1>11. CASE ServerDies \/ ServerStarts
  BY <1>11 DEF ServerDies, ServerStarts, mainvars, kernel, clivars, saved
<1>12. CASE UNCHANGED vars
  BY <1>12 DEF vars, mainvars, kernel, clivars, saved
<1> QED
  BY <1>1, <1>2, <1>3, <1>4, <1>5, <1>6, <1>7, <1>8, <1>9, <1>10, <1>11, <1>12 DEF Next, Main

LEMMA InvAlways == Spec => []ServerInv
<1>1. ServerInv /\ [Next]_vars => ServerInv'
  BY TypeStep, ApartStep, NumbersStep, SavedStep DEF ServerInv
<1> QED
  BY InvHolds, <1>1, PTL DEF Spec

\* The variables of the server's two threads, of the kernel and of the clients
\* keep their types; no disconnect pulse is about a connection already detached.
THEOREM ServerTypeCorrect == Spec => []TypeOK
BY InvAlways, PTL DEF ServerInv

\* At most one client believes it is the one notified, and the idle server agrees,
\* although two clients register at once, die and come back (pulse_server.c:89-166).
THEOREM OneClientAtMost == Spec => []OneClient
<1>1. ServerInv => OneClient
  <2> SUFFICES ASSUME ServerInv PROVE OneClient
    OBVIOUS
  <2>1. ASSUME NEW c \in Clients, NEW d \in Clients, Registered(c), Registered(d) PROVE c = d
    BY <2>1 DEF ServerInv, TypeOK, ConnectionsApart, SavedInv, SavedAgrees, SavedForSender, Registered, Saving
  <2>2. ASSUME main_pc = "receive" PROVE SavedAgrees
    BY <2>2 DEF ServerInv, SavedInv
  <2> QED
    BY <2>1, <2>2 DEF OneClient, SavedAgrees, Registered, At
<1> QED
  BY <1>1, InvAlways, PTL

\* The server detaches from every connection that has ended, once (the comment
\* "Always do the ConnectDetach", pulse_server.c:113).
THEOREM NoNumberLost == Spec => []NoScoidLeak
<1>1. ServerInv => NoScoidLeak
  <2> SUFFICES ASSUME ServerInv, NEW s \in attached, NEW c \in Clients, conn[c] = s
               PROVE  Cardinality(At(s)) = 1
    BY DEF ServerInv, NumbersKept, Cleaning, NoScoidLeak
  <2>1. conn[c] # 0
    BY PulseServerAssumption DEF ServerInv, TypeOK, Scoids
  <2>2. At(s) = {c}
    BY <2>1 DEF ServerInv, ConnectionsApart, At
  <2> QED
    BY <2>2, FS_Singleton
<1> QED
  BY <1>1, InvAlways, PTL
==============================================================================
