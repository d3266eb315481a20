----------------------------- MODULE Md5Service -----------------------------
(* The MD5 service of S_zhihu_sourceM_1_md5name and its sample client.  The   *)
(* service digests what it is sent, a block of 16 KiB at a time, in one       *)
(* context for all clients, until somebody asks for the digest.               *)
EXTENDS Naturals, Sequences

CONSTANTS Md5Clients,  \* client processes
          FileBlocks,  \* the most blocks a file has
          SendBlocks   \* the most blocks one md5_send is given (the sample: 1)

VARIABLES
  ctx,        \* the MD5 context: the blocks since MD5_Init
  service,    \* "receiving", "handling" or "ended"
  asking,     \* the client whose message is handled
  queue,      \* SEND-blocked clients
  state,      \* state[c]: where c is
  size,       \* size[c]: the blocks of the file of c
  sent,       \* sent[c]: the blocks the service has confirmed
  msglen,     \* msglen[c]: blocks in the message under way; 0 asks for the digest
  digest,     \* digest[c]: the digests c got, one at most
  \* history
  among,      \* the clients whose blocks came since a digest was last taken
  spoiled     \* spoiled[c]: another's blocks or digest came into the session of c

client_state == <<state, size, sent, msglen, digest>>
vars == <<ctx, service, asking, queue, client_state, among, spoiled>>

Nobody   == "nobody"
Block(c, i) == <<c, i>>
\* Blocks first..last of the file of c.
File(c, first, last) == [i \in 1..(last + 1 - first) |-> Block(c, first + i - 1)]

Init ==
  /\ ctx = <<>>
  /\ service = "receiving" /\ asking = Nobody /\ queue = <<>>
  \* Whether name_open sends _IO_CONNECT, as S_function_name_attach.c:71 has it.
  /\ \E first \in {"opening", "reading"} : state = [c \in Md5Clients |-> first]
  /\ size \in [Md5Clients -> 0..FileBlocks]
  /\ sent = [c \in Md5Clients |-> 0]
  /\ msglen = [c \in Md5Clients |-> 0]
  /\ digest = [c \in Md5Clients |-> {}]
  /\ among = {}
  /\ spoiled = [c \in Md5Clients |-> FALSE]

-----------------------------------------------------------------------------
(* The client: name_open, md5_send for each piece of the file, then md5_recv. *)

\* A message.  Without a service it is an error; the sample then ends, and for
\* the digest does not look.
Ask(c, waits) ==
  /\ IF service = "ended"
     THEN state' = [state EXCEPT ![c] = "over"] /\ UNCHANGED queue
     ELSE state' = [state EXCEPT ![c] = waits] /\ queue' = Append(queue, c)
  /\ UNCHANGED <<ctx, service, asking, size, sent, digest, among, spoiled>>

name_open(c) == state[c] = "opening" /\ Ask(c, "connecting") /\ UNCHANGED msglen

\* A message of n blocks.
Call(c, n) ==
  /\ state[c] = "reading"
  /\ Ask(c, IF n > 0 THEN "sending" ELSE "asking")
  /\ msglen' = [msglen EXCEPT ![c] = n]

md5_send(c) == \E n \in 1..SendBlocks : sent[c] + n <= size[c] /\ Call(c, n)
md5_recv(c) == sent[c] = size[c] /\ Call(c, 0)

\* The service has gone while c is blocked on it.
CallFails(c) ==
  /\ service = "ended" /\ state[c] \in {"connecting", "sending", "asking"}
  /\ state' = [state EXCEPT ![c] = "over"]
  /\ UNCHANGED <<ctx, service, asking, queue, size, sent, msglen, digest, among, spoiled>>

\* The queue when the client at its place i is gone; a client waits once.
LeftBy(i) == SubSeq(queue, 1, i - 1) \o SubSeq(queue, i + 1, Len(queue))

Kill(c) ==
  /\ state[c] \notin {"over", "killed"}
  /\ state' = [state EXCEPT ![c] = "killed"]
  /\ IF \E i \in DOMAIN queue : queue[i] = c
       THEN \E i \in DOMAIN queue : queue[i] = c /\ queue' = LeftBy(i)
       ELSE UNCHANGED queue
  /\ UNCHANGED <<ctx, service, asking, size, sent, msglen, digest, among, spoiled>>

Sample(c) == name_open(c) \/ md5_send(c) \/ md5_recv(c) \/ CallFails(c)

-----------------------------------------------------------------------------
(* The service.                                                               *)

\* There is no case for _IO_CONNECT: its sender stays REPLY-blocked.  A pulse
\* begins with zeros, is no case either and changes nothing here.
MsgReceive ==
  /\ service = "receiving" /\ queue # <<>>
  /\ queue' = Tail(queue)
  /\ IF state[Head(queue)] = "connecting"
     THEN UNCHANGED <<asking, service>>
     ELSE asking' = Head(queue) /\ service' = "handling"
  /\ UNCHANGED <<ctx, client_state, among, spoiled>>

\* A slip: the offset stays.
ReadFirstAgain == [i \in 1..msglen[asking] |-> Block(asking, sent[asking] + 1)]

\* What the loop of MsgRead gets: block after block, the offset moving on.
ReadFromCaller == File(asking, sent[asking] + 1, sent[asking] + msglen[asking])

\* A client that was killed meanwhile is kept until it is answered, as a channel
\* of name_attach has it; so its blocks are read all the same.
SendData ==
  /\ service = "handling" /\ msglen[asking] > 0
  /\ ctx' = ctx \o ReadFromCaller
  /\ sent' = [sent EXCEPT ![asking] = @ + msglen[asking]]
  /\ state' = [state EXCEPT ![asking] = IF @ = "killed" THEN @ ELSE "reading"]
  /\ service' = "receiving"
  /\ among' = among \cup {asking}
  /\ UNCHANGED <<asking, queue, size, msglen, digest, spoiled>>

\* A slip: the context is started once, before the loop.
ReceiveDigestKeeping ==
  /\ service = "handling" /\ msglen[asking] = 0
  /\ IF state[asking] = "killed" THEN UNCHANGED <<digest, state>>
     ELSE /\ digest' = [digest EXCEPT ![asking] = {ctx}]
          /\ state' = [state EXCEPT ![asking] = "over"]
  /\ service' = "receiving"
  /\ among' = {}
  /\ spoiled' = [c \in Md5Clients |->
                   IF c = asking THEN spoiled[c] \/ ~(among \subseteq {c})
                   ELSE spoiled[c] \/ c \in among]
  /\ UNCHANGED <<ctx, asking, queue, size, sent, msglen>>

\* MD5_Final into c's reply, and MD5_Init.
ReceiveDigest ==
  /\ service = "handling" /\ msglen[asking] = 0
  /\ IF state[asking] = "killed" THEN UNCHANGED <<digest, state>>
     ELSE /\ digest' = [digest EXCEPT ![asking] = {ctx}]
          /\ state' = [state EXCEPT ![asking] = "over"]
  /\ ctx' = <<>>
  /\ service' = "receiving"
  /\ among' = {}
  /\ spoiled' = [c \in Md5Clients |->
                   IF c = asking THEN spoiled[c] \/ ~(among \subseteq {c})
                   ELSE spoiled[c] \/ c \in among]
  /\ UNCHANGED <<asking, queue, size, sent, msglen>>

\* MsgRead or MsgReceive fails: md5_name returns.
ReturnError ==
  /\ service = "receiving" \/ (service = "handling" /\ msglen[asking] > 0)
  /\ service' = "ended"
  /\ queue' = <<>>
  /\ UNCHANGED <<ctx, asking, client_state, among, spoiled>>

md5_name == MsgReceive \/ SendData \/ ReceiveDigest

Next == (\E c \in Md5Clients : Sample(c) \/ Kill(c)) \/ md5_name \/ ReturnError

Spec == Init /\ [][Next]_vars

-----------------------------------------------------------------------------
\* Every variable has its type.
TypeOK ==
  /\ ctx \in Seq(Md5Clients \X (1..FileBlocks))
  /\ service \in {"receiving", "handling", "ended"}
  /\ asking \in Md5Clients \cup {Nobody}
  /\ queue \in Seq(Md5Clients)
  /\ state \in [Md5Clients -> {"opening", "connecting", "reading", "sending", "asking", "over", "killed"}]
  /\ size \in [Md5Clients -> 0..FileBlocks]
  /\ \A c \in Md5Clients : sent[c] <= size[c]
  /\ msglen \in [Md5Clients -> 0..SendBlocks]
  /\ among \subseteq Md5Clients

\* The digest a client gets is that of its file, block for block, unless blocks
\* of another client were digested with it or another's digest cut it short.
\* What a client leaves that died in the middle counts as blocks of another.
DigestIsOwn ==
  \A c \in Md5Clients :
    ~spoiled[c] => digest[c] \subseteq {File(c, 1, size[c])}
=============================================================================
