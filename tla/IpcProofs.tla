------------------------------- MODULE IpcProofs -------------------------------
(*****************************************************************************)
(* Proofs about the programs of Programs that are several processes, which   *)
(* come and go: the message queue, the names of two queues, shared memory.   *)
(*****************************************************************************)
EXTENDS Programs, Sequences, SequenceTheorems, TLAPS

\* A step of Programs is, for each program, a step of its own or none.
LEMMA IpcSteps ==
  [Next]_vars =>
    [QW!Next]_qw_vars /\ [QN!Next]_qn_vars /\ [SM!Next]_sm_vars
BY DEF Next, vars

-------------------------------------------------------------------------------
\* Queue writers. The name is never taken away, so whoever has a queue open has
\* the one behind the name.

Message == Writers \X (0..MaxSends)

QueueInv ==
  /\ QW!TypeOK
  /\ qw_contents \in [1..MaxQueues -> Seq(Message)]
  /\ qw_accepted \in Seq(Message) /\ qw_received \in Seq(Message)
  /\ Len(qw_accepted) <= MaxSends
  /\ \A w \in Writers : qw_num[w] <= Len(qw_accepted)
  /\ \A p \in Writers \cup Readers : qw_open[p] \in {0, qw_named}
  /\ qw_named = 0 => \A q \in 1..MaxQueues : qw_contents[q] = <<>>
  /\ QW!NothingLost

LEMMA AppendConcat ==
  \A a, b \in Seq(Message), e \in Message : Append(a \o b, e) = a \o Append(b, e)
<1> SUFFICES ASSUME NEW a \in Seq(Message), NEW b \in Seq(Message), NEW e \in Message
             PROVE  Append(a \o b, e) = a \o Append(b, e)
  OBVIOUS
<1>1. <<e>> \in Seq(Message) /\ a \o b \in Seq(Message)
  BY ConcatProperties
<1>2. Append(a \o b, e) = (a \o b) \o <<e>> /\ Append(b, e) = b \o <<e>>
  BY <1>1, AppendIsConcat
<1>3. (a \o b) \o <<e>> = a \o (b \o <<e>>)
  BY <1>1, ConcatAssociative
<1> QED
  BY <1>2, <1>3, Zenon

LEMMA QueueInit == QW!Init => QueueInv
<1> SUFFICES ASSUME QW!Init PROVE QueueInv
  OBVIOUS
<1> USE MessagesAssumption DEF QW!Init
<1>1. <<>> \in Seq(Message) /\ Len(<<>>) = 0 /\ <<>> \o <<>> = <<>>
  BY EmptySeq, ConcatEmptySeq
<1>2. QW!TypeOK
  BY <1>1 DEF QW!TypeOK
<1> QED
  BY <1>1, <1>2 DEF QueueInv, QW!NothingLost

LEMMA QueueOpen ==
  ASSUME QueueInv, NEW p \in Writers \cup Readers,
         (QW!OpenWriter(p) /\ p \in Writers) \/ QW!OpenReader(p)
  PROVE  QueueInv'
<1> USE MessagesAssumption
<1>1. /\ UNCHANGED <<qw_contents, qw_accepted, qw_received>>
      /\ qw_open' = [qw_open EXCEPT ![p] = qw_named']
      /\ qw_named' \in 1..MaxQueues /\ qw_created' \in 0..MaxQueues /\ qw_named' <= qw_created'
      /\ qw_named # 0 => qw_named' = qw_named
  <2>1. /\ qw_created \in Nat /\ qw_named \in 0..qw_created /\ qw_created <= MaxQueues
    BY DEF QueueInv, QW!TypeOK
  <2>2. CASE QW!OpenWriter(p)
    BY <2>1, <2>2 DEF QW!OpenWriter
  <2>3. CASE QW!OpenReader(p)
    BY <2>1, <2>3 DEF QW!OpenReader
  <2> QED
    BY <2>2, <2>3
<1>2. /\ qw_num' \in [Writers -> 0..MaxSends]
      /\ \A w \in Writers : qw_num'[w] <= Len(qw_accepted)
  <2>1. \/ qw_num' = qw_num
        \/ \E w \in Writers : qw_num' = [qw_num EXCEPT ![w] = 0]
    BY DEF QW!OpenWriter, QW!OpenReader
  <2>2. qw_num \in [Writers -> 0..MaxSends] /\ Len(qw_accepted) \in Nat
    BY LenProperties DEF QueueInv, QW!TypeOK
  <2>3. \A w \in Writers : qw_num[w] <= Len(qw_accepted)
    BY DEF QueueInv
  <2> QED
    BY <2>1, <2>2, <2>3
<1>3. QW!TypeOK'
  BY <1>1, <1>2 DEF QueueInv, QW!TypeOK
<1>4. \A s \in Writers \cup Readers : qw_open'[s] \in {0, qw_named'}
  BY <1>1 DEF QueueInv, QW!TypeOK
<1>5. QW!NothingLost'
  BY <1>1 DEF QueueInv, QW!NothingLost
<1> QED
  BY <1>1, <1>2, <1>3, <1>4, <1>5 DEF QueueInv

LEMMA QueueSend ==
  ASSUME QueueInv, NEW w \in Writers, QW!Send(w)
  PROVE  QueueInv'
<1> USE MessagesAssumption
<1> DEFINE m == <<w, qw_num[w]>>
           q == qw_named
<1>1. /\ qw_open[w] = q /\ q \in 1..MaxQueues /\ m \in Message
      /\ qw_contents[q] \in Seq(Message) /\ qw_received \in Seq(Message)
      /\ qw_accepted \in Seq(Message) /\ qw_accepted = qw_received \o qw_contents[q]
  <2>1. qw_open[w] = q /\ q \in 1..MaxQueues
    BY DEF QW!Send, QueueInv, QW!TypeOK
  <2>2. m \in Message
    BY DEF QueueInv, QW!TypeOK, Message
  <2> QED
    BY <2>1, <2>2 DEF QueueInv, QW!NothingLost
<1>2. /\ qw_contents' = [qw_contents EXCEPT ![q] = Append(@, m)]
      /\ qw_accepted' = Append(qw_accepted, m)
      /\ qw_num' = [qw_num EXCEPT ![w] = @ + 1]
      /\ UNCHANGED <<qw_named, qw_created, qw_open, qw_received>>
      /\ Len(qw_contents[q]) < Capacity /\ Len(qw_accepted) < MaxSends
  BY <1>1 DEF QW!Send
<1> HIDE DEF m
<1>3. /\ Append(qw_contents[q], m) \in Seq(Message) /\ Append(qw_accepted, m) \in Seq(Message)
      /\ Len(Append(qw_accepted, m)) = Len(qw_accepted) + 1
      /\ Len(Append(qw_contents[q], m)) = Len(qw_contents[q]) + 1
      /\ Len(qw_accepted) \in Nat /\ Len(qw_contents[q]) \in Nat
  BY <1>1, AppendProperties, LenProperties
<1>4. Append(qw_accepted, m) = qw_received \o Append(qw_contents[q], m)
  <2>1. qw_accepted = qw_received \o qw_contents[q]
    BY <1>1
  <2>2. qw_received \in Seq(Message) /\ qw_contents[q] \in Seq(Message) /\ m \in Message
    BY <1>1
  <2> QED
    BY AppendConcat, <2>1, <2>2, Zenon
<1>5. /\ qw_contents' \in [1..MaxQueues -> Seq(Message)]
      /\ \A r \in 1..MaxQueues : qw_contents'[r] =
           IF r = q THEN Append(qw_contents[q], m) ELSE qw_contents[r]
  BY <1>1, <1>2, <1>3 DEF QueueInv
<1>6. /\ qw_num' \in [Writers -> 0..MaxSends]
      /\ \A s \in Writers : qw_num'[s] <= Len(qw_accepted')
  <2>1. /\ qw_num \in [Writers -> 0..MaxSends] /\ Len(qw_accepted') = Len(qw_accepted) + 1
        /\ \A s \in Writers : qw_num[s] <= Len(qw_accepted)
    BY <1>2, <1>3 DEF QueueInv, QW!TypeOK
  <2>2. \A s \in Writers : qw_num'[s] = IF s = w THEN qw_num[w] + 1 ELSE qw_num[s]
    BY <1>2, <2>1
  <2>3. \A s \in Writers : qw_num[s] \in Nat /\ qw_num[s] + 1 \in 0..MaxSends
    BY <1>2, <1>3, <2>1
  <2>4. qw_num' \in [Writers -> 0..MaxSends]
    BY <1>2, <2>1, <2>3
  <2> QED
    BY <1>3, <2>1, <2>2, <2>3, <2>4
<1>7. QW!NothingLost'
  BY <1>1, <1>2, <1>4, <1>5 DEF QW!NothingLost
<1>8. QW!TypeOK'
  <2>1. \A r \in 1..MaxQueues : Len(qw_contents'[r]) <= Capacity
    BY <1>2, <1>3, <1>5 DEF QueueInv, QW!TypeOK
  <2>2. Len(qw_received') <= Len(qw_accepted')
    BY <1>1, <1>2, <1>3, LenProperties DEF QueueInv, QW!TypeOK
  <2> QED
    BY <1>2, <1>6, <2>1, <2>2 DEF QueueInv, QW!TypeOK
<1> QED
  BY <1>1, <1>2, <1>3, <1>5, <1>6, <1>7, <1>8 DEF QueueInv

LEMMA QueueReceive ==
  ASSUME QueueInv, NEW r \in Readers, QW!Receive(r)
  PROVE  QueueInv'
<1> USE MessagesAssumption
<1> DEFINE q == qw_named
           c == qw_contents[q]
<1>1. /\ qw_open[r] = q /\ q \in 1..MaxQueues
      /\ c \in Seq(Message) /\ c # <<>> /\ qw_received \in Seq(Message)
      /\ qw_accepted = qw_received \o c
  <2>1. qw_open[r] = q /\ q \in 1..MaxQueues
    BY DEF QW!Receive, QueueInv, QW!TypeOK
  <2>2. c # <<>>
    BY <2>1 DEF QW!Receive
  <2> QED
    BY <2>1, <2>2 DEF QueueInv, QW!NothingLost
<1>2. /\ qw_contents' = [qw_contents EXCEPT ![q] = Tail(@)]
      /\ qw_received' = Append(qw_received, Head(c))
      /\ UNCHANGED <<qw_named, qw_created, qw_open, qw_num, qw_accepted>>
  BY <1>1 DEF QW!Receive
<1>3. /\ Head(c) \in Message /\ Tail(c) \in Seq(Message) /\ Len(Tail(c)) = Len(c) - 1
      /\ Append(qw_received, Head(c)) \in Seq(Message)
      /\ Len(Append(qw_received, Head(c))) = Len(qw_received) + 1
      /\ Len(qw_received) \in Nat /\ Len(c) \in Nat /\ Len(c) # 0
  BY <1>1, HeadTailProperties, AppendProperties, LenProperties, EmptySeq
<1>4. qw_accepted = Append(qw_received, Head(c)) \o Tail(c)
  <2>1. <<Head(c)>> \in Seq(Message)
    BY <1>3
  <2>2. c = <<Head(c)>> \o Tail(c)
    BY <1>1
  <2>3. Append(qw_received, Head(c)) = qw_received \o <<Head(c)>>
    BY <1>1, <1>3, AppendIsConcat
  <2> HIDE DEF c
  <2>4. (qw_received \o <<Head(c)>>) \o Tail(c) = qw_received \o (<<Head(c)>> \o Tail(c))
    BY <1>1, <1>3, <2>1, ConcatAssociative
  <2> QED
    BY <1>1, <2>2, <2>3, <2>4
<1>5. /\ qw_contents' \in [1..MaxQueues -> Seq(Message)]
      /\ \A s \in 1..MaxQueues : qw_contents'[s] = IF s = q THEN Tail(c) ELSE qw_contents[s]
  BY <1>1, <1>2, <1>3 DEF QueueInv
<1>6. Len(qw_accepted) = Len(qw_received) + Len(c)
  BY <1>1, ConcatProperties
<1>7. QW!NothingLost'
  <2>1. qw_contents'[q] = Tail(c) /\ q # 0
    BY <1>1, <1>5
  <2> HIDE DEF c
  <2>2. qw_accepted' = qw_received' \o qw_contents'[q]
    BY <1>2, <1>4, <2>1
  <2> QED
    BY <1>2, <2>1, <2>2 DEF QW!NothingLost
<1>8. QW!TypeOK'
  BY <1>2, <1>3, <1>5, <1>6 DEF QueueInv, QW!TypeOK
<1> QED
  BY <1>1, <1>2, <1>3, <1>5, <1>7, <1>8 DEF QueueInv

LEMMA QueueStep == QueueInv /\ [QW!Next]_qw_vars => QueueInv'
<1> SUFFICES ASSUME QueueInv, [QW!Next]_qw_vars PROVE QueueInv'
  OBVIOUS
<1>1. ASSUME NEW w \in Writers, QW!OpenWriter(w) PROVE QueueInv'
  BY <1>1, QueueOpen
<1>2. ASSUME NEW w \in Writers, QW!Send(w) PROVE QueueInv'
  BY <1>2, QueueSend
<1>3. ASSUME NEW r \in Readers, QW!OpenReader(r) PROVE QueueInv'
  BY <1>3, QueueOpen
<1>4. ASSUME NEW r \in Readers, QW!Receive(r) PROVE QueueInv'
  BY <1>4, QueueReceive
<1>5. ASSUME NEW p \in Writers \cup Readers, QW!Kill(p) PROVE QueueInv'
  BY <1>5, MessagesAssumption DEF QW!Kill, QueueInv, QW!TypeOK, QW!NothingLost
<1>6. CASE UNCHANGED qw_vars
  BY <1>6 DEF qw_vars, QueueInv, QW!TypeOK, QW!NothingLost
<1> QED
  BY <1>1, <1>2, <1>3, <1>4, <1>5, <1>6 DEF QW!Next, qw_vars, QW!vars

LEMMA QueueAlways == Spec => []QueueInv
<1>1. Init => QueueInv
  BY QueueInit DEF Init
<1>2. QueueInv /\ [Next]_vars => QueueInv'
  BY IpcSteps, QueueStep
<1> QED
  BY <1>1, <1>2, PTL DEF Spec

\* What was sent is what was received and what waits under the name, in order,
\* for any number of writers, readers and messages.
THEOREM QueueLosesNothing == Spec => []NothingLost
<1>1. QueueInv => NothingLost
  BY DEF QueueInv, NothingLost
<1> QED
  BY <1>1, QueueAlways, PTL

-------------------------------------------------------------------------------
\* Queue names. Every name that nobody was killed over is owed by a process that
\* will still come to its clean-up; and as long as no name was unlinked, whoever
\* holds a queue holds the one behind the name.

\* p has opened the queue of kind k and will yet unlink its name.
Owes(p, k) ==
  /\ qn_held[p][k] # 0
  /\ \/ qn_stage[p] \in {QN!Running, QN!Queueless, <<"clean", "mode">>}
     \/ k = "mode" /\ qn_stage[p] = <<"open", "status">>
     \/ k = "status" /\ qn_stage[p] = <<"clean", "status">>

NamesOwed ==
  \A k \in QN!Kinds :
    qn_named[k] # 0 /\ k \notin qn_killed => \E p \in QN!Processes : Owes(p, k)

HeldIsNamed ==
  ~qn_cleaned => \A p \in QN!Processes, k \in QN!Kinds :
    qn_stage[p] # QN!Down /\ qn_held[p][k] # 0 => qn_held[p][k] = qn_named[k]

StageTypes ==
  /\ qn_stage \in [QN!Processes -> QN!Stages]
  /\ qn_stage["intersection"] # QN!Queueless
  /\ \A p \in QN!Processes, k \in QN!Kinds : qn_stage[p] = QN!Running => qn_held[p][k] # 0

NumberTypes ==
  /\ qn_created \in [QN!Kinds -> 0..MaxQueues] /\ qn_named \in [QN!Kinds -> 0..MaxQueues]
  /\ qn_held \in [QN!Processes -> [QN!Kinds -> 0..MaxQueues]]
  /\ \A k \in QN!Kinds : qn_named[k] <= qn_created[k]
  /\ \A p \in QN!Processes, k \in QN!Kinds : qn_held[p][k] <= qn_created[k]
  /\ qn_killed \subseteq {k \in QN!Kinds : qn_named[k] # 0}

FlagTypes == qn_ending \in [QN!Processes -> BOOLEAN] /\ qn_cleaned \in BOOLEAN

NameTypes == StageTypes /\ NumberTypes /\ FlagTypes

NameInv == NameTypes /\ NamesOwed /\ HeldIsNamed

LEMMA NameInit == QN!Init => NameInv
<1> SUFFICES ASSUME QN!Init PROVE NameInv
  OBVIOUS
<1> USE MessagesAssumption DEF QN!Init
<1>1. StageTypes
  BY DEF StageTypes, QN!Stages, QN!Down, QN!Running, QN!Queueless, QN!Kinds, QN!Processes
<1>2. NumberTypes
  BY DEF NumberTypes
<1>3. FlagTypes
  BY DEF FlagTypes
<1> QED
  BY <1>1, <1>2, <1>3 DEF NameInv, NameTypes, NamesOwed, HeldIsNamed

LEMMA NameOpen ==
  ASSUME NameInv, NEW p \in QN!Processes, NEW k \in QN!Kinds, QN!OpenQueue(p, k) \/ QN!FailOpen(p, k)
  PROVE  NameInv'
<1> USE MessagesAssumption
<1>0. k \in {"mode", "status"} /\ qn_stage[p] = <<"open", k>>
  BY DEF QN!OpenQueue, QN!FailOpen, QN!Kinds
<1>1. /\ qn_created' \in [QN!Kinds -> 0..MaxQueues] /\ qn_named' \in [QN!Kinds -> 0..MaxQueues]
      /\ \A j \in QN!Kinds : qn_named'[j] <= qn_created'[j] /\ qn_created[j] <= qn_created'[j]
      /\ \A j \in QN!Kinds : qn_named[j] # 0 => qn_named'[j] = qn_named[j]
      /\ \A j \in QN!Kinds \ {k} : qn_named'[j] = qn_named[j]
  <2>1. NumberTypes
    BY DEF NameInv, NameTypes
  <2>2. CASE UNCHANGED <<qn_created, qn_named>>
    BY <2>1, <2>2 DEF NumberTypes
  <2>3. CASE ~UNCHANGED <<qn_created, qn_named>>
    <3>1. /\ qn_named[k] = 0 /\ qn_created[k] < MaxQueues
          /\ qn_created' = [qn_created EXCEPT ![k] = @ + 1]
          /\ qn_named' = [qn_named EXCEPT ![k] = qn_created'[k]]
      BY <2>3 DEF QN!OpenQueue, QN!FailOpen
    <3>2. qn_created[k] + 1 \in 0..MaxQueues
      BY <2>1, <3>1 DEF NumberTypes
    <3>3. qn_created'[k] = qn_created[k] + 1 /\ qn_named'[k] = qn_created[k] + 1
      BY <2>1, <3>1 DEF NumberTypes
    <3> QED
      BY <2>1, <3>1, <3>2, <3>3 DEF NumberTypes
  <2> QED
    BY <2>2, <2>3
<1>2. /\ \E q \in {0, qn_named'[k]} : qn_held' = [qn_held EXCEPT ![p][k] = q]
      /\ QN!OpenQueue(p, k) => qn_held'[p][k] # 0
      /\ QN!FailOpen(p, k) => qn_named' = qn_named
  BY <1>1 DEF NameInv, NameTypes, NumberTypes, QN!OpenQueue, QN!FailOpen
<1>3. /\ qn_held' \in [QN!Processes -> [QN!Kinds -> 0..MaxQueues]]
      /\ qn_held'[p][k] \in {0, qn_named'[k]}
      /\ \A o \in QN!Processes, j \in QN!Kinds :
           o # p \/ j # k => qn_held'[o][j] = qn_held[o][j]
  BY <1>1, <1>2 DEF NameInv, NameTypes, NumberTypes
<1>4. /\ UNCHANGED <<qn_ending, qn_cleaned, qn_killed>>
      /\ k = "mode" => qn_stage' = [qn_stage EXCEPT ![p] = <<"open", "status">>]
      /\ k = "status" /\ (\E j \in QN!Kinds : qn_held'[p][j] = 0)
           => qn_stage' = [qn_stage EXCEPT ![p] = <<"clean", "mode">>]
      /\ k = "status" /\ ~(\E j \in QN!Kinds : qn_held'[p][j] = 0)
           => qn_stage' = [qn_stage EXCEPT ![p] = QN!Running]
  BY <1>0 DEF QN!OpenQueue, QN!FailOpen, QN!Onward
<1> USE DEF QN!Down, QN!Running, QN!Queueless
<1>5. /\ qn_stage' \in [QN!Processes -> QN!Stages]
      /\ \A o \in QN!Processes \ {p} : qn_stage'[o] = qn_stage[o]
      /\ k = "mode" => qn_stage'[p] = <<"open", "status">>
      /\ k = "status" => qn_stage'[p] \in {<<"clean", "mode">>, QN!Running}
      /\ qn_stage'[p] = QN!Running => \A j \in QN!Kinds : qn_held'[p][j] # 0
  BY <1>0, <1>4 DEF NameInv, NameTypes, StageTypes, QN!Stages, QN!Kinds
<1>6. NameTypes'
  <2>1. StageTypes'
    BY <1>0, <1>3, <1>5 DEF NameInv, NameTypes, StageTypes, QN!Processes
  <2>2. NumberTypes'
    BY <1>1, <1>3, <1>4 DEF NameInv, NameTypes, NumberTypes
  <2>3. FlagTypes'
    BY <1>4 DEF NameInv, NameTypes, FlagTypes
  <2> QED
    BY <2>1, <2>2, <2>3 DEF NameTypes
<1>7. NamesOwed'
  <2> SUFFICES ASSUME NEW j \in QN!Kinds, qn_named'[j] # 0, j \notin qn_killed'
               PROVE  \E o \in QN!Processes : Owes(o, j)'
    BY DEF NamesOwed
  <2>1. CASE qn_named[j] = 0
    <3>1. j = k /\ QN!OpenQueue(p, k)
      BY <1>1, <1>2, <2>1
    <3> QED
      BY <1>0, <1>2, <1>5, <3>1 DEF Owes
  <2>2. CASE qn_named[j] # 0
    <3>1. PICK o \in QN!Processes : Owes(o, j)
      BY <1>4, <2>2 DEF NameInv, NamesOwed
    <3>2. CASE o # p
      BY <1>3, <1>5, <3>1, <3>2 DEF Owes
    <3>3. CASE o = p
      <4>1. k = "status" /\ j = "mode" /\ qn_held[p][j] # 0
        BY <1>0, <3>1, <3>3 DEF Owes, QN!Kinds
      <4> QED
        BY <1>3, <1>5, <4>1 DEF Owes
    <3> QED
      BY <3>2, <3>3
  <2> QED
    BY <2>1, <2>2
<1>8. HeldIsNamed'
  BY <1>0, <1>1, <1>3, <1>4, <1>5 DEF NameInv, HeldIsNamed
<1> QED
  BY <1>6, <1>7, <1>8 DEF NameInv

LEMMA NameClean ==
  ASSUME NameInv, NEW p \in QN!Processes, NEW k \in QN!Kinds, QN!CloseAndUnlink(p, k)
  PROVE  NameInv'
<1> USE MessagesAssumption DEF QN!Down, QN!Running, QN!Queueless
<1>0. k \in {"mode", "status"} /\ qn_stage[p] = <<"clean", k>> /\ UNCHANGED <<qn_created, qn_held, qn_ending>>
  BY DEF QN!CloseAndUnlink, QN!Kinds
<1>1. /\ qn_named' \in [QN!Kinds -> 0..MaxQueues]
      /\ qn_held[p][k] # 0 => qn_named'[k] = 0 /\ k \notin qn_killed' /\ qn_killed' = qn_killed \ {k}
      /\ qn_held[p][k] = 0 => UNCHANGED <<qn_named, qn_killed>>
      /\ \A j \in QN!Kinds \ {k} : qn_named'[j] = qn_named[j] /\ (j \in qn_killed' <=> j \in qn_killed)
  BY DEF NameInv, NameTypes, NumberTypes, QN!CloseAndUnlink
<1>2. /\ k = "mode" => qn_stage' = [qn_stage EXCEPT ![p] = <<"clean", "status">>]
      /\ k = "status" => \/ qn_stage' = [qn_stage EXCEPT ![p] = QN!Down]
                         \/ /\ p = "controller"
                            /\ qn_stage' = [qn_stage EXCEPT ![p] = QN!Queueless]
  BY <1>0 DEF QN!CloseAndUnlink
<1>3. /\ qn_stage' \in [QN!Processes -> QN!Stages]
      /\ \A o \in QN!Processes \ {p} : qn_stage'[o] = qn_stage[o]
      /\ k = "mode" => qn_stage'[p] = <<"clean", "status">>
      /\ k = "status" => qn_stage'[p] \in {QN!Down, QN!Queueless}
      /\ qn_stage'[p] = QN!Queueless => p = "controller"
  BY <1>0, <1>2 DEF NameInv, NameTypes, StageTypes, QN!Stages, QN!Kinds
<1>4. qn_cleaned' \in BOOLEAN
  BY DEF QN!CloseAndUnlink
<1>5. NameTypes'
  <2>1. StageTypes'
    BY <1>0, <1>3 DEF NameInv, NameTypes, StageTypes, QN!Processes
  <2>2. NumberTypes'
    <3>1. NumberTypes
      BY DEF NameInv, NameTypes
    <3>2. CASE qn_held[p][k] = 0
      BY <1>0, <1>1, <3>1, <3>2 DEF NumberTypes
    <3>3. CASE qn_held[p][k] # 0
      <4>1. \A j \in QN!Kinds : qn_named'[j] = IF j = k THEN 0 ELSE qn_named[j]
        BY <1>1, <3>3
      <4>2. qn_killed' \subseteq {j \in QN!Kinds : qn_named'[j] # 0}
        BY <1>1, <3>1, <3>3, <4>1 DEF NumberTypes
      <4> QED
        BY <1>0, <1>1, <3>1, <4>1, <4>2 DEF NumberTypes
    <3> QED
      BY <3>2, <3>3
  <2>3. FlagTypes'
    BY <1>0, <1>4 DEF NameInv, NameTypes, FlagTypes
  <2> QED
    BY <2>1, <2>2, <2>3 DEF NameTypes
<1>6. NamesOwed'
  <2> SUFFICES ASSUME NEW j \in QN!Kinds, qn_named'[j] # 0, j \notin qn_killed'
               PROVE  \E o \in QN!Processes : Owes(o, j)'
    BY DEF NamesOwed
  <2>1. PICK o \in QN!Processes : Owes(o, j)
    BY <1>1 DEF NameInv, NamesOwed
  <2>2. CASE o # p
    BY <1>0, <1>3, <2>1, <2>2 DEF Owes
  <2>3. CASE o = p
    <3>1. qn_held[p][j] # 0 /\ k # j
      BY <1>1, <2>1, <2>3 DEF Owes
    <3>2. k = "mode" /\ j = "status"
      BY <1>0, <2>1, <2>3, <3>1 DEF Owes, QN!Kinds
    <3> QED
      BY <1>0, <1>3, <3>1, <3>2 DEF Owes
  <2> QED
    BY <2>2, <2>3
<1>7. HeldIsNamed'
  <2>1. CASE \A o \in QN!Processes : qn_stage'[o] = QN!Down
    BY <2>1 DEF HeldIsNamed
  <2>2. CASE \E o \in QN!Processes : qn_stage'[o] # QN!Down
    <3>1. ~qn_cleaned' => ~qn_cleaned /\ qn_held[p][k] = 0
      BY <2>2 DEF QN!CloseAndUnlink
    <3>2. \A o \in QN!Processes : qn_stage'[o] # QN!Down => qn_stage[o] # QN!Down
      BY <1>0, <1>3
    <3> QED
      BY <1>0, <1>1, <3>1, <3>2 DEF NameInv, HeldIsNamed
  <2> QED
    BY <2>1, <2>2
<1> QED
  BY <1>5, <1>6, <1>7 DEF NameInv

LEMMA NameStep == NameInv /\ [QN!Next]_qn_vars => NameInv'
<1> SUFFICES ASSUME NameInv, [QN!Next]_qn_vars PROVE NameInv'
  OBVIOUS
<1> USE MessagesAssumption DEF QN!Down, QN!Running, QN!Queueless
<1>1. ASSUME NEW p \in QN!Processes, QN!Start(p) PROVE NameInv'
  <2>1. /\ qn_stage[p] = QN!Down
        /\ qn_stage' = [qn_stage EXCEPT ![p] = <<"open", "mode">>]
        /\ qn_held' = [qn_held EXCEPT ![p] = [k \in QN!Kinds |-> 0]]
        /\ UNCHANGED <<qn_named, qn_created, qn_cleaned, qn_killed>>
        /\ qn_ending' \in [QN!Processes -> BOOLEAN]
    BY <1>1 DEF QN!Start, NameInv, NameTypes, FlagTypes
  <2>2. /\ qn_stage' \in [QN!Processes -> QN!Stages]
        /\ \A o \in QN!Processes : qn_stage'[o] = IF o = p THEN <<"open", "mode">> ELSE qn_stage[o]
    BY <2>1 DEF NameInv, NameTypes, StageTypes, QN!Stages, QN!Kinds
  <2>3. /\ qn_held' \in [QN!Processes -> [QN!Kinds -> 0..MaxQueues]]
        /\ \A o \in QN!Processes, k \in QN!Kinds :
             qn_held'[o][k] = IF o = p THEN 0 ELSE qn_held[o][k]
    BY <2>1 DEF NameInv, NameTypes, NumberTypes
  <2>4. NameTypes'
    <3>1. StageTypes'
      BY <2>1, <2>2, <2>3 DEF NameInv, NameTypes, StageTypes, QN!Processes
    <3>2. NumberTypes'
      BY <2>1, <2>2, <2>3 DEF NameInv, NameTypes, NumberTypes
    <3>3. FlagTypes'
      BY <2>1 DEF NameInv, NameTypes, FlagTypes
    <3> QED
      BY <3>1, <3>2, <3>3 DEF NameTypes
  <2>5. NamesOwed'
    <3> SUFFICES ASSUME NEW k \in QN!Kinds, qn_named'[k] # 0, k \notin qn_killed'
                 PROVE  \E o \in QN!Processes : Owes(o, k)'
      BY DEF NamesOwed
    <3>1. PICK o \in QN!Processes : Owes(o, k)
      BY <2>1 DEF NameInv, NamesOwed
    <3>2. o # p
      BY <2>1, <3>1 DEF Owes
    <3> QED
      BY <2>2, <2>3, <3>1, <3>2 DEF Owes
  <2>6. HeldIsNamed'
    BY <2>1, <2>2, <2>3 DEF NameInv, HeldIsNamed
  <2> QED
    BY <2>4, <2>5, <2>6 DEF NameInv
<1>2. ASSUME NEW p \in QN!Processes, QN!Escape(p) PROVE NameInv'
  <2>1. /\ qn_stage[p] \in {QN!Running, QN!Queueless}
        /\ qn_stage' = [qn_stage EXCEPT ![p] = <<"clean", "mode">>]
        /\ UNCHANGED <<qn_held, qn_named, qn_created, qn_cleaned, qn_killed>>
        /\ qn_ending' \in [QN!Processes -> BOOLEAN]
    BY <1>2 DEF QN!Escape, NameInv, NameTypes, FlagTypes
  <2>2. /\ qn_stage' \in [QN!Processes -> QN!Stages]
        /\ \A o \in QN!Processes : qn_stage'[o] = IF o = p THEN <<"clean", "mode">> ELSE qn_stage[o]
    BY <2>1 DEF NameInv, NameTypes, StageTypes, QN!Stages, QN!Kinds
  <2>3. NameTypes'
    <3>1. StageTypes'
      BY <2>1, <2>2 DEF NameInv, NameTypes, StageTypes, QN!Processes
    <3>2. NumberTypes'
      BY <2>1, <2>2 DEF NameInv, NameTypes, NumberTypes
    <3>3. FlagTypes'
      BY <2>1 DEF NameInv, NameTypes, FlagTypes
    <3> QED
      BY <3>1, <3>2, <3>3 DEF NameTypes
  <2>4. NamesOwed'
    BY <2>1, <2>2 DEF NameInv, NamesOwed, Owes
  <2>5. HeldIsNamed'
    BY <2>1, <2>2 DEF NameInv, HeldIsNamed
  <2> QED
    BY <2>3, <2>4, <2>5 DEF NameInv
<1>3. ASSUME NEW p \in QN!Processes, QN!Kill(p) PROVE NameInv'
  <2>1. /\ qn_stage' = [qn_stage EXCEPT ![p] = QN!Down]
        /\ qn_killed' = qn_killed \cup {k \in QN!Kinds : qn_held[p][k] # 0 /\ qn_named[k] # 0}
        /\ UNCHANGED <<qn_held, qn_named, qn_created, qn_ending>>
        /\ qn_cleaned' = (qn_cleaned /\ \E o \in QN!Processes : qn_stage'[o] # QN!Down)
    BY <1>3 DEF QN!Kill
  <2>2. /\ qn_stage' \in [QN!Processes -> QN!Stages]
        /\ \A o \in QN!Processes : qn_stage'[o] = IF o = p THEN QN!Down ELSE qn_stage[o]
    BY <2>1 DEF NameInv, NameTypes, StageTypes, QN!Stages
  <2>3. qn_cleaned' \in BOOLEAN
    BY <2>1
  <2>4. NameTypes'
    <3>1. StageTypes'
      BY <2>1, <2>2 DEF NameInv, NameTypes, StageTypes, QN!Processes
    <3>2. NumberTypes'
      BY <2>1 DEF NameInv, NameTypes, NumberTypes
    <3>3. FlagTypes'
      BY <2>1, <2>3 DEF NameInv, NameTypes, FlagTypes
    <3> QED
      BY <3>1, <3>2, <3>3 DEF NameTypes
  <2>5. NamesOwed'
    BY <2>1, <2>2 DEF NameInv, NamesOwed, Owes
  <2>6. HeldIsNamed'
    BY <2>1, <2>2 DEF NameInv, HeldIsNamed
  <2> QED
    BY <2>4, <2>5, <2>6 DEF NameInv
<1>4. ASSUME NEW p \in QN!Processes, NEW k \in QN!Kinds,
             QN!OpenQueue(p, k) \/ QN!FailOpen(p, k)
      PROVE  NameInv'
  BY <1>4, NameOpen
<1>5. ASSUME NEW p \in QN!Processes, NEW k \in QN!Kinds, QN!CloseAndUnlink(p, k)
      PROVE  NameInv'
  BY <1>5, NameClean
<1>6. CASE UNCHANGED qn_vars
  <2>1. NameTypes'
    BY <1>6 DEF qn_vars, NameInv, NameTypes, StageTypes, NumberTypes, FlagTypes
  <2>2. NamesOwed'
    BY <1>6 DEF qn_vars, NameInv, NamesOwed, Owes
  <2>3. HeldIsNamed'
    BY <1>6 DEF qn_vars, NameInv, HeldIsNamed
  <2> QED
    BY <2>1, <2>2, <2>3 DEF NameInv
<1> QED
  BY <1>1, <1>2, <1>3, <1>4, <1>5, <1>6 DEF QN!Next, qn_vars, QN!vars

LEMMA NameAlways == Spec => []NameInv
<1>1. Init => NameInv
  BY NameInit DEF Init
<1>2. NameInv /\ [Next]_vars => NameInv'
  BY IpcSteps, NameStep
<1> QED
  BY <1>1, <1>2, PTL DEF Spec

\* When neither process of the intersection's and the controller's pair runs there
\* is no queue name left that nobody was killed over.
THEOREM NamesCleanedUp == Spec => []NothingLeftBehind
<1>1. NameInv => NothingLeftBehind
  BY DEF NameInv, NamesOwed, Owes, NothingLeftBehind, QN!NothingLeftBehind, QN!Down, QN!Running,
         QN!Queueless
<1> QED
  BY <1>1, NameAlways, PTL

\* Two processes that both came up since neither ran, with nothing cleaned up in
\* between, hold the same two queues.
THEOREM SameQueues == Spec => []StartedTogetherJoined
<1>1. NameInv => StartedTogetherJoined
  <2> SUFFICES ASSUME NameInv, \A p \in QN!Processes : qn_stage[p] = QN!Running, ~qn_cleaned
               PROVE  qn_held["intersection"] = qn_held["controller"]
    BY DEF StartedTogetherJoined, QN!StartedTogetherJoined
  <2>1. \A p \in QN!Processes, k \in QN!Kinds : qn_held[p][k] = qn_named[k]
    BY DEF NameInv, NameTypes, StageTypes, HeldIsNamed, QN!Down, QN!Running
  <2>2. /\ qn_held["intersection"] \in [QN!Kinds -> 0..MaxQueues]
        /\ qn_held["controller"] \in [QN!Kinds -> 0..MaxQueues]
        /\ \A k \in QN!Kinds : qn_held["intersection"][k] = qn_held["controller"][k]
    BY <2>1 DEF NameInv, NameTypes, NumberTypes, QN!Processes
  <2> QED
    BY <2>2
<1> QED
  BY <1>1, NameAlways, PTL

-------------------------------------------------------------------------------
\* Shared memory. A creator works on the object it has made; until it has put
\* the mutex there, no user has locked anything but raw memory; and half a text
\* is there only while its creator has the mutex, or was killed with it.

Working == {"created", "sized", "initialised", "locked", "writing", "written", "unlocked"}
Places == Working \cup SM!Ended \cup {"start", "opened", "locking", "inside", "has_read"}

SharedTypes == SM!TypeOK /\ sm_at \in [SM!Processes -> Places]

OwnObject ==
  \A c \in Creators :
    /\ sm_maps[c] \in {SM!Nothing, c}
    /\ sm_at[c] \in Working => sm_maps[c] = c

HalfIsLocked ==
  \A c \in Creators :
    /\ sm_at[c] \in {"locked", "writing", "written"} => sm_mutex[c] = c
    /\ sm_text[c] = "half" => sm_mutex[c] = c /\ sm_at[c] \in {"writing", "killed"}

NotYetProper ==
  \A c \in Creators :
    sm_at[c] \in {"start", "created", "sized"} =>
      /\ sm_mutex[c] # "free"
      /\ \A u \in Users : sm_maps[u] = c => ~sm_proper[u]

UserPlaces ==
  \A u \in Users :
    /\ sm_at[u] \in {"start", "opened", "locking"} => ~sm_proper[u]
    /\ sm_at[u] \in {"start", "opened", "locking", "inside"} => sm_read[u] = SM!Nothing
    /\ sm_at[u] \in {"opened", "locking", "inside", "has_read"} => sm_maps[u] \in Creators
    /\ sm_at[u] = "inside" /\ sm_proper[u] => sm_mutex[sm_maps[u]] = u

SharedInv ==
  /\ SharedTypes /\ OwnObject /\ HalfIsLocked /\ NotYetProper /\ UserPlaces
  /\ SM!LockedReadsWhole

LEMMA SharedInit == SM!Init => SharedInv
<1> SUFFICES ASSUME SM!Init PROVE SharedInv
  OBVIOUS
<1> USE SharedMemoryAssumption DEF SM!Init, SM!Processes, SM!Nothing
<1>1. SharedTypes
  BY DEF SharedTypes, SM!TypeOK, Places
<1>2. OwnObject /\ HalfIsLocked /\ NotYetProper /\ UserPlaces
  BY DEF OwnObject, Working, HalfIsLocked, NotYetProper, UserPlaces
<1> QED
  BY <1>1, <1>2 DEF SharedInv, SM!LockedReadsWhole

LEMMA CreatorStep ==
  ASSUME SharedInv, NEW c \in Creators, SM!Creator(c)
  PROVE  SharedInv'
<1> USE SharedMemoryAssumption DEF SharedInv, SharedTypes, SM!TypeOK, SM!Processes, SM!Nothing, SM!Goto
<1>1. c \notin Users /\ c \notin {"raw", "free", "nothing"}
  OBVIOUS
<1>2. CASE SM!Create(c)
  <2>1. SharedTypes'
    BY <1>2 DEF SM!Create, Places, Working, SM!Ended
  <2>2. OwnObject' /\ HalfIsLocked' /\ NotYetProper' /\ UserPlaces'
    BY <1>1, <1>2 DEF SM!Create, OwnObject, Working, HalfIsLocked, NotYetProper, UserPlaces
  <2> QED
    BY <1>2, <2>1, <2>2 DEF SM!Create, SM!LockedReadsWhole
<1>3. CASE SM!Truncate(c)
  <2>1. SharedTypes'
    BY <1>3 DEF SM!Truncate, Places, Working, SM!Ended
  <2>2. OwnObject' /\ HalfIsLocked' /\ NotYetProper' /\ UserPlaces'
    BY <1>1, <1>3 DEF SM!Truncate, OwnObject, Working, HalfIsLocked, NotYetProper, UserPlaces
  <2> QED
    BY <1>3, <2>1, <2>2 DEF SM!Truncate, SM!LockedReadsWhole
<1>4. CASE SM!InitMutex(c)
  <2>1. sm_maps[c] = c
    BY <1>4 DEF SM!InitMutex, OwnObject, Working
  <2>2. SharedTypes'
    BY <1>4 DEF SM!InitMutex, Places, Working, SM!Ended
  <2>3. OwnObject' /\ HalfIsLocked' /\ NotYetProper'
    BY <1>1, <1>4, <2>1 DEF SM!InitMutex, OwnObject, Working, HalfIsLocked, NotYetProper
  <2>4. UserPlaces'
    BY <1>1, <1>4, <2>1 DEF SM!InitMutex, NotYetProper, UserPlaces
  <2> QED
    BY <1>4, <2>2, <2>3, <2>4 DEF SM!InitMutex, SM!LockedReadsWhole
<1>5. CASE SM!CreatorLock(c)
  <2>1. sm_maps[c] = c
    BY <1>5 DEF SM!CreatorLock, OwnObject, Working
  <2>2. SharedTypes'
    BY <1>5 DEF SM!CreatorLock, Places, Working, SM!Ended
  <2>3. OwnObject' /\ HalfIsLocked' /\ NotYetProper'
    BY <1>1, <1>5, <2>1 DEF SM!CreatorLock, OwnObject, Working, HalfIsLocked, NotYetProper
  <2>4. UserPlaces'
    BY <1>1, <1>5, <2>1 DEF SM!CreatorLock, UserPlaces
  <2> QED
    BY <1>5, <2>2, <2>3, <2>4 DEF SM!CreatorLock, SM!LockedReadsWhole
<1>6. CASE SM!BeginText(c)
  <2>1. sm_maps[c] = c
    BY <1>6 DEF SM!BeginText, OwnObject, Working
  <2>2. SharedTypes'
    BY <1>6 DEF SM!BeginText, Places, Working, SM!Ended
  <2>3. OwnObject' /\ HalfIsLocked' /\ NotYetProper' /\ UserPlaces'
    BY <1>1, <1>6, <2>1 DEF SM!BeginText, OwnObject, Working, HalfIsLocked, NotYetProper, UserPlaces
  <2> QED
    BY <1>6, <2>2, <2>3 DEF SM!BeginText, SM!LockedReadsWhole
<1>7. CASE SM!EndText(c)
  <2>1. sm_maps[c] = c
    BY <1>7 DEF SM!EndText, OwnObject, Working
  <2>2. SharedTypes'
    BY <1>7 DEF SM!EndText, Places, Working, SM!Ended
  <2>3. OwnObject' /\ HalfIsLocked' /\ NotYetProper' /\ UserPlaces'
    BY <1>1, <1>7, <2>1 DEF SM!EndText, OwnObject, Working, HalfIsLocked, NotYetProper, UserPlaces
  <2> QED
    BY <1>7, <2>2, <2>3 DEF SM!EndText, SM!LockedReadsWhole
<1>8. CASE SM!CreatorUnlock(c)
  <2>1. sm_maps[c] = c
    BY <1>8 DEF SM!CreatorUnlock, OwnObject, Working
  <2>2. SharedTypes'
    BY <1>8 DEF SM!CreatorUnlock, Places, Working, SM!Ended
  <2>3. OwnObject' /\ HalfIsLocked' /\ NotYetProper'
    BY <1>1, <1>8, <2>1 DEF SM!CreatorUnlock, OwnObject, Working, HalfIsLocked, NotYetProper
  <2>4. UserPlaces'
    BY <1>1, <1>8, <2>1 DEF SM!CreatorUnlock, UserPlaces
  <2> QED
    BY <1>8, <2>2, <2>3, <2>4 DEF SM!CreatorUnlock, SM!LockedReadsWhole
<1>9. CASE SM!Unlink(c)
  <2>1. SharedTypes'
    BY <1>9 DEF SM!Unlink, Places, Working, SM!Ended
  <2>2. OwnObject' /\ HalfIsLocked' /\ NotYetProper' /\ UserPlaces'
    BY <1>1, <1>9 DEF SM!Unlink, OwnObject, Working, HalfIsLocked, NotYetProper, UserPlaces
  <2> QED
    BY <1>9, <2>1, <2>2 DEF SM!Unlink, SM!LockedReadsWhole
<1> QED
  BY <1>2, <1>3, <1>4, <1>5, <1>6, <1>7, <1>8, <1>9 DEF SM!Creator

LEMMA UserStep ==
  ASSUME SharedInv, NEW u \in Users, SM!User(u)
  PROVE  SharedInv'
<1> USE SharedMemoryAssumption DEF SharedInv, SharedTypes, SM!TypeOK, SM!Processes, SM!Nothing, SM!Goto
<1>1. u \notin Creators /\ u \notin {"raw", "free", "nothing"}
  OBVIOUS
<1>2. CASE SM!Open(u)
  <2>1. SharedTypes'
    BY <1>2 DEF SM!Open, Places, Working, SM!Ended
  <2>2. OwnObject' /\ HalfIsLocked' /\ NotYetProper' /\ UserPlaces'
    BY <1>1, <1>2 DEF SM!Open, OwnObject, Working, HalfIsLocked, NotYetProper, UserPlaces
  <2> QED
    BY <1>2, <2>1, <2>2 DEF SM!Open, SM!LockedReadsWhole
<1>3. CASE SM!Map(u)
  <2>1. SharedTypes'
    BY <1>3 DEF SM!Map, Places, Working, SM!Ended, SM!Dead
  <2>2. OwnObject' /\ HalfIsLocked' /\ NotYetProper' /\ UserPlaces'
    BY <1>1, <1>3 DEF SM!Map, OwnObject, Working, HalfIsLocked, NotYetProper, UserPlaces
  <2> QED
    BY <1>3, <2>1, <2>2 DEF SM!Map, SM!LockedReadsWhole
<1>4. CASE SM!UserLock(u)
  <2> DEFINE o == sm_maps[u]
  <2>1. /\ o \in Creators /\ sm_mutex[o] \in {"raw", "free"} /\ sm_at[u] = "locking"
        /\ sm_read[u] = SM!Nothing
    BY <1>4 DEF SM!UserLock, UserPlaces
  <2>2. /\ sm_mutex' = [sm_mutex EXCEPT ![o] = u] \/ (sm_mutex[o] = "raw" /\ sm_mutex' = sm_mutex)
        /\ sm_proper' = [sm_proper EXCEPT ![u] = sm_mutex[o] = "free"]
        /\ sm_at' = [sm_at EXCEPT ![u] = "inside"]
        /\ UNCHANGED <<sm_name, sm_sized, sm_text, sm_maps, sm_read>>
    BY <1>4 DEF SM!UserLock
  <2> HIDE DEF o
  <2>3. SharedTypes'
    BY <2>1, <2>2 DEF Places, Working, SM!Ended
  <2>4. OwnObject'
    BY <1>1, <2>2 DEF OwnObject, Working
  <2>5. HalfIsLocked'
    BY <1>1, <2>1, <2>2 DEF HalfIsLocked
  <2>6. NotYetProper'
    BY <1>1, <2>1, <2>2 DEF NotYetProper, o
  <2>7. UserPlaces'
    BY <1>1, <2>1, <2>2 DEF UserPlaces, o
  <2>8. SM!LockedReadsWhole'
    BY <2>1, <2>2 DEF SM!LockedReadsWhole
  <2> QED
    BY <2>3, <2>4, <2>5, <2>6, <2>7, <2>8
<1>5. CASE SM!Read(u)
  <2>1. /\ sm_maps[u] \in Creators /\ sm_at[u] = "inside"
        /\ sm_proper[u] => sm_mutex[sm_maps[u]] = u
    BY <1>5 DEF SM!Read, UserPlaces
  <2>2. sm_proper[u] => sm_text[sm_maps[u]] # "half"
    BY <1>1, <2>1 DEF HalfIsLocked
  <2>3. SharedTypes'
    BY <1>5, <2>1 DEF SM!Read, Places, Working, SM!Ended
  <2>4. OwnObject' /\ HalfIsLocked' /\ NotYetProper' /\ UserPlaces'
    BY <1>1, <1>5 DEF SM!Read, OwnObject, Working, HalfIsLocked, NotYetProper, UserPlaces
  <2>5. SM!LockedReadsWhole'
    BY <1>5, <2>2 DEF SM!Read, SM!LockedReadsWhole
  <2> QED
    BY <2>3, <2>4, <2>5
<1>6. CASE SM!UserUnlock(u)
  <2> DEFINE o == sm_maps[u]
  <2>1. o \in Creators /\ sm_at[u] = "has_read"
    BY <1>6 DEF SM!UserUnlock, UserPlaces
  <2>2. /\ \/ sm_mutex' = sm_mutex
           \/ /\ sm_mutex[o] = u
              /\ sm_mutex' = [sm_mutex EXCEPT ![o] = IF sm_proper[u] THEN "free" ELSE "raw"]
        /\ sm_at' = [sm_at EXCEPT ![u] = "done"]
        /\ UNCHANGED <<sm_name, sm_sized, sm_text, sm_maps, sm_read, sm_proper>>
    BY <1>6, <2>1 DEF SM!UserUnlock
  <2> HIDE DEF o
  <2>3. SharedTypes'
    BY <2>1, <2>2 DEF Places, Working, SM!Ended
  <2>4. OwnObject'
    BY <1>1, <2>2 DEF OwnObject, Working
  <2>5. HalfIsLocked'
    BY <1>1, <2>1, <2>2 DEF HalfIsLocked
  <2>6. NotYetProper'
    BY <1>1, <2>1, <2>2 DEF NotYetProper, o
  <2>7. UserPlaces'
    BY <1>1, <2>1, <2>2 DEF UserPlaces, o
  <2>8. SM!LockedReadsWhole'
    BY <2>2 DEF SM!LockedReadsWhole
  <2> QED
    BY <2>3, <2>4, <2>5, <2>6, <2>7, <2>8
<1> QED
  BY <1>2, <1>3, <1>4, <1>5, <1>6 DEF SM!User

LEMMA SharedStep == SharedInv /\ [SM!Next]_sm_vars => SharedInv'
<1> SUFFICES ASSUME SharedInv, [SM!Next]_sm_vars PROVE SharedInv'
  OBVIOUS
<1>1. ASSUME NEW c \in Creators, SM!Creator(c) PROVE SharedInv'
  BY <1>1, CreatorStep
<1>2. ASSUME NEW u \in Users, SM!User(u) PROVE SharedInv'
  BY <1>2, UserStep
<1>3. CASE SM!RemoveByHand
  BY <1>3 DEF SM!RemoveByHand, SharedInv, SharedTypes, SM!TypeOK, OwnObject, HalfIsLocked, NotYetProper,
     UserPlaces, SM!LockedReadsWhole
<1>4. ASSUME NEW p \in SM!Processes, SM!Kill(p) PROVE SharedInv'
  <2>1. /\ UNCHANGED <<sm_name, sm_sized, sm_mutex, sm_text, sm_maps, sm_read, sm_proper>>
        /\ sm_at' = [sm_at EXCEPT ![p] = "killed"] /\ "killed" \in Places
    BY <1>4 DEF SM!Kill, SM!Goto, Places, SM!Ended, SM!Dead
  <2>2. /\ sm_at' \in [SM!Processes -> Places]
        /\ \A q \in SM!Processes : sm_at'[q] = IF q = p THEN "killed" ELSE sm_at[q]
    BY <2>1 DEF SharedInv, SharedTypes
  <2>3. Creators \subseteq SM!Processes /\ Users \subseteq SM!Processes
    BY DEF SM!Processes
  <2>4. SharedTypes'
    BY <2>1, <2>2 DEF SharedInv, SharedTypes, SM!TypeOK
  <2>5. OwnObject' /\ HalfIsLocked' /\ NotYetProper' /\ UserPlaces'
    BY <2>1, <2>2, <2>3
    DEF SharedInv, OwnObject, Working, HalfIsLocked, NotYetProper, UserPlaces
  <2> QED
    BY <2>1, <2>4, <2>5 DEF SharedInv, SM!LockedReadsWhole
<1>5. CASE UNCHANGED sm_vars
  BY <1>5 DEF sm_vars, SharedInv, SharedTypes, SM!TypeOK, OwnObject, HalfIsLocked, NotYetProper,
     UserPlaces, SM!LockedReadsWhole
<1> QED
  BY <1>1, <1>2, <1>3, <1>4, <1>5 DEF SM!Next, sm_vars, SM!vars

LEMMA SharedAlways == Spec => []SharedInv
<1>1. Init => SharedInv
  BY SharedInit DEF Init
<1>2. SharedInv /\ [Next]_vars => SharedInv'
  BY IpcSteps, SharedStep
<1> QED
  BY <1>1, <1>2, PTL DEF Spec

\* A user that locked a mutex, and not raw memory, never reads half a text,
\* whatever runs of the creator follow each other and whoever is killed.
THEOREM LockedUsersReadWhole == Spec => []LockedReadsWhole
<1>1. SharedInv => LockedReadsWhole
  BY DEF SharedInv, LockedReadsWhole
<1> QED
  BY <1>1, SharedAlways, PTL
===============================================================================
