--------------------------- MODULE TimedServerProofs ---------------------------
(*****************************************************************************)
(* Proofs about TimedServer, for any clients, table size and timeout.        *)
(*****************************************************************************)
EXTENDS TimedServer, FiniteSetTheorems, WellFoundedInduction, TLAPS

\* Pulses seen and pulses left add up to the timeout; others have seen none.
AgesAgree ==
  /\ \A i \in InUse : waited[clients[i].rcvid] + clients[i].timeout = TIMEOUT
  /\ \A c \in Clients \ Waiting : waited[c] = 0

\* A client that is SEND-blocked has had no answer to what it sent.
Answered == \A c \in Clients : state[c] \in Types => answer[c] = NoAnswer

\* SlotsBlock is inductive because who is running or SEND-blocked is in no slot;
\* the ages bound what the history counts.
TableInv == TypeOK /\ SlotsBlock /\ AgesAgree /\ Answered

SlotRecords == [in_use : BOOLEAN, rcvid : Clients \cup {0}, timeout : 0..TIMEOUT]

-------------------------------------------------------------------------------
\* The loop over the table takes the first slot that qualifies.
LEMMA FirstSlot ==
  ASSUME NEW S \in SUBSET Slots, S # {}
  PROVE  First(S) \in S
<1> DEFINE Less == {p \in Nat \X Nat : p[1] < p[2]}
<1>1. S \subseteq Nat
  BY TimedServerAssumption DEF Slots
<1>2. IsWellFoundedOn(Less, Nat)
  BY NatLessThanWellFounded DEF OpToRel
<1>3. \E i \in S : \A j \in S : ~(<<j, i>> \in Less)
  BY <1>1, <1>2, WFMin
<1>4. PICK i \in S : \A j \in S : ~(<<j, i>> \in Less)
  BY <1>3
<1>5. ASSUME NEW j \in S PROVE i <= j
  <2>1. i \in Nat /\ j \in Nat
    BY <1>1
  <2>2. j < i => <<j, i>> \in Less
    BY <2>1
  <2> HIDE DEF Less
  <2> QED
    BY <1>4, <2>1, <2>2
<1> QED
  BY <1>5 DEF First

\* What a slot in use holds.
LEMMA SlotType ==
  ASSUME TypeOK, NEW i \in Slots
  PROVE  /\ i \in InUse => clients[i].rcvid \in Clients /\ clients[i].timeout \in 1..TIMEOUT
         /\ i \notin InUse => clients[i] = Unused
BY TimedServerAssumption DEF TypeOK, InUse

\* A reply changes the state and the answer of clients only, and keeps them typed.
LEMMA ReplyType ==
  ASSUME TypeOK, NEW C, NEW a \in Answers, Reply(C, a)
  PROVE  /\ state' \in [Clients -> {"running", "reply", "dead"} \cup Types]
         /\ answer' \in [Clients -> Answers]
BY DEF TypeOK, Reply

-------------------------------------------------------------------------------
\* The table, seen as a function of the clients, through each kind of change.

\* gotAPulse: the slots that do not expire stay, one pulse older.
LEMMA PulseTable ==
  ASSUME TableInv, gotAPulse
  PROVE  /\ InUse' = InUse \ Expired
         /\ \A i \in InUse' : /\ clients'[i].rcvid = clients[i].rcvid
                              /\ clients'[i].timeout = clients[i].timeout - 1
                              /\ clients'[i].timeout # 0
                              /\ clients'[i] \in SlotRecords
         /\ \A i \in Slots \ InUse' : clients'[i] = Unused
         /\ Waiting' = Waiting \ {clients[i].rcvid : i \in Expired}
<1>0. TypeOK /\ SlotsBlock
  BY DEF TableInv
<1>1. Expired \subseteq InUse /\ InUse \subseteq Slots
  BY DEF Expired, InUse
<1>2. ASSUME NEW i \in InUse \ Expired
      PROVE  /\ clients'[i].in_use
             /\ clients'[i].rcvid = clients[i].rcvid
             /\ clients'[i].timeout = clients[i].timeout - 1
             /\ clients'[i].timeout # 0
             /\ clients'[i] \in SlotRecords
  <2>1. clients[i] \in SlotRecords /\ clients[i].in_use
    BY <1>0, <1>1 DEF TypeOK, InUse, SlotRecords
  <2>2. clients'[i] = [clients[i] EXCEPT !.timeout = clients[i].timeout - 1]
    BY <1>1 DEF gotAPulse
  <2>3. clients[i].timeout # 0 /\ clients[i].timeout - 1 # 0
    BY <1>0, <1>1 DEF Expired, TypeOK, InUse
  <2> QED
    BY <2>1, <2>2, <2>3, TimedServerAssumption DEF SlotRecords
<1>3. ASSUME NEW i \in Slots, i \notin InUse \ Expired PROVE clients'[i] = Unused
  BY <1>3 DEF gotAPulse
<1>4. InUse' = InUse \ Expired
  BY <1>1, <1>2, <1>3 DEF InUse, Unused
<1>5. Waiting' = {clients[i].rcvid : i \in InUse \ Expired}
  BY <1>2, <1>4 DEF Waiting
<1>6. \A i, j \in InUse : clients[i].rcvid = clients[j].rcvid => i = j
  BY <1>0 DEF SlotsBlock
<1>7. Waiting' = Waiting \ {clients[i].rcvid : i \in Expired}
  BY <1>1, <1>5, <1>6 DEF Waiting
<1> QED
  BY <1>2, <1>3, <1>4, <1>7

\* MT_WAIT_DATA: one slot more, for a client that was in none.
LEMMA WaitTable ==
  ASSUME TableInv, NEW c \in Clients, WaitData(c)
  PROVE  \E i \in Slots \ InUse :
           /\ clients' = [clients EXCEPT ![i] = [in_use |-> TRUE, rcvid |-> c, timeout |-> TIMEOUT]]
           /\ InUse' = InUse \cup {i}
           /\ Waiting' = Waiting \cup {c}
           /\ c \notin Waiting
<1> DEFINE i == First(Slots \ InUse)
<1>1. i \in Slots \ InUse
  BY FirstSlot DEF WaitData, InUse
<1>2. clients' = [clients EXCEPT ![i] = [in_use |-> TRUE, rcvid |-> c, timeout |-> TIMEOUT]]
  BY DEF WaitData
<1>3. clients \in [Slots -> SlotRecords]
  BY DEF TableInv, TypeOK, SlotRecords
<1> HIDE DEF i
<1>4. InUse' = InUse \cup {i}
  BY <1>1, <1>2, <1>3 DEF InUse
<1>5. Waiting' = Waiting \cup {c}
  BY <1>1, <1>2, <1>3, <1>4 DEF Waiting, InUse
<1>6. c \notin Waiting
  BY DEF TableInv, SlotsBlock, WaitData
<1> QED
  BY <1>1, <1>2, <1>4, <1>5, <1>6

\* MT_SEND_DATA: one slot less, and its client waits no longer.
LEMMA SendTable ==
  ASSUME TableInv, NEW c \in Clients, SendData(c)
  PROVE  \E i \in InUse :
           /\ clients' = [clients EXCEPT ![i] = Unused]
           /\ InUse' = InUse \ {i}
           /\ Waiting' = Waiting \ {clients[i].rcvid}
           /\ Reply({clients[i].rcvid, c}, Data(c))
           /\ waited' = [waited EXCEPT ![clients[i].rcvid] = 0]
<1> DEFINE i == First(InUse)
<1>1. i \in InUse /\ i \in Slots
  BY FirstSlot DEF SendData, InUse
<1>2. /\ clients' = [clients EXCEPT ![i] = Unused]
      /\ Reply({clients[i].rcvid, c}, Data(c))
      /\ waited' = [waited EXCEPT ![clients[i].rcvid] = 0]
  BY DEF SendData
<1>3. clients \in [Slots -> SlotRecords]
  BY DEF TableInv, TypeOK, SlotRecords
<1> HIDE DEF i
<1>4. InUse' = InUse \ {i}
  BY <1>1, <1>2, <1>3 DEF InUse, Unused
<1>5. Waiting' = {clients[j].rcvid : j \in InUse \ {i}}
  BY <1>1, <1>2, <1>3, <1>4 DEF Waiting, InUse
<1>6. \A j, k \in InUse : clients[j].rcvid = clients[k].rcvid => j = k
  BY DEF TableInv, SlotsBlock
<1>7. Waiting' = Waiting \ {clients[i].rcvid}
  BY <1>1, <1>5, <1>6 DEF Waiting
<1> QED
  BY <1>1, <1>2, <1>4, <1>7
-------------------------------------------------------------------------------
\* The table is well-formed after every step of the server, the clients and the
\* timer: its slots stand for different clients, each still blocked or dead.
LEMMA TableInvariant == Spec => []TableInv
<1>1. Init => TableInv
  BY TimedServerAssumption DEF Init, TableInv, TypeOK, SlotsBlock, AgesAgree, Answered, InUse, Waiting,
     Unused, Answers
<1>2. ASSUME TableInv, [Next]_vars PROVE TableInv'
  <2>1. ASSUME NEW c \in Clients, NEW type \in Types, Send(c, type) PROVE TableInv'
    BY <1>2, <2>1 DEF TableInv, TypeOK, SlotsBlock, AgesAgree, Answered, InUse, Waiting, Send, Answers, Types
  <2>2. ASSUME NEW c \in Clients, Die(c) PROVE TableInv'
    BY <1>2, <2>2 DEF TableInv, TypeOK, SlotsBlock, AgesAgree, Answered, InUse, Waiting, Die, Answers
  <2>3. CASE Fire
    BY <1>2, <2>3, TimedServerAssumption
    DEF TableInv, TypeOK, SlotsBlock, AgesAgree, Answered, InUse, Waiting, Fire
  <2>4. CASE gotAPulse
    <3> DEFINE late == {clients[i].rcvid : i \in Expired}
    <3>1. /\ InUse' = InUse \ Expired
          /\ \A i \in InUse' : /\ clients'[i].rcvid = clients[i].rcvid
                               /\ clients'[i].timeout = clients[i].timeout - 1
                               /\ clients'[i].timeout # 0
                               /\ clients'[i] \in SlotRecords
          /\ \A i \in Slots \ InUse' : clients'[i] = Unused
          /\ Waiting' = Waiting \ late
      BY <1>2, <2>4, PulseTable
    <3>2. /\ Reply(late, TimedOut) /\ pulses' = pulses - 1 /\ pulses > 0
          /\ waited' = [c \in Clients |-> IF c \in Waiting' THEN waited[c] + 1 ELSE 0]
          /\ clients' = [i \in Slots |-> clients'[i]]
      BY <2>4 DEF gotAPulse
    <3>3. TypeOK /\ SlotsBlock /\ AgesAgree /\ Answered /\ InUse \subseteq Slots
      BY <1>2 DEF TableInv, InUse
    <3> HIDE DEF late
    <3>4. \A i \in InUse : clients[i].rcvid \in Clients /\ clients[i].timeout \in 1..TIMEOUT
      BY <3>3, SlotType
    <3>5. ASSUME NEW i \in InUse' PROVE waited'[clients'[i].rcvid] + clients'[i].timeout = TIMEOUT
      <4>1. i \in InUse /\ clients[i].rcvid \in Waiting'
        BY <3>1 DEF Waiting
      <4>2. waited[clients[i].rcvid] \in Nat /\ clients[i].rcvid \in Clients
        BY <3>3, <3>4, <4>1, TimedServerAssumption DEF TypeOK
      <4> QED
        BY <3>1, <3>2, <3>3, <3>4, <4>1, <4>2, TimedServerAssumption DEF AgesAgree
    <3>6. AgesAgree'
      BY <3>2, <3>5 DEF AgesAgree
    <3>7. SlotsBlock'
      <4>1. \A i, j \in InUse' : clients'[i].rcvid = clients'[j].rcvid => i = j
        BY <3>1, <3>3 DEF SlotsBlock
      <4>2. ASSUME NEW c \in Waiting' PROVE state'[c] \in {"reply", "dead"} /\ answer'[c] = NoAnswer
        <5>1. c \in Clients /\ c \in Waiting /\ c \notin late
          BY <3>1, <3>4 DEF Waiting
        <5> QED
          BY <3>2, <3>3, <5>1 DEF Reply, SlotsBlock
      <4> QED
        BY <4>1, <4>2 DEF SlotsBlock
    <3>8. TypeOK'
      <4>1. state' \in [Clients -> {"running", "reply", "dead"} \cup Types] /\ answer' \in [Clients -> Answers]
        BY <3>2, <3>3, ReplyType DEF Answers
      <4>2. pulses' \in 0..MaxPulses
        BY <3>2, <3>3, TimedServerAssumption DEF TypeOK
      <4>3. clients' \in [Slots -> SlotRecords]
        <5>1. Unused \in SlotRecords
          BY TimedServerAssumption DEF Unused, SlotRecords
        <5>2. \A i \in Slots : clients'[i] \in SlotRecords
          BY <3>1, <5>1
        <5> QED
          BY <3>2, <5>2
      <4>4. ASSUME NEW i \in Slots
            PROVE  IF clients'[i].in_use
                   THEN clients'[i].rcvid # 0 /\ clients'[i].timeout # 0 ELSE clients'[i] = Unused
        <5>1. CASE i \in InUse'
          BY <3>1, <3>4, <5>1, TimedServerAssumption DEF InUse
        <5>2. CASE i \notin InUse'
          BY <3>1, <5>2 DEF InUse
        <5> QED
          BY <5>1, <5>2
      <4>5. ASSUME NEW c \in Clients PROVE waited'[c] \in 0..(TIMEOUT - 1)
        <5>1. CASE c \in Waiting'
          <6>1. PICK i \in InUse' : clients'[i].rcvid = c
            BY <5>1 DEF Waiting
          <6>2. waited'[c] = waited[c] + 1 /\ waited[c] \in Nat
            BY <3>2, <3>3, <5>1, TimedServerAssumption DEF TypeOK
          <6>3. clients'[i].timeout \in Nat \ {0}
            BY <3>1, <6>1 DEF SlotRecords
          <6> QED
            BY <3>5, <6>1, <6>2, <6>3, TimedServerAssumption
        <5>2. CASE c \notin Waiting'
          BY <3>2, <5>2, TimedServerAssumption
        <5> QED
          BY <5>1, <5>2
      <4> QED
        BY <3>2, <4>1, <4>2, <4>3, <4>4, <4>5 DEF TypeOK, SlotRecords
    <3>9. Answered'
      BY <3>2, <3>3 DEF Reply, Answered, TypeOK, Types
    <3> QED
      BY <3>6, <3>7, <3>8, <3>9 DEF TableInv
  <2>5. ASSUME NEW c \in Clients, WaitData(c) PROVE TableInv'
    <3>1. PICK i \in Slots \ InUse :
            /\ clients' = [clients EXCEPT ![i] = [in_use |-> TRUE, rcvid |-> c, timeout |-> TIMEOUT]]
            /\ InUse' = InUse \cup {i}
            /\ Waiting' = Waiting \cup {c}
            /\ c \notin Waiting
      BY <1>2, <2>5, WaitTable
    <3>2. /\ state[c] = "MT_WAIT_DATA" /\ state' = [state EXCEPT ![c] = "reply"]
          /\ UNCHANGED <<answer, pulses, waited>>
      BY <2>5 DEF WaitData
    <3>3. TypeOK /\ SlotsBlock /\ AgesAgree /\ Answered /\ InUse \subseteq Slots
      BY <1>2 DEF TableInv, InUse
    <3>4. TypeOK'
      BY <3>1, <3>2, <3>3, TimedServerAssumption DEF TypeOK
    <3>5. AgesAgree'
      BY <3>1, <3>2, <3>3, TimedServerAssumption DEF AgesAgree, TypeOK
    <3>6. SlotsBlock'
      <4>1. \A j \in InUse : clients[j].rcvid \in Waiting
        BY DEF Waiting
      <4>2. \A j, k \in InUse' : clients'[j].rcvid = clients'[k].rcvid => j = k
        BY <3>1, <3>3, <4>1 DEF SlotsBlock, TypeOK
      <4>3. answer[c] = NoAnswer
        BY <3>2, <3>3 DEF Answered, Types
      <4>4. \A d \in Waiting' : state'[d] \in {"reply", "dead"} /\ answer'[d] = NoAnswer
        BY <3>1, <3>2, <3>3, <4>3 DEF SlotsBlock, TypeOK
      <4> QED
        BY <4>2, <4>4 DEF SlotsBlock
    <3>7. Answered'
      BY <3>1, <3>2, <3>3 DEF Reply, Answered, TypeOK, Types
    <3> QED
      BY <3>4, <3>5, <3>6, <3>7 DEF TableInv
  <2>6. ASSUME NEW c \in Clients, SendData(c) PROVE TableInv'
    <3>1. PICK i \in InUse :
            /\ clients' = [clients EXCEPT ![i] = Unused]
            /\ InUse' = InUse \ {i}
            /\ Waiting' = Waiting \ {clients[i].rcvid}
            /\ Reply({clients[i].rcvid, c}, Data(c))
            /\ waited' = [waited EXCEPT ![clients[i].rcvid] = 0]
      BY <1>2, <2>6, SendTable
    <3>2. pulses' = pulses /\ state[c] = "MT_SEND_DATA"
      BY <2>6 DEF SendData
    <3>3. TypeOK /\ SlotsBlock /\ AgesAgree /\ Answered /\ InUse \subseteq Slots
      BY <1>2 DEF TableInv, InUse
    <3>4. TypeOK'
      <4>1. state' \in [Clients -> {"running", "reply", "dead"} \cup Types] /\ answer' \in [Clients -> Answers]
        BY <3>1, <3>3, ReplyType DEF Answers
      <4> QED
        <5>1. clients' \in [Slots -> SlotRecords]
          BY <3>1, <3>3, TimedServerAssumption DEF TypeOK, Unused, SlotRecords
        <5>2. \A j \in Slots : IF clients'[j].in_use
                              THEN clients'[j].rcvid # 0 /\ clients'[j].timeout # 0
                              ELSE clients'[j] = Unused
          <6>1. \A j \in Slots : clients'[j] = IF j = i THEN Unused ELSE clients[j]
            BY <3>1, <3>3 DEF TypeOK
          <6>2. Unused.in_use = FALSE
            BY DEF Unused
          <6> QED
            BY <3>3, <6>1, <6>2 DEF TypeOK
        <5>3. waited' \in [Clients -> 0..(TIMEOUT - 1)]
          <6>1. 0 \in 0..(TIMEOUT - 1)
            BY TimedServerAssumption
          <6>2. waited \in [Clients -> 0..(TIMEOUT - 1)]
            BY <3>3 DEF TypeOK
          <6> QED
            BY <3>1, <6>1, <6>2
        <5> QED
          BY <3>2, <3>3, <4>1, <5>1, <5>2, <5>3 DEF TypeOK, SlotRecords
    <3>5. AgesAgree'
      BY <3>1, <3>2, <3>3, TimedServerAssumption DEF AgesAgree, TypeOK, Waiting, SlotsBlock
    <3>6. SlotsBlock'
      <4>1. \A j, k \in InUse' : clients'[j].rcvid = clients'[k].rcvid => j = k
        BY <3>1, <3>3 DEF SlotsBlock, TypeOK
      <4>2. c \notin Waiting
        BY <3>2, <3>3 DEF SlotsBlock
      <4>3. ASSUME NEW d \in Waiting' PROVE state'[d] \in {"reply", "dead"} /\ answer'[d] = NoAnswer
        <5>1. d \in Waiting /\ d # clients[i].rcvid /\ d # c
          BY <3>1, <4>2
        <5>2. d \in Clients
          BY <3>3, <5>1, SlotType DEF Waiting
        <5> QED
          BY <3>1, <3>3, <5>1, <5>2 DEF Reply, SlotsBlock
      <4> QED
        BY <4>1, <4>3 DEF SlotsBlock
    <3>7. Answered'
      BY <3>1, <3>2, <3>3 DEF Reply, Answered, TypeOK, Types
    <3> QED
      BY <3>4, <3>5, <3>6, <3>7 DEF TableInv
  <2>7. ASSUME NEW c \in Clients, Ignore(c) PROVE TableInv'
    BY <1>2, <2>7 DEF TableInv, TypeOK, SlotsBlock, AgesAgree, Answered, InUse, Waiting, Ignore, Types
  <2>8. CASE UNCHANGED vars
    BY <1>2, <2>8 DEF TableInv, TypeOK, SlotsBlock, AgesAgree, Answered, InUse, Waiting, vars
  <2> QED
    BY <1>2, <2>1, <2>2, <2>3, <2>4, <2>5, <2>6, <2>7, <2>8 DEF Next, gotAMessage
<1> QED
  BY <1>1, <1>2, PTL DEF Spec

\* The client table and the clients' states keep their types.
THEOREM ServerTyped == Spec => []TypeOK
<1>1. TableInv => TypeOK
  BY DEF TableInv
<1> QED
  BY <1>1, TableInvariant, PTL

\* No two slots stand for the same client, and none for a client that was
\* answered since.
THEOREM SlotsApart == Spec => []SlotsBlock
<1>1. TableInv => SlotsBlock
  BY DEF TableInv
<1> QED
  BY <1>1, TableInvariant, PTL

\* A client times out at the TIMEOUT-th pulse since it came, never before.
THEOREM TimeoutsOnTime == Spec => TimedOutOnTime
<1> DEFINE OnTime(c) == answer'[c] = TimedOut /\ answer[c] # TimedOut =>
                          c \in Waiting /\ waited[c] + 1 = TIMEOUT
<1>1. ASSUME TableInv, [Next]_vars, NEW c \in Clients PROVE OnTime(c)
  <2> USE <1>1
  <2>1. ASSUME NEW d \in Clients, NEW type \in Types, Send(d, type) PROVE OnTime(c)
    BY <2>1 DEF Send, TableInv, TypeOK, NoAnswer, TimedOut
  <2>2. ASSUME NEW d \in Clients, Die(d) PROVE OnTime(c)
    BY <2>2 DEF Die, TableInv, TypeOK, NoAnswer, TimedOut
  <2>3. CASE Fire
    BY <2>3 DEF Fire
  <2>4. CASE gotAPulse
    <3>1. SUFFICES ASSUME answer'[c] = TimedOut, answer[c] # TimedOut
                   PROVE  c \in Waiting /\ waited[c] + 1 = TIMEOUT
      OBVIOUS
    <3>2. PICK i \in Expired : clients[i].rcvid = c
      BY <2>4, <3>1 DEF gotAPulse, Reply
    <3>3. i \in InUse /\ clients[i].timeout - 1 = 0
      BY DEF Expired
    <3>4. clients[i].timeout \in Nat /\ waited[c] \in Nat
      BY <3>3, TimedServerAssumption DEF TableInv, TypeOK, InUse
    <3> QED
      BY <3>2, <3>3, <3>4 DEF TableInv, AgesAgree, Waiting
  <2>5. ASSUME NEW d \in Clients, WaitData(d) PROVE OnTime(c)
    BY <2>5 DEF WaitData
  <2>6. ASSUME NEW d \in Clients, SendData(d) PROVE OnTime(c)
    <3>1. \A a : Data(d) # TimedOut
      BY DEF Data, TimedOut
    <3> QED
      BY <2>6, <3>1 DEF SendData, Reply
  <2>7. ASSUME NEW d \in Clients, Ignore(d) PROVE OnTime(c)
    BY <2>7 DEF Ignore
  <2>8. CASE UNCHANGED vars
    BY <2>8 DEF vars
  <2> QED
    BY <2>1, <2>2, <2>3, <2>4, <2>5, <2>6, <2>7, <2>8 DEF Next, gotAMessage
<1>2. TableInv /\ [Next]_vars => [\A c \in Clients : OnTime(c)]_vars
  BY <1>1
<1> QED
  BY <1>2, TableInvariant, PTL DEF Spec, TimedOutOnTime

-------------------------------------------------------------------------------
\* With a slot left, fewer clients wait than the table has slots.
LEMMA RoomLeft ==
  ASSUME TableInv, InUse # Slots
  PROVE  Cardinality(Waiting) < MAX_CLIENT
<1> DEFINE rcvids == [i \in InUse |-> clients[i].rcvid]
<1>1. IsFiniteSet(Slots) /\ Cardinality(Slots) = MAX_CLIENT
  BY FS_Interval, TimedServerAssumption DEF Slots
<1>2. InUse \in SUBSET Slots
  BY DEF InUse
<1>3. /\ IsFiniteSet(InUse)
      /\ Cardinality(InUse) <= Cardinality(Slots) /\ Cardinality(InUse) # Cardinality(Slots)
  BY <1>1, <1>2, FS_Subset
<1>4. rcvids \in Surjection(InUse, Waiting)
  BY DEF Surjection, Waiting
<1>5. IsFiniteSet(Waiting) /\ Cardinality(Waiting) <= Cardinality(InUse)
  BY <1>3, <1>4, FS_Surjection
<1>6. Cardinality(Waiting) \in Nat /\ Cardinality(InUse) \in Nat
  BY <1>3, <1>5, FS_CardinalityType
<1> QED
  BY <1>1, <1>3, <1>5, <1>6, TimedServerAssumption

\* The server implements the rendezvous: its table is the set of the clients that
\* wait, a pulse times out some of them, and data pairs one with its sender.
THEOREM ServerImplementsRendezvous == Spec => RendezvousSpec
<1>1. Init => Promise!Init
  BY DEF Init, Promise!Init, InUse, Waiting, Dead, Unused, NoAnswer, Promise!NoAnswer
<1>2. ASSUME TableInv, [Next]_vars PROVE [Promise!Next]_(Promise!vars)
  <2> USE <1>2
  <2>0. TypeOK /\ SlotsBlock /\ Answered
    BY DEF TableInv
  <2>1. ASSUME NEW c \in Clients, NEW type \in Types, Send(c, type) PROVE Promise!Call(c)
    <3>1. c \notin Waiting \cup Dead
      BY <2>0, <2>1 DEF Send, SlotsBlock, Dead
    <3>2. Waiting' = Waiting /\ Dead' = Dead
      BY <2>0, <2>1 DEF Send, InUse, Waiting, Dead, TypeOK, Types
    <3>3. answer' = Promise!Tell({c}, NoAnswer)
      BY <2>0, <2>1, <3>1 DEF Send, TypeOK, Promise!Tell
    <3> QED
      BY <3>1, <3>2, <3>3 DEF Promise!Call, NoAnswer, Promise!NoAnswer
  <2>2. ASSUME NEW c \in Clients, Die(c) PROVE Promise!Die(c)
    <3>1. Waiting' = Waiting
      BY <2>2 DEF Die, InUse, Waiting
    <3>2. Dead' = Dead \cup {c}
      BY <2>0, <2>2 DEF Die, Dead, TypeOK
    <3> QED
      BY <2>2, <3>1, <3>2 DEF Die, Promise!Die, NoAnswer, Promise!NoAnswer
  <2>3. CASE Fire
    BY <2>3 DEF Fire, InUse, Waiting, Dead, Promise!vars
  <2>4. CASE gotAPulse
    <3> DEFINE late == {clients[i].rcvid : i \in Expired}
    <3>1. Waiting' = Waiting \ late /\ late \subseteq Waiting
      BY <2>4, PulseTable DEF Expired, Waiting
    <3>2. Reply(late, TimedOut)
      BY <2>4 DEF gotAPulse
    <3> HIDE DEF late
    <3>3. Dead' = Dead
      BY <2>0, <3>2 DEF Reply, Dead, TypeOK
    <3>4. \A c \in Clients : c \in Dead <=> state[c] = "dead"
      BY DEF Dead
    <3>5. answer' = Promise!Tell(late, TimedOut)
      BY <3>2, <3>4 DEF Reply, Promise!Tell
    <3>6. CASE late # {}
      <4>1. Promise!TimeOut(late)
        BY <3>1, <3>3, <3>5, <3>6 DEF Promise!TimeOut, TimedOut, Promise!TimedOut
      <4> QED
        BY <3>1, <4>1 DEF Promise!Next
    <3>7. CASE late = {}
      <4>1. answer' = answer
        BY <2>0, <3>2, <3>7 DEF Reply, TypeOK
      <4> QED
        BY <3>1, <3>3, <3>7, <4>1 DEF Promise!vars
    <3> QED
      BY <3>6, <3>7
  <2>5. ASSUME NEW c \in Clients, WaitData(c) PROVE Promise!Accept(c)
    <3>1. Waiting' = Waiting \cup {c} /\ c \notin Waiting
      BY <2>5, WaitTable
    <3>2. Cardinality(Waiting) < MAX_CLIENT
      BY <2>5, RoomLeft DEF WaitData
    <3>3. Promise!Cardinality(Waiting) = Cardinality(Waiting)
      BY DEF Cardinality, Promise!Cardinality, IsFiniteSet, Promise!IsFiniteSet
    <3>4. c \notin Dead /\ Dead' = Dead /\ answer[c] = NoAnswer
      BY <2>0, <2>5 DEF WaitData, Dead, TypeOK, Answered, Types
    <3> QED
      BY <2>5, <3>1, <3>2, <3>3, <3>4 DEF WaitData, Promise!Accept, NoAnswer, Promise!NoAnswer
  <2>6. ASSUME NEW c \in Clients, SendData(c)
        PROVE  \E w \in Clients : Promise!Pair(c, w)
    <3>1. PICK i \in InUse : /\ Waiting' = Waiting \ {clients[i].rcvid}
                            /\ Reply({clients[i].rcvid, c}, Data(c))
      BY <2>6, SendTable
    <3> DEFINE w == clients[i].rcvid
    <3>2. w \in Waiting /\ w \in Clients
      BY <2>0, SlotType DEF Waiting, InUse
    <3> HIDE DEF w
    <3>3. state[c] = "MT_SEND_DATA"
      BY <2>6 DEF SendData
    <3>4. c \notin Waiting \cup Dead /\ answer[c] = NoAnswer
      BY <2>0, <3>3 DEF SlotsBlock, Dead, Answered, Types
    <3>5. Dead' = Dead
      BY <2>0, <3>1 DEF Reply, Dead, TypeOK
    <3>6. \A d \in Clients : d \in Dead <=> state[d] = "dead"
      BY DEF Dead
    <3>7. answer' = Promise!Tell({c, w}, Data(c))
      BY <3>1, <3>6 DEF Reply, Promise!Tell, w
    <3>8. Promise!Pair(c, w)
      BY <3>1, <3>2, <3>4, <3>5, <3>7
      DEF Promise!Pair, NoAnswer, Promise!NoAnswer, Data, Promise!Data, w
    <3> QED
      BY <3>2, <3>8
  <2>7. ASSUME NEW c \in Clients, Ignore(c) PROVE UNCHANGED Promise!vars
    BY <2>0, <2>7 DEF Ignore, InUse, Waiting, Dead, TypeOK, Promise!vars
  <2>8. CASE UNCHANGED vars
    BY <2>8 DEF vars, InUse, Waiting, Dead, Promise!vars
  <2> QED
    BY <2>1, <2>2, <2>3, <2>4, <2>5, <2>6, <2>7, <2>8 DEF Next, gotAMessage, Promise!Next
<1> QED
  BY <1>1, <1>2, TableInvariant, PTL DEF Spec, RendezvousSpec, Promise!Spec
=============================================================================
