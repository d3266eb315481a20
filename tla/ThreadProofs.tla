----------------------------- MODULE ThreadProofs -----------------------------
(*****************************************************************************)
(* Proofs about the programs of Programs that are several threads of one     *)
(* process: the condition variable, the barrier, the semaphore, the mutex.   *)
(*****************************************************************************)
EXTENDS Programs, Integers, Sequences, FiniteSetTheorems, SequenceTheorems,
        WellFoundedInduction, TLAPS

\* A step of Programs is, for each program, a step of its own or none.
LEMMA ThreadSteps ==
  [Next]_vars =>
    [HO!Next]_ho_vars /\ [BA!Next]_ba_vars /\ [SG!Next]_sg_vars /\ [BR!Next]_br_vars /\ [PM!Next]_pm_vars
BY DEF Next, vars

-------------------------------------------------------------------------------
\* Condition variable. Who is about to hand over has found the data, or none,
\* and keeps the mutex since; so the other cannot have changed it.

HandInv ==
  /\ HO!TypeOK
  /\ ho_at["consumer"] = "hand" => ho_data_ready = 1
  /\ ho_at["producer"] = "hand" => ho_data_ready = 0
  /\ HO!HandedOnce

LEMMA HandInit == HO!Init => HandInv
<1> SUFFICES ASSUME HO!Init PROVE HandInv
  OBVIOUS
<1>1. ho_ended \in BOOLEAN
  BY DEF HO!Init
<1> QED
  BY <1>1 DEF HO!Init, HandInv, HO!TypeOK, HO!HandedOnce, HO!Threads

LEMMA HandStep == HandInv /\ [HO!Next]_ho_vars => HandInv'
<1> SUFFICES ASSUME HandInv, [HO!Next]_ho_vars PROVE HandInv'
  OBVIOUS
<1> USE DEF HandInv, HO!TypeOK, HO!HandedOnce, HO!Threads
<1>1. ASSUME NEW t \in HO!Threads, HO!Lock(t) PROVE HandInv'
  BY <1>1 DEF HO!Lock
<1>2. ASSUME NEW t \in HO!Threads, HO!CondWait(t) PROVE HandInv'
  BY <1>2 DEF HO!CondWait, HO!Release, HO!Other
<1>3. ASSUME NEW t \in HO!Threads, HO!SpuriousWake(t) PROVE HandInv'
  BY <1>3 DEF HO!SpuriousWake
<1>4. ASSUME NEW t \in HO!Threads, HO!PassTest(t) PROVE HandInv'
  BY <1>4 DEF HO!PassTest, HO!MustWait
<1>5. ASSUME NEW t \in HO!Threads, HO!HandOverData(t) PROVE HandInv'
  <2>1. ho_owner = t /\ ho_at[HO!Other(t)] \notin {"test", "hand"} /\ HO!Other(t) \in HO!Threads
    BY <1>5 DEF HO!HandOverData, HO!Move, HO!Other
  <2>2. ho_data_ready' = ho_surplus' /\ ho_data_ready' \in 0..1
    BY <1>5 DEF HO!HandOverData, HO!Move
  <2>3. /\ ho_at' \in [HO!Threads -> {"start", "blocked", "test", "waiting", "awake", "hand"}]
        /\ \A s \in HO!Threads : ho_at'[s] # "hand" /\ (ho_at'[s] = "test" => ho_owner' = s)
    BY <1>5, <2>1 DEF HO!HandOverData, HO!Release, HO!Other
  <2> QED
    BY <1>5, <2>2, <2>3 DEF HO!HandOverData, HO!Move
<1>6. CASE HO!End
  BY <1>6 DEF HO!End
<1>7. CASE UNCHANGED ho_vars
  BY <1>7 DEF ho_vars
<1> QED
  BY <1>1, <1>2, <1>3, <1>4, <1>5, <1>6, <1>7 DEF HO!Next

LEMMA HandAlways == Spec => []HandInv
<1>1. Init => HandInv
  BY HandInit DEF Init
<1> QED
  BY <1>1, ThreadSteps, HandStep, PTL DEF Spec

\* data_ready always says how many pieces of data are on the way.
THEOREM DataHandedOnce == Spec => []HandedOnce
<1>1. HandInv => HandedOnce
  BY DEF HandInv, HandedOnce
<1> QED
  BY <1>1, HandAlways, PTL

-------------------------------------------------------------------------------
\* Barrier. The barrier has opened as often for the one as for the other: how
\* often a thread came, less the time it still waits.

\* The thread has come to the barrier and not yet gone on from it.
Within(t) == IF ba_state[t] \in {"at_barrier", "through"} THEN 1 ELSE 0
Blocked(t) == IF ba_state[t] = "at_barrier" THEN 1 ELSE 0

BarrierCounts ==
  /\ \A t \in BA!Threads : ba_passed[t] + Within(t) = ba_arrived[t]
  /\ ba_arrived["barrierTest1"] + Blocked("barrierTest2")
       = ba_arrived["barrierTest2"] + Blocked("barrierTest1")
  /\ Blocked("barrierTest1") = 0 \/ Blocked("barrierTest2") = 0
  /\ ba_state["barrierTest3"] \in {"none", "asleep"}

BarrierInv == BA!TypeOK /\ BarrierCounts

LEMMA BarrierInit == BA!Init => BarrierInv
<1> SUFFICES ASSUME BA!Init PROVE BarrierInv
  OBVIOUS
<1> USE ProgramsAssumption DEF BA!Init, BA!Threads
<1>1. BA!TypeOK
  <2>1. ba_inside = {t \in BA!Threads : ba_state[t] = "at_barrier"}
    OBVIOUS
  <2> QED
    BY <2>1 DEF BA!TypeOK
<1>2. BarrierCounts
  BY DEF BarrierCounts, Within, Blocked
<1> QED
  BY <1>1, <1>2 DEF BarrierInv

LEMMA BarrierStep == BarrierInv /\ [BA!Next]_ba_vars => BarrierInv'
<1> SUFFICES ASSUME BarrierInv, [BA!Next]_ba_vars PROVE BarrierInv'
  OBVIOUS
<1> USE ProgramsAssumption DEF BarrierInv, BA!TypeOK, BA!Threads
<1>1. ASSUME NEW t \in BA!Threads, BA!Create(t) PROVE BarrierInv'
  <2>1. BA!TypeOK'
    BY <1>1 DEF BA!Create
  <2>2. BarrierCounts'
    BY <1>1 DEF BA!Create, BarrierCounts, Within, Blocked
  <2> QED
    BY <2>1, <2>2
<1>2. ASSUME NEW t \in BA!Threads, BA!Arrive(t) PROVE BarrierInv'
  <2>1. Cardinality({}) = 0 /\ \A s : Cardinality({s}) = 1
    BY FS_EmptySet, FS_Singleton
  <2>2. \A S : BA!Cardinality(S) = Cardinality(S)
    BY DEF BA!Cardinality, Cardinality, BA!IsFiniteSet, IsFiniteSet
  <2>3. t \in BA!Parties /\ ba_state[t] = "asleep" /\ t \notin ba_inside
    BY <1>2 DEF BA!Arrive
  <2>4. ba_inside = {} \/ \E s \in BA!Parties \ {t} : ba_inside = {s}
    BY <2>3 DEF BA!Parties, BarrierCounts, Blocked
  <2>5. /\ ba_arrived' = [ba_arrived EXCEPT ![t] = @ + 1] /\ UNCHANGED ba_passed
        /\ ba_arrived' \in [BA!Threads -> 0..Rounds]
    BY <1>2 DEF BA!Arrive
  <2>6. CASE ba_inside = {}
    <3>1. /\ ba_state' = [ba_state EXCEPT ![t] = "at_barrier"]
          /\ ba_inside' = {t}
      BY <1>2, <2>1, <2>2, <2>6 DEF BA!Arrive, BA!Count
    <3>2. ba_inside' = {s \in BA!Threads : ba_state'[s] = "at_barrier"}
      BY <2>3, <2>6, <3>1 DEF BA!Parties
    <3>3. BA!TypeOK'
      BY <2>5, <3>1, <3>2
    <3>4. BarrierCounts'
      BY <2>3, <2>5, <2>6, <3>1 DEF BA!Parties, BarrierCounts, Within, Blocked
    <3> QED
      BY <3>3, <3>4
  <2>7. ASSUME NEW s \in BA!Parties \ {t}, ba_inside = {s} PROVE BarrierInv'
    <3>1. Cardinality({s}) = 1
      BY FS_Singleton
    <3>2. BA!Cardinality(ba_inside) = 1
      BY <2>2, <2>7, <3>1
    <3>3. ~(BA!Cardinality(ba_inside) + 1 < BA!Count)
      BY <3>2 DEF BA!Count
    <3>4. /\ ba_state' = [r \in BA!Threads |-> IF r \in {s, t} THEN "through" ELSE ba_state[r]]
          /\ ba_inside' = {}
      <4>1. /\ ba_state' = [r \in BA!Threads |->
                              IF r \in ba_inside \cup {t} THEN "through" ELSE ba_state[r]]
            /\ ba_inside' = {}
        BY <1>2, <3>3 DEF BA!Arrive
      <4>2. ba_inside \cup {t} = {s, t}
        BY <2>7
      <4> QED
        BY <4>1, <4>2
    <3>5. ba_inside' = {r \in BA!Threads : ba_state'[r] = "at_barrier"}
      BY <2>7, <3>4
    <3>6. BA!TypeOK'
      BY <2>5, <3>4, <3>5
    <3>7. ba_state[s] = "at_barrier"
      BY <2>7
    <3>8. BarrierCounts'
      BY <2>3, <2>5, <2>7, <3>4, <3>7 DEF BA!Parties, BarrierCounts, Within, Blocked
    <3> QED
      BY <3>6, <3>8
  <2> QED
    BY <2>4, <2>6, <2>7
<1>3. ASSUME NEW t \in BA!Threads, BA!Pass(t) PROVE BarrierInv'
  <2>1. ba_state[t] = "through" /\ ba_passed[t] + 1 = ba_arrived[t]
    BY <1>3 DEF BA!Pass, BarrierCounts, Within
  <2>2. /\ ba_state' = [ba_state EXCEPT ![t] = "asleep"]
        /\ ba_passed' = [ba_passed EXCEPT ![t] = @ + 1]
        /\ ba_inside' = ba_inside /\ ba_arrived' = ba_arrived
    BY <1>3 DEF BA!Pass
  <2>3. ba_inside' = {s \in BA!Threads : ba_state'[s] = "at_barrier"}
    BY <2>1, <2>2
  <2>4. BA!TypeOK'
    BY <2>1, <2>2, <2>3
  <2>5. BarrierCounts'
    BY <2>1, <2>2 DEF BarrierCounts, Within, Blocked
  <2> QED
    BY <2>4, <2>5
<1>4. CASE UNCHANGED ba_vars
  BY <1>4 DEF ba_vars, BarrierCounts, Within, Blocked
<1> QED
  BY <1>1, <1>2, <1>3, <1>4 DEF BA!Next

LEMMA BarrierAlways == Spec => []BarrierInv
<1>1. Init => BarrierInv
  BY BarrierInit DEF Init
<1> QED
  BY <1>1, ThreadSteps, BarrierStep, PTL DEF Spec

\* Neither thread passes the barrier for the nth time before the other has come
\* to it n times, for any number of rounds.
THEOREM RoundsTogether == Spec => []MeetTogether
<1>1. BarrierInv => MeetTogether
  BY ProgramsAssumption
     DEF BarrierInv, BA!TypeOK, BarrierCounts, Within, Blocked, MeetTogether, BA!MeetTogether,
         BA!Threads
<1> QED
  BY <1>1, BarrierAlways, PTL

-------------------------------------------------------------------------------
\* Semaphore. A soldier beyond sem_wait is counted off the semaphore until its
\* sem_post, and onBridge counts, while no store was lost, those between their
\* ++ and their --; these are some of the former.

Admitted == {s \in Soldiers : br_step[s] # "wait"}
Crossing == {s \in Soldiers : br_step[s] \in {"load_down", "store_down"}}

BridgeInv ==
  /\ BR!TypeOK
  /\ \A s \in Admitted : br_crossed[s] < Crossings
  /\ br_sem + Cardinality(Admitted) = saveNum
  /\ ~br_lost => br_onBridge = Cardinality(Crossing)

LEMMA SoldiersCounted ==
  /\ IsFiniteSet(Admitted) /\ Cardinality(Admitted) \in Nat
  /\ IsFiniteSet(Crossing) /\ Cardinality(Crossing) \in Nat
  /\ Cardinality(Crossing) <= Cardinality(Admitted)
<1>1. Admitted \subseteq Soldiers /\ Crossing \subseteq Admitted
  BY DEF Admitted, Crossing
<1>2. IsFiniteSet(Admitted)
  BY <1>1, ProgramsAssumption, FS_Subset
<1> QED
  BY <1>1, <1>2, FS_Subset, FS_CardinalityType

LEMMA BridgeInit == BR!Init => BridgeInv
<1> SUFFICES ASSUME BR!Init PROVE BridgeInv
  OBVIOUS
<1>1. Admitted = {} /\ Crossing = {}
  BY DEF BR!Init, Admitted, Crossing
<1>2. br_lost \in BOOLEAN
  BY DEF BR!Init
<1>3. BR!TypeOK
  BY <1>2, ProgramsAssumption DEF BR!Init, BR!TypeOK, BR!Steps
<1> QED
  BY <1>1, <1>3, FS_EmptySet, ProgramsAssumption DEF BR!Init, BridgeInv

LEMMA BridgeStep == BridgeInv /\ [BR!Next]_br_vars => BridgeInv'
<1> SUFFICES ASSUME BridgeInv, [BR!Next]_br_vars PROVE BridgeInv'
  OBVIOUS
<1>0. /\ IsFiniteSet(Admitted) /\ Cardinality(Admitted) \in Nat
      /\ IsFiniteSet(Crossing) /\ Cardinality(Crossing) \in Nat
  BY SoldiersCounted
<1> USE ProgramsAssumption DEF BridgeInv, BR!TypeOK, BR!Steps
<1>1. ASSUME NEW s \in Soldiers, BR!Wait(s) PROVE BridgeInv'
  <2>1. Admitted' = Admitted \cup {s} /\ s \notin Admitted /\ Crossing' = Crossing
    BY <1>1 DEF BR!Wait, Admitted, Crossing
  <2>2. Cardinality(Admitted') = Cardinality(Admitted) + 1
    BY <1>0, <2>1, FS_AddElement
  <2>3. BR!TypeOK'
    BY <1>1 DEF BR!Wait
  <2>4. \A r \in Admitted' : br_crossed'[r] < Crossings
    BY <1>1, <2>1 DEF BR!Wait
  <2>5. br_sem' + Cardinality(Admitted') = saveNum
    BY <1>0, <1>1, <2>2 DEF BR!Wait
  <2> QED
    BY <1>1, <2>1, <2>3, <2>4, <2>5 DEF BR!Wait
<1>2. ASSUME NEW s \in Soldiers, BR!Load(s) PROVE BridgeInv'
  <2>1. Admitted' = Admitted /\ Crossing' = Crossing
    BY <1>2 DEF BR!Load, Admitted, Crossing
  <2>2. BR!TypeOK'
    BY <1>2 DEF BR!Load
  <2> QED
    BY <1>2, <2>1, <2>2 DEF BR!Load
<1>3. ASSUME NEW s \in Soldiers, BR!Store(s) PROVE BridgeInv'
  <2>1. Admitted' = Admitted
    BY <1>3 DEF BR!Store, Admitted
  <2>2. br_lost' \in BOOLEAN /\ (~br_lost' => ~br_lost /\ br_onBridge = br_loaded[s])
    BY <1>3 DEF BR!Store
  <2>3. BR!TypeOK'
    BY <1>3, <2>2 DEF BR!Store
  <2>4. ASSUME ~br_lost' PROVE br_onBridge' = Cardinality(Crossing')
    <3>1. CASE br_step[s] = "store_up"
      <4>1. Crossing' = Crossing \cup {s} /\ s \notin Crossing
        BY <1>3, <3>1 DEF BR!Store, Crossing
      <4>2. Cardinality(Crossing') = Cardinality(Crossing) + 1
        BY <1>0, <4>1, FS_AddElement
      <4> QED
        BY <1>3, <2>2, <2>4, <3>1, <4>2 DEF BR!Store
    <3>2. CASE br_step[s] = "store_down"
      <4>1. Crossing' = Crossing \ {s} /\ s \in Crossing
        BY <1>3, <3>2 DEF BR!Store, Crossing
      <4>2. Cardinality(Crossing') = Cardinality(Crossing) - 1
        BY <1>0, <4>1, FS_RemoveElement
      <4> QED
        BY <1>3, <2>2, <2>4, <3>2, <4>2 DEF BR!Store
    <3> QED
      BY <1>3, <3>1, <3>2 DEF BR!Store
  <2> QED
    BY <1>3, <2>1, <2>3, <2>4 DEF BR!Store
<1>4. ASSUME NEW s \in Soldiers, BR!Post(s) PROVE BridgeInv'
  <2>1. Admitted' = Admitted \ {s} /\ s \in Admitted /\ Crossing' = Crossing
    BY <1>4 DEF BR!Post, Admitted, Crossing
  <2>2. Cardinality(Admitted') = Cardinality(Admitted) - 1
    BY <1>0, <2>1, FS_RemoveElement
  <2>3. br_crossed[s] < Crossings
    BY <2>1
  <2>4. BR!TypeOK'
    BY <1>4, <2>3 DEF BR!Post
  <2>5. \A r \in Admitted' : br_crossed'[r] < Crossings
    BY <1>4, <2>1 DEF BR!Post, Admitted
  <2>6. br_sem' + Cardinality(Admitted') = saveNum
    BY <1>0, <1>4, <2>2 DEF BR!Post
  <2> QED
    BY <1>4, <2>1, <2>4, <2>5, <2>6 DEF BR!Post
<1>5. CASE BR!Look /\ br_looked < Looks
  BY <1>5 DEF BR!Look, Admitted, Crossing
<1>6. CASE UNCHANGED br_vars
  BY <1>6 DEF br_vars, Admitted, Crossing
<1> QED
  BY <1>1, <1>2, <1>3, <1>4, <1>5, <1>6 DEF BR!Next

LEMMA BridgeAlways == Spec => []BridgeInv
<1>1. Init => BridgeInv
  BY BridgeInit DEF Init
<1> QED
  BY <1>1, ThreadSteps, BridgeStep, PTL DEF Spec

\* For any number of soldiers and whatever the bridge bears: without a lost
\* store main never sees too many on the bridge.
THEOREM AlarmsAreLostStores == Spec => []NoFalseAlarm
<1>1. BridgeInv => NoFalseAlarm
  BY SoldiersCounted, ProgramsAssumption DEF BridgeInv, BR!TypeOK, NoFalseAlarm, BR!NoFalseAlarm
<1> QED
  BY <1>1, BridgeAlways, PTL

-------------------------------------------------------------------------------
\* Mutex. Only its owner is between lock and unlock, and who waits is blocked
\* and waits once; so the names fit whenever nobody is in the middle of a change.

Inside == {"locked", "half", "changed"}

\* The thread that main creates last.
LastCreated == IF pm_mutexProgram = "test_mutex" THEN "bush" ELSE "my"

MutexInv ==
  /\ PM!TypeOK
  /\ pm_mutexProgram \in {"test_mutex", "sync_mutex_proity"}
  /\ pm_waiting \in Seq(PM!Threads)
  /\ \A i, j \in DOMAIN pm_waiting : i # j => pm_waiting[i] # pm_waiting[j]
  /\ \A t \in PM!Threads : pm_pc[t] \in Inside <=> pm_owner = t
  /\ pm_pc["main"] = "create" => pm_pc[LastCreated] = "none"
  /\ pm_mutexProgram = "test_mutex" => pm_pc["my"] = "none"
  /\ pm_pc["main"] # "returned" => pm_round < Rounds

NamesInv ==
  /\ pm_owner = PM!Nobody => pm_first = pm_last
  /\ \A t \in PM!Threads : pm_pc[t] \in {"locked", "changed"} => pm_first = pm_last
  /\ \A t \in PM!Threads : pm_pc[t] = "half" => pm_first = t

LEMMA SmallestOf ==
  ASSUME NEW T, T \subseteq Nat, T # {}
  PROVE  \E x \in T : \A y \in T : x <= y
<1>1. PICK x \in T : \A y \in T : <<y, x>> \notin OpToRel(<, Nat)
  BY WFMin, NatLessThanWellFounded
<1>2. \A y \in T : ~(y < x)
  BY <1>1 DEF OpToRel
<1>3. x \in Nat /\ \A y \in T : y \in Nat
  OBVIOUS
<1> QED
  BY <1>2, <1>3

Priorities == {10, 16, 17, 28, 30}

\* With threads waiting there is one of the highest priority that waits longest.
LEMMA ForemostWaits ==
  ASSUME MutexInv, pm_waiting # <<>>
  PROVE  PM!Foremost \in DOMAIN pm_waiting
<1> DEFINE prio(i) == PM!Priority(pm_waiting[i])
<1>1. ASSUME NEW i \in DOMAIN pm_waiting PROVE prio(i) \in Priorities
  <2>1. /\ pm_waiting[i] \in {"bush", "kerry", "my", "main"}
        /\ pm_mutexProgram = "test_mutex" => pm_waiting[i] # "my"
    BY <1>1 DEF MutexInv, PM!TypeOK, PM!Threads, PM!Changers
  <2> QED
    BY <2>1 DEF MutexInv, PM!Priority, Priorities
<1> HIDE DEF prio
<1>2. PICK k \in Priorities : /\ \E i \in DOMAIN pm_waiting : prio(i) = k
                              /\ \A i \in DOMAIN pm_waiting : prio(i) <= k
  <2>1. 1 \in DOMAIN pm_waiting
    BY DEF MutexInv
  <2>2. CASE \E i \in DOMAIN pm_waiting : prio(i) = 30
    BY <1>1, <2>2 DEF Priorities
  <2>3. CASE \A i \in DOMAIN pm_waiting : prio(i) # 30
    <3>1. CASE \E i \in DOMAIN pm_waiting : prio(i) = 28
      BY <1>1, <2>3, <3>1 DEF Priorities
    <3>2. CASE \A i \in DOMAIN pm_waiting : prio(i) # 28
      <4>1. CASE \E i \in DOMAIN pm_waiting : prio(i) = 17
        BY <1>1, <2>3, <3>2, <4>1 DEF Priorities
      <4>2. CASE \A i \in DOMAIN pm_waiting : prio(i) # 17
        BY <1>1, <2>1, <2>3, <3>2, <4>2 DEF Priorities
      <4> QED
        BY <4>1, <4>2
    <3> QED
      BY <3>1, <3>2
  <2> QED
    BY <2>2, <2>3
<1>3. PICK m \in {i \in DOMAIN pm_waiting : prio(i) = k} :
        \A j \in {i \in DOMAIN pm_waiting : prio(i) = k} : m <= j
  <2>1. {i \in DOMAIN pm_waiting : prio(i) = k} \subseteq Nat
    BY DEF MutexInv
  <2> QED
    BY <1>2, <2>1, SmallestOf
<1>4. \A j \in DOMAIN pm_waiting \ {m} : prio(m) > prio(j) \/ (prio(m) = prio(j) /\ m < j)
  <2> SUFFICES ASSUME NEW j \in DOMAIN pm_waiting \ {m}
               PROVE  prio(m) > prio(j) \/ (prio(m) = prio(j) /\ m < j)
    OBVIOUS
  <2>1. m \in Nat /\ j \in Nat /\ prio(j) \in Nat /\ prio(m) = k /\ k \in Nat /\ prio(j) <= k
    BY <1>1, <1>2 DEF MutexInv, Priorities
  <2>2. prio(j) = k => m <= j
    BY <1>3
  <2> QED
    BY <2>1, <2>2
<1> QED
  BY <1>4 DEF PM!Foremost, prio

LEMMA MutexInit == PM!Init => MutexInv /\ NamesInv
<1> SUFFICES ASSUME PM!Init PROVE MutexInv /\ NamesInv
  OBVIOUS
<1> USE ProgramsAssumption DEF PM!Init, PM!Threads, PM!Changers, PM!Nobody
<1>1. PM!TypeOK
  BY DEF PM!TypeOK
<1> QED
  BY <1>1 DEF MutexInv, NamesInv, Inside, LastCreated

\* The thread that is created was not there before, and the last one is created
\* only when main goes on.
LEMMA MutexCreate ==
  ASSUME MutexInv, PM!Create
  PROVE  \E t \in PM!Changers :
           /\ pm_pc[t] = "none" /\ (pm_mutexProgram = "test_mutex" => t # "my")
           /\ pm_pc' = [pm_pc EXCEPT ![t] = "start",
                                      !["main"] = IF t = LastCreated THEN "start" ELSE @]
<1> DEFINE names == PM!Created(pm_mutexProgram)
           made == {i \in DOMAIN names : pm_pc[names[i]] # "none"}
           next == CHOOSE i \in 1..3 : i \notin made /\ \A j \in 1..(i - 1) : j \in made
<1>1. /\ pm_pc["main"] = "create"
      /\ pm_pc' = [pm_pc EXCEPT ![names[next]] = "start",
                                 !["main"] = IF next = Len(names) THEN "start" ELSE @]
  BY DEF PM!Create
<1>2. /\ DOMAIN names = 1..Len(names) /\ Len(names) \in 2..3
      /\ \A i \in DOMAIN names : names[i] \in PM!Changers
      /\ \A i \in DOMAIN names : i = Len(names) <=> names[i] = LastCreated
      /\ pm_mutexProgram = "test_mutex" => \A i \in DOMAIN names : names[i] # "my"
  <2>1. CASE pm_mutexProgram = "test_mutex"
    <3>1. /\ Len(names) = 2 /\ DOMAIN names = 1..2
          /\ names[1] = "kerry" /\ names[2] = "bush"
      BY <2>1 DEF PM!Created
    <3> HIDE DEF names
    <3> QED
      BY <2>1, <3>1 DEF PM!Changers, LastCreated
  <2>2. CASE pm_mutexProgram # "test_mutex"
    <3>1. /\ Len(names) = 3 /\ DOMAIN names = 1..3
          /\ names[1] = "bush" /\ names[2] = "kerry" /\ names[3] = "my"
      BY <2>2 DEF PM!Created
    <3> HIDE DEF names
    <3> QED
      BY <2>2, <3>1 DEF PM!Changers, LastCreated
  <2> QED
    BY <2>1, <2>2
<1>3. Len(names) \in 1..3 /\ Len(names) \notin made
  BY <1>1, <1>2 DEF MutexInv
<1> HIDE DEF names
<1>4. \E i \in 1..3 : i \notin made /\ \A j \in 1..(i - 1) : j \in made
  <2>1. CASE 1 \notin made
    BY <2>1
  <2>2. CASE 1 \in made /\ 2 \notin made
    BY <2>2
  <2>3. CASE 1 \in made /\ 2 \in made
    <3>1. 3 \notin made
      BY <1>2, <1>3, <2>3
    <3> QED
      BY <2>3, <3>1
  <2> QED
    BY <2>1, <2>2, <2>3
<1>5. next \in 1..3 /\ next \notin made /\ \A j \in 1..(next - 1) : j \in made
  BY <1>4
<1> HIDE DEF next
<1>6. next \in DOMAIN names
  BY <1>2, <1>3, <1>5
<1>7. pm_pc[names[next]] = "none"
  BY <1>5, <1>6
<1> QED
  BY <1>1, <1>2, <1>6, <1>7

\* A queue without its nth element.
LEMMA WithoutNth ==
  ASSUME NEW S, NEW s \in Seq(S), NEW n \in DOMAIN s
  PROVE  LET r == SubSeq(s, 1, n - 1) \o SubSeq(s, n + 1, Len(s))
         IN  /\ r \in Seq(S) /\ Len(r) = Len(s) - 1
             /\ \A i \in 1..(Len(s) - 1) : r[i] = s[IF i < n THEN i ELSE i + 1]
<1> DEFINE a == SubSeq(s, 1, n - 1)
           b == SubSeq(s, n + 1, Len(s))
           r == a \o b
<1> DEFINE l == Len(s)
<1>0. l \in Nat /\ n \in Nat /\ 1 <= n /\ n <= l
  OBVIOUS
<1>1. a \in Seq(S) /\ Len(a) = n - 1 /\ \A i \in 1..(n - 1) : a[i] = s[i]
  <2>1. \A i \in 1..(n - 1) : s[i] \in S
    OBVIOUS
  <2> QED
    BY <2>1, SubSeqProperties
<1>2. b \in Seq(S) /\ Len(b) = l - n /\ \A i \in 1..(l - n) : b[i] = s[n + i]
  <2>1. \A i \in (n + 1)..Len(s) : s[i] \in S
    OBVIOUS
  <2> QED
    BY <2>1, SubSeqProperties
<1> HIDE DEF a, b
<1>3. /\ r \in Seq(S) /\ Len(r) = Len(a) + Len(b)
      /\ \A i \in 1..(Len(a) + Len(b)) : r[i] = IF i <= Len(a) THEN a[i] ELSE b[i - Len(a)]
  BY <1>1, <1>2, ConcatProperties
<1> HIDE DEF r, l
<1>4. /\ Len(r) = l - 1
      /\ \A i \in 1..(l - 1) : r[i] = IF i <= n - 1 THEN a[i] ELSE b[i - (n - 1)]
  <2>1. (n - 1) + (l - n) = l - 1
    BY <1>0
  <2> QED
    BY <1>1, <1>2, <1>3, <2>1
<1>5. ASSUME NEW i \in 1..(l - 1) PROVE r[i] = s[IF i < n THEN i ELSE i + 1]
  <2>1. CASE i < n
    <3>1. i <= n - 1 /\ i \in 1..(n - 1)
      BY <1>0, <2>1
    <3> QED
      BY <1>1, <1>4, <2>1, <3>1
  <2>2. CASE ~(i < n)
    <3>1. ~(i <= n - 1) /\ i - (n - 1) \in 1..(l - n) /\ n + (i - (n - 1)) = i + 1
      BY <1>0, <2>2
    <3>2. r[i] = b[i - (n - 1)] /\ b[i - (n - 1)] = s[n + (i - (n - 1))]
      BY <1>2, <1>4, <3>1
    <3> QED
      BY <2>2, <3>1, <3>2
  <2> QED
    BY <2>1, <2>2
<1> QED
  BY <1>3, <1>4, <1>5 DEF r, a, b, l

\* pthread_mutex_unlock leaves the mutex with one owner, or free with none waiting.
LEMMA MutexHandOn ==
  ASSUME MutexInv, NamesInv, pm_first = pm_last, pm_pc["main"] # "returned",
         NEW t \in PM!Threads, pm_owner = t, PM!HandOn(t)
  PROVE  MutexInv' /\ NamesInv'
<1> USE ProgramsAssumption DEF PM!Nobody
<1>1. /\ pm_pc[t] \in Inside
      /\ PM!AfterUnlock(t) \in {"returned", "done", "start"}
      /\ t = "main" /\ pm_round + 1 = Rounds => PM!AfterUnlock(t) = "returned"
      /\ t # "main" => PM!AfterUnlock(t) # "returned"
  BY DEF MutexInv, PM!AfterUnlock
<1>2. pm_round' \in 0..Rounds /\ (t # "main" => pm_round' = pm_round)
      /\ (t = "main" => pm_round' = pm_round + 1)
  BY DEF PM!HandOn, MutexInv, PM!TypeOK
<1>3. UNCHANGED <<pm_mutexProgram, pm_first, pm_last>>
  BY DEF PM!HandOn
<1>4. CASE pm_waiting = <<>>
  <2>1. /\ pm_owner' = PM!Nobody /\ pm_waiting' = pm_waiting
        /\ pm_pc' = [pm_pc EXCEPT ![t] = PM!AfterUnlock(t)]
    BY <1>4 DEF PM!HandOn
  <2>2. PM!TypeOK'
    BY <1>1, <1>2, <1>4, <2>1 DEF MutexInv, PM!TypeOK
  <2>3. MutexInv'
    BY <1>1, <1>2, <1>3, <1>4, <2>1, <2>2
    DEF MutexInv, PM!TypeOK, Inside, LastCreated, PM!Threads, PM!Changers
  <2>4. NamesInv'
    BY <1>1, <1>3, <2>1, <2>3 DEF MutexInv, NamesInv, Inside, PM!TypeOK
  <2> QED
    BY <2>3, <2>4
<1>5. CASE pm_waiting # <<>>
  <2> DEFINE n == PM!Foremost
             o == pm_waiting[n]
             rest == SubSeq(pm_waiting, 1, n - 1) \o SubSeq(pm_waiting, n + 1, Len(pm_waiting))
  <2>1. n \in DOMAIN pm_waiting
    BY <1>5, ForemostWaits
  <2>2. /\ pm_owner' = o /\ pm_waiting' = rest
        /\ pm_pc' = [pm_pc EXCEPT ![t] = PM!AfterUnlock(t), ![o] = "locked"]
    BY <1>5 DEF PM!HandOn
  <2> HIDE DEF n
  <2>3. /\ o \in PM!Threads /\ pm_pc[o] = "blocked" /\ o # t
    BY <1>1, <2>1 DEF MutexInv, PM!TypeOK, Inside
  <2>4. /\ rest \in Seq(PM!Threads) /\ DOMAIN rest = 1..(Len(pm_waiting) - 1)
        /\ \A i \in DOMAIN rest : rest[i] = pm_waiting[IF i < n THEN i ELSE i + 1]
    <3>1. pm_waiting \in Seq(PM!Threads)
      BY DEF MutexInv
    <3>2. /\ rest \in Seq(PM!Threads) /\ Len(rest) = Len(pm_waiting) - 1
          /\ \A i \in 1..(Len(pm_waiting) - 1) : rest[i] = pm_waiting[IF i < n THEN i ELSE i + 1]
      BY <2>1, <3>1, WithoutNth
    <3> HIDE DEF rest
    <3> QED
      BY <3>2
  <2>5. \A i \in DOMAIN rest :
          /\ (IF i < n THEN i ELSE i + 1) \in DOMAIN pm_waiting \ {n}
          /\ rest[i] # o /\ pm_pc[rest[i]] = "blocked" /\ rest[i] # t
    <3> SUFFICES ASSUME NEW i \in DOMAIN rest
                 PROVE  /\ (IF i < n THEN i ELSE i + 1) \in DOMAIN pm_waiting \ {n}
                        /\ rest[i] # o /\ pm_pc[rest[i]] = "blocked" /\ rest[i] # t
      OBVIOUS
    <3>1. (IF i < n THEN i ELSE i + 1) \in DOMAIN pm_waiting \ {n}
      <4>1. /\ DOMAIN pm_waiting = 1..Len(pm_waiting) /\ Len(pm_waiting) \in Nat
            /\ n \in 1..Len(pm_waiting) /\ i \in 1..(Len(pm_waiting) - 1)
        BY <2>1, <2>4 DEF MutexInv
      <4> QED
        BY <4>1
    <3> DEFINE j == IF i < n THEN i ELSE i + 1
    <3>2. rest[i] = pm_waiting[j] /\ j \in DOMAIN pm_waiting /\ j # n
      BY <2>4, <3>1
    <3> HIDE DEF j
    <3>3. pm_pc[rest[i]] = "blocked"
      BY <3>2 DEF MutexInv, PM!TypeOK
    <3>4. rest[i] # o
      BY <2>1, <3>2 DEF MutexInv
    <3>5. rest[i] # t
      BY <1>1, <3>3 DEF MutexInv, Inside
    <3> QED
      BY <3>1, <3>3, <3>4, <3>5
  <2>6. \A i, j \in DOMAIN rest : i # j => rest[i] # rest[j]
    <3> SUFFICES ASSUME NEW i \in DOMAIN rest, NEW j \in DOMAIN rest, i # j
                 PROVE  rest[i] # rest[j]
      OBVIOUS
    <3>1. (IF i < n THEN i ELSE i + 1) # (IF j < n THEN j ELSE j + 1)
      BY <2>1, <2>4 DEF MutexInv
    <3>2. \A k, l \in DOMAIN pm_waiting : k # l => pm_waiting[k] # pm_waiting[l]
      BY DEF MutexInv
    <3> DEFINE k == IF i < n THEN i ELSE i + 1
               l == IF j < n THEN j ELSE j + 1
    <3>3. k # l /\ k \in DOMAIN pm_waiting /\ l \in DOMAIN pm_waiting
      BY <2>5, <3>1
    <3>4. rest[i] = pm_waiting[k] /\ rest[j] = pm_waiting[l]
      BY <2>4
    <3> HIDE DEF k, l, rest
    <3> QED
      BY <3>2, <3>3, <3>4
  <2> HIDE DEF rest
  <2>7. pm_pc' \in [PM!Threads -> {"none", "create", "start", "blocked", "locked", "half",
                                   "changed", "done", "returned"}]
    BY <1>1, <2>2 DEF MutexInv, PM!TypeOK
  <2>8. /\ pm_pc'[t] = PM!AfterUnlock(t) /\ pm_pc'[o] = "locked"
        /\ \A s \in PM!Threads \ {t, o} : pm_pc'[s] = pm_pc[s]
    BY <2>2, <2>3 DEF MutexInv, PM!TypeOK
  <2> HIDE DEF o
  <2>9. \A i \in DOMAIN rest : pm_pc'[rest[i]] = "blocked" /\ rest[i] # o
    BY <2>4, <2>5, <2>8
  <2>10. PM!TypeOK'
    BY <1>2, <2>2, <2>3, <2>7, <2>9 DEF PM!TypeOK
  <2>11. \A s \in PM!Threads : pm_pc'[s] \in Inside <=> pm_owner' = s
    BY <1>1, <2>2, <2>3, <2>8 DEF MutexInv, Inside
  <2>12. \A s \in PM!Threads : pm_pc[s] \in {"none", "create"} => pm_pc'[s] = pm_pc[s]
    BY <1>1, <2>3, <2>8 DEF Inside
  <2>13. pm_pc'["main"] = "create" => pm_pc["main"] = "create"
    BY <1>1, <2>8 DEF PM!Threads
  <2>14. pm_pc'["main"] # "returned" => pm_round' < Rounds
    <3>1. pm_round \in 0..Rounds /\ pm_round < Rounds
      BY DEF MutexInv, PM!TypeOK
    <3> QED
      BY <1>1, <1>2, <2>8, <3>1
  <2>15. MutexInv'
    BY <1>3, <2>2, <2>4, <2>6, <2>10, <2>11, <2>12, <2>13, <2>14
    DEF MutexInv, LastCreated, PM!Threads, PM!Changers
  <2>16. \A s \in PM!Threads : pm_pc'[s] \notin {"half", "changed"}
    BY <1>1, <2>3, <2>8 DEF MutexInv, Inside
  <2> QED
    BY <1>3, <2>2, <2>3, <2>15, <2>16 DEF NamesInv, PM!Threads, PM!Changers
<1> QED
  BY <1>4, <1>5

LEMMA MutexLock ==
  ASSUME MutexInv, NamesInv, pm_pc["main"] # "returned", NEW t \in PM!Threads, PM!Lock(t)
  PROVE  MutexInv' /\ NamesInv'
<1> USE ProgramsAssumption
<1>1. /\ pm_pc[t] = "start" /\ UNCHANGED <<pm_mutexProgram, pm_first, pm_last, pm_round>>
  BY DEF PM!Lock
<1>2. CASE pm_owner = PM!Nobody
  <2>1. pm_owner' = t /\ pm_pc' = [pm_pc EXCEPT ![t] = "locked"] /\ UNCHANGED pm_waiting
    BY <1>2 DEF PM!Lock
  <2>2. PM!TypeOK'
    BY <1>1, <2>1 DEF MutexInv, PM!TypeOK
  <2>3. /\ \A s \in PM!Threads : pm_pc'[s] = IF s = t THEN "locked" ELSE pm_pc[s]
        /\ \A s \in PM!Threads : pm_pc[s] \notin Inside
    BY <1>2, <2>1 DEF MutexInv, PM!TypeOK, PM!Nobody, PM!Threads, PM!Changers
  <2>4. MutexInv'
    BY <1>1, <2>1, <2>2, <2>3 DEF MutexInv, Inside, LastCreated, PM!Threads, PM!Changers
  <2>5. NamesInv'
    BY <1>1, <1>2, <2>1, <2>3 DEF NamesInv, Inside, PM!Threads, PM!Changers, PM!Nobody
  <2> QED
    BY <2>4, <2>5
<1>3. CASE pm_owner # PM!Nobody
  <2>1. /\ pm_waiting' = Append(pm_waiting, t) /\ UNCHANGED pm_owner
        /\ pm_pc' = [pm_pc EXCEPT ![t] = "blocked"]
    BY <1>3 DEF PM!Lock
  <2>2. /\ pm_pc' \in [PM!Threads -> {"none", "create", "start", "blocked", "locked", "half",
                                      "changed", "done", "returned"}]
        /\ \A s \in PM!Threads : pm_pc'[s] = IF s = t THEN "blocked" ELSE pm_pc[s]
    BY <2>1 DEF MutexInv, PM!TypeOK
  <2>3. \A i \in DOMAIN pm_waiting : pm_waiting[i] # t /\ pm_waiting[i] \in PM!Threads
    BY <1>1 DEF MutexInv, PM!TypeOK
  <2>4. /\ pm_waiting' \in Seq(PM!Threads) /\ DOMAIN pm_waiting' = 1..(Len(pm_waiting) + 1)
        /\ DOMAIN pm_waiting = 1..Len(pm_waiting) /\ Len(pm_waiting) \in Nat
        /\ \A i \in 1..Len(pm_waiting) : pm_waiting'[i] = pm_waiting[i]
        /\ pm_waiting'[Len(pm_waiting) + 1] = t
    BY <2>1 DEF MutexInv
  <2>5. t # pm_owner
    BY <1>1 DEF MutexInv, Inside
  <2>6. \A i \in DOMAIN pm_waiting' :
          \/ i \in DOMAIN pm_waiting
          \/ i = Len(pm_waiting) + 1
    BY <2>4
  <2>7. PM!TypeOK'
    BY <1>1, <2>1, <2>2, <2>3, <2>4, <2>5, <2>6 DEF MutexInv, PM!TypeOK
  <2>8. \A i, j \in DOMAIN pm_waiting' : i # j => pm_waiting'[i] # pm_waiting'[j]
    BY <2>3, <2>4, <2>6 DEF MutexInv
  <2>9. MutexInv'
    BY <1>1, <2>1, <2>2, <2>4, <2>7, <2>8
    DEF MutexInv, Inside, LastCreated, PM!Threads, PM!Changers
  <2> QED
    BY <1>1, <2>1, <2>2, <2>9 DEF NamesInv
<1> QED
  BY <1>2, <1>3

LEMMA MutexStep == MutexInv /\ NamesInv /\ [PM!Next]_pm_vars => MutexInv' /\ NamesInv'
<1> SUFFICES ASSUME MutexInv, NamesInv, [PM!Next]_pm_vars PROVE MutexInv' /\ NamesInv'
  OBVIOUS
<1> USE ProgramsAssumption
<1>1. CASE PM!Create /\ pm_pc["main"] # "returned"
  <2>1. PICK t \in PM!Changers :
          /\ pm_pc[t] = "none" /\ (pm_mutexProgram = "test_mutex" => t # "my")
          /\ pm_pc' = [pm_pc EXCEPT ![t] = "start",
                                     !["main"] = IF t = LastCreated THEN "start" ELSE @]
    BY <1>1, MutexCreate
  <2>2. UNCHANGED <<pm_mutexProgram, pm_owner, pm_waiting, pm_first, pm_last, pm_round>>
    BY <1>1 DEF PM!Create
  <2>3. pm_pc["main"] = "create"
    BY <1>1 DEF PM!Create
  <2>4. /\ pm_pc' \in [PM!Threads -> {"none", "create", "start", "blocked", "locked", "half",
                                      "changed", "done", "returned"}]
        /\ \A s \in PM!Threads : pm_pc'[s] =
             IF s = t THEN "start"
             ELSE IF s = "main" /\ t = LastCreated THEN "start" ELSE pm_pc[s]
    BY <2>1 DEF MutexInv, PM!TypeOK, PM!Threads, PM!Changers
  <2>5. PM!TypeOK'
    BY <2>1, <2>2, <2>3, <2>4 DEF MutexInv, PM!TypeOK
  <2>6. MutexInv'
    BY <2>1, <2>2, <2>3, <2>4, <2>5 DEF MutexInv, Inside, LastCreated, PM!Threads, PM!Changers
  <2>7. NamesInv'
    BY <2>2, <2>4 DEF NamesInv
  <2> QED
    BY <2>6, <2>7
<1>2. ASSUME NEW t \in PM!Threads, PM!Lock(t), pm_pc["main"] # "returned"
      PROVE  MutexInv' /\ NamesInv'
  BY <1>2, MutexLock
<1>3. ASSUME NEW t \in PM!Threads, PM!Unlock(t), pm_pc["main"] # "returned"
      PROVE  MutexInv' /\ NamesInv'
  <2>1. pm_pc[t] \in {"locked", "changed"} /\ PM!HandOn(t)
    BY <1>3 DEF PM!Unlock
  <2>2. pm_owner = t /\ pm_first = pm_last
    BY <2>1 DEF MutexInv, NamesInv, Inside
  <2> QED
    BY <1>3, <2>1, <2>2, MutexHandOn
<1>4. ASSUME NEW t \in PM!Changers, PM!FirstName(t) \/ PM!LastName(t)
      PROVE  MutexInv' /\ NamesInv'
  <2>1. /\ t # "main" /\ t \in PM!Threads /\ pm_pc[t] \in {"locked", "half"}
        /\ UNCHANGED <<pm_mutexProgram, pm_owner, pm_waiting, pm_round>>
        /\ pm_pc' = [pm_pc EXCEPT ![t] = IF pm_pc[t] = "locked" THEN "half" ELSE "changed"]
    BY <1>4 DEF PM!FirstName, PM!LastName, PM!Threads, PM!Changers
  <2>2. /\ pm_owner = t
        /\ \A s \in PM!Threads : pm_pc[s] \in Inside => s = t
        /\ t # PM!Nobody
    BY <2>1 DEF MutexInv, Inside, PM!Nobody, PM!Changers
  <2>3. /\ pm_pc' \in [PM!Threads -> {"none", "create", "start", "blocked", "locked", "half",
                                      "changed", "done", "returned"}]
        /\ \A s \in PM!Threads \ {t} : pm_pc'[s] = pm_pc[s]
        /\ pm_pc'[t] = IF pm_pc[t] = "locked" THEN "half" ELSE "changed"
    BY <2>1 DEF MutexInv, PM!TypeOK
  <2>4. \A i \in DOMAIN pm_waiting : pm_waiting[i] # t
    BY <2>1 DEF MutexInv, PM!TypeOK
  <2>5. PM!TypeOK'
    BY <2>1, <2>3, <2>4 DEF MutexInv, PM!TypeOK
  <2>6. MutexInv'
    BY <2>1, <2>2, <2>3, <2>5 DEF MutexInv, Inside, LastCreated, PM!Threads, PM!Changers
  <2>7. NamesInv'
    BY <1>4, <2>1, <2>2, <2>3 DEF NamesInv, Inside, PM!FirstName, PM!LastName
  <2> QED
    BY <2>6, <2>7
<1>5. CASE UNCHANGED pm_vars
  <2>1. MutexInv'
    BY <1>5 DEF MutexInv, PM!TypeOK, LastCreated, pm_vars
  <2>2. NamesInv'
    BY <1>5 DEF NamesInv, pm_vars
  <2> QED
    BY <2>1, <2>2
<1> QED
  BY <1>1, <1>2, <1>3, <1>4, <1>5 DEF PM!Next, pm_vars, PM!vars

LEMMA MutexAlways == Spec => [](MutexInv /\ NamesInv)
<1>1. Init => MutexInv /\ NamesInv
  BY MutexInit DEF Init
<1>2. MutexInv /\ NamesInv /\ [Next]_vars => (MutexInv /\ NamesInv)'
  BY ThreadSteps, MutexStep
<1> QED
  BY <1>1, <1>2, PTL DEF Spec

\* Whoever has presidentmutex and has not begun to change anything sees a first
\* and a last name that belong together, and so does who finds the mutex free.
THEOREM NamesBelongTogether == Spec => []NamesFit
<1>1. MutexInv /\ NamesInv => NamesFit
  BY DEF MutexInv, NamesInv, NamesFit, PM!NamesFit, PM!TypeOK, PM!Nobody
<1> QED
  BY <1>1, MutexAlways, PTL
-------------------------------------------------------------------------------
\* Signals. Nothing cuts a sleep that has not begun; after it a handler is there,
\* or the process is not.

SignalTypes ==
  /\ sg_main \in {"start", "set_up", "sleeping", "slept", "exited"}
  /\ sg_sigThread \in {"none", "start", "listening", "in_myHandler"}
  /\ sg_masked \subseteq {"main", "sig_thread"}

SignalFlags ==
  /\ sg_handled \in BOOLEAN /\ sg_pending \in BOOLEAN /\ sg_killed \in BOOLEAN /\ sg_cut \in BOOLEAN
  /\ sg_main \in {"start", "set_up"} => ~sg_cut
  /\ sg_cut => sg_killed \/ sg_handled

SignalInv == SignalTypes /\ SignalFlags

LEMMA SignalStep == SignalInv /\ [SG!Next]_sg_vars => SignalInv'
<1> SUFFICES ASSUME SignalInv, [SG!Next]_sg_vars PROVE SignalInv'
  OBVIOUS
<1>1. SignalTypes'
  BY DEF SignalInv, SignalTypes, SG!Next, SG!SetUp, SG!BeginSleep, SG!SleepOut, SG!Exit, SG!Listen,
         SG!Slay, SG!Caught, SG!Taken, SG!Open, sg_vars
<1> SUFFICES SignalFlags'
  BY <1>1 DEF SignalInv
<1> USE DEF SignalInv, SignalFlags
<1>2. CASE ~sg_killed /\ SG!SetUp
  BY <1>2, Zenon DEF SG!SetUp
<1>3. CASE SG!BeginSleep \/ SG!SleepOut \/ SG!Exit
  BY <1>3 DEF SG!BeginSleep, SG!SleepOut, SG!Exit
<1>4. CASE SG!Listen \/ SG!Slay \/ SG!Caught
  <2>1. sg_pending' \in BOOLEAN /\ UNCHANGED <<sg_main, sg_handled, sg_killed, sg_cut>>
    BY <1>4, Zenon DEF SG!Listen, SG!Slay, SG!Caught
  <2> QED
    BY <2>1
<1>5. ASSUME NEW t \in {"main", "sig_thread"}, SG!Taken(t) PROVE SignalFlags'
  BY <1>5 DEF SG!Taken
<1>6. CASE UNCHANGED sg_vars
  BY <1>6 DEF sg_vars
<1> QED
  BY <1>2, <1>3, <1>4, <1>5, <1>6 DEF SG!Next, sg_vars, SG!vars

LEMMA SignalAlways == Spec => []SignalInv
<1>1. Init => SignalInv
  BY DEF Init, SG!Init, SignalInv, SignalTypes, SignalFlags
<1>2. SignalInv /\ [Next]_vars => SignalInv'
  BY ThreadSteps, SignalStep
<1> QED
  BY <1>1, <1>2, PTL DEF Spec
===============================================================================
