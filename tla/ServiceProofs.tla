----------------------------- MODULE ServiceProofs -----------------------------
(*****************************************************************************)
(* Proofs about the programs of Programs that serve others: the resource     *)
(* managers of a device with a buffer and of /dev/Null, the MD5 service, the *)
(* servers of messages; and the types of all the programs.                   *)
(*****************************************************************************)
EXTENDS ThreadProofs, IpcProofs

\* A step of Programs is, for each program, a step of its own or none.
LEMMA ServiceSteps ==
  [Next]_vars =>
    [DB!Next]_db_vars /\ [ND!Next]_nd_vars /\ [MD!Next]_md_vars /\ [MP!Next]_mp_vars
BY DEF Next, vars

-------------------------------------------------------------------------------
\* Device. Whoever is between lock and unlock has the mutex, has its descriptor at
\* the place, and finds there what was written last.

DeviceTypes ==
  /\ db_at \in [DB!Threads -> {"open", "lock", "seek", "transfer", "unlock"}]
  /\ db_mutex \in DB!Threads \cup {"nobody"}
  /\ db_buffer \in [0..(Cells - 1) -> -Cells..MaxWrites]
  /\ db_offset \in [DB!Threads -> -1..Cells] /\ db_num \in [DB!Threads -> -1..1]
  /\ db_data \in [DB!Threads -> -Cells..MaxWrites] /\ db_data["writer"] \in 1..MaxWrites

DeviceInv ==
  /\ DeviceTypes
  /\ db_attached \in BOOLEAN
  /\ \A t \in DB!Threads : db_at[t] \in {"seek", "transfer", "unlock"} <=> db_mutex = t
  /\ \A t \in DB!Threads : db_at[t] = "transfer" => db_offset[t] \in {-1, Place}
  /\ db_latest = db_buffer[Place]
  /\ DB!ReadsLastWritten

LEMMA DeviceInit == DB!Init => DeviceInv
<1> SUFFICES ASSUME DB!Init PROVE DeviceInv
  OBVIOUS
<1> USE DeviceAssumption DEF DB!Init, DB!Threads
<1>1. DeviceTypes
  BY DEF DeviceTypes
<1>2. db_attached \in BOOLEAN
  OBVIOUS
<1> QED
  BY <1>1, <1>2 DEF DeviceInv, DB!ReadsLastWritten

LEMMA DeviceStep == DeviceInv /\ [DB!Next]_db_vars => DeviceInv'
<1> SUFFICES ASSUME DeviceInv, [DB!Next]_db_vars PROVE DeviceInv'
  OBVIOUS
<1> DEFINE Rest ==
      /\ \A t \in DB!Threads : db_at[t] \in {"seek", "transfer", "unlock"} <=> db_mutex = t
      /\ \A t \in DB!Threads : db_at[t] = "transfer" => db_offset[t] \in {-1, Place}
      /\ db_latest = db_buffer[Place]
      /\ DB!ReadsLastWritten
<1> USE DeviceAssumption DEF DB!Threads
<1>1. DeviceTypes /\ Rest
  BY DEF DeviceInv
<1>2. db_attached' \in BOOLEAN
  <2>1. db_attached' = db_attached \/ db_attached' = TRUE
    BY DEF DB!Next, DB!Attach, DB!Open, DB!Lock, DB!Seek, DB!io_read, DB!io_write, DB!Unlock, db_vars
  <2> QED
    BY <2>1 DEF DeviceInv
<1> SUFFICES DeviceTypes' /\ Rest'
  BY <1>2 DEF DeviceInv
<1>3. CASE DB!Attach
  <2>1. UNCHANGED <<db_buffer, db_at, db_offset, db_mutex, db_data, db_num, db_latest>>
    BY <1>3 DEF DB!Attach
  <2> QED
    BY <1>1, <2>1 DEF DeviceTypes, DB!ReadsLastWritten
<1>4. ASSUME NEW t \in DB!Threads, DB!Open(t) PROVE DeviceTypes' /\ Rest'
  <2>1. /\ db_at[t] = "open" /\ db_at' = [db_at EXCEPT ![t] = "lock"]
        /\ db_offset' = [db_offset EXCEPT ![t] = 0] \/ db_offset' = [db_offset EXCEPT ![t] = -1]
        /\ UNCHANGED <<db_buffer, db_mutex, db_data, db_num, db_latest>>
    BY <1>4 DEF DB!Open
  <2>2. DeviceTypes'
    <3>1. db_offset' \in [DB!Threads -> -1..Cells]
      BY <1>1, <2>1 DEF DeviceTypes
    <3>2. db_at' \in [DB!Threads -> {"open", "lock", "seek", "transfer", "unlock"}]
      BY <1>1, <2>1 DEF DeviceTypes
    <3> QED
      BY <1>1, <2>1, <3>1, <3>2 DEF DeviceTypes
  <2>3. \A s \in DB!Threads \ {t} : db_at'[s] = db_at[s] /\ db_offset'[s] = db_offset[s]
    BY <1>1, <2>1 DEF DeviceTypes
  <2>4. db_at'[t] = "lock"
    BY <1>1, <2>1 DEF DeviceTypes
  <2> QED
    BY <1>1, <2>1, <2>2, <2>3, <2>4 DEF DB!ReadsLastWritten
<1>5. ASSUME NEW t \in DB!Threads, DB!Lock(t) PROVE DeviceTypes' /\ Rest'
  BY <1>1, <1>5 DEF DB!Lock, DeviceTypes, DB!ReadsLastWritten
<1>6. ASSUME NEW t \in DB!Threads, DB!Seek(t) PROVE DeviceTypes' /\ Rest'
  <2>1. /\ db_at[t] = "seek" /\ db_mutex = t /\ db_at' = [db_at EXCEPT ![t] = "transfer"]
        /\ \/ db_offset' = [db_offset EXCEPT ![t] = Place]
           \/ db_offset' = [db_offset EXCEPT ![t] = -1]
        /\ UNCHANGED <<db_buffer, db_mutex, db_data, db_num, db_latest>>
    BY <1>1, <1>6 DEF DB!Seek
  <2>2. DeviceTypes'
    <3>1. db_offset' \in [DB!Threads -> -1..Cells]
      BY <1>1, <2>1 DEF DeviceTypes
    <3>2. db_at' \in [DB!Threads -> {"open", "lock", "seek", "transfer", "unlock"}]
      BY <1>1, <2>1 DEF DeviceTypes
    <3> QED
      BY <1>1, <2>1, <3>1, <3>2 DEF DeviceTypes
  <2>3. \A s \in DB!Threads : /\ db_at'[s] = IF s = t THEN "transfer" ELSE db_at[s]
                             /\ s # t => db_offset'[s] = db_offset[s]
    BY <1>1, <2>1 DEF DeviceTypes
  <2>4. db_offset'[t] \in {-1, Place}
    BY <1>1, <2>1 DEF DeviceTypes
  <2> QED
    BY <1>1, <2>1, <2>2, <2>3, <2>4 DEF DB!ReadsLastWritten
<1>7. ASSUME NEW t \in DB!Threads, DB!io_read(t) PROVE DeviceTypes' /\ Rest'
  <2>1. /\ t = "reader" /\ db_at["reader"] = "transfer" /\ db_mutex = "reader"
        /\ db_at["writer"] \notin {"seek", "transfer", "unlock"}
        /\ db_at' = [db_at EXCEPT !["reader"] = "unlock"]
        /\ UNCHANGED <<db_buffer, db_mutex, db_latest>>
    BY <1>1, <1>7 DEF DB!io_read
  <2>2. \/ /\ db_num' = [db_num EXCEPT !["reader"] = -1] /\ UNCHANGED <<db_data, db_offset>>
        \/ /\ db_num' = [db_num EXCEPT !["reader"] = 1]
           /\ db_data' = [db_data EXCEPT !["reader"] = db_latest]
           /\ db_offset' = [db_offset EXCEPT !["reader"] = Place + 1]
    BY <1>1, <1>7, <2>1 DEF DB!io_read
  <2>3. DeviceTypes'
    <3>1. /\ db_num' = [db_num EXCEPT !["reader"] = -1] \/ db_num' = [db_num EXCEPT !["reader"] = 1]
          /\ UNCHANGED db_offset \/ db_offset' = [db_offset EXCEPT !["reader"] = Place + 1]
      BY <2>2
    <3>5. db_num' \in [DB!Threads -> -1..1]
      BY <1>1, <3>1 DEF DeviceTypes
    <3>6. db_offset' \in [DB!Threads -> -1..Cells]
      <4>1. Place + 1 \in -1..Cells
        OBVIOUS
      <4>2. db_offset \in [DB!Threads -> -1..Cells]
        BY <1>1 DEF DeviceTypes
      <4> QED
        BY ONLY <3>1, <4>1, <4>2 DEF DB!Threads
    <3>2. db_latest \in -Cells..MaxWrites
      BY <1>1 DEF DeviceTypes
    <3>3. db_data' \in [DB!Threads -> -Cells..MaxWrites] /\ db_data'["writer"] \in 1..MaxWrites
      <4>1. UNCHANGED db_data \/ db_data' = [db_data EXCEPT !["reader"] = db_latest]
        BY <2>2
      <4> QED
        BY <1>1, <3>2, <4>1 DEF DeviceTypes
    <3>4. db_at' \in [DB!Threads -> {"open", "lock", "seek", "transfer", "unlock"}]
      BY <1>1, <2>1 DEF DeviceTypes
    <3> QED
      BY <1>1, <2>1, <3>3, <3>4, <3>5, <3>6 DEF DeviceTypes
  <2>4. db_at'["reader"] = "unlock" /\ db_at'["writer"] = db_at["writer"]
    BY <1>1, <2>1 DEF DeviceTypes
  <2>5. db_num'["reader"] = 1 => db_data'["reader"] = db_latest
    BY <1>1, <2>2 DEF DeviceTypes
  <2> QED
    BY <1>1, <2>1, <2>3, <2>4, <2>5 DEF DB!ReadsLastWritten
<1>8. ASSUME NEW t \in DB!Threads, DB!io_write(t) PROVE DeviceTypes' /\ Rest'
  <2>1. /\ t = "writer" /\ db_at["writer"] = "transfer" /\ db_mutex = "writer"
        /\ db_at["reader"] \notin {"seek", "transfer", "unlock"}
        /\ db_at' = [db_at EXCEPT !["writer"] = "unlock"]
        /\ db_num' = [db_num EXCEPT !["writer"] = -1] \/ db_num' = [db_num EXCEPT !["writer"] = 1]
        /\ UNCHANGED <<db_offset, db_mutex, db_data>>
    BY <1>1, <1>8 DEF DB!io_write
  <2>2. db_buffer' \in [0..(Cells - 1) -> -Cells..MaxWrites] /\ db_latest' = db_buffer'[Place]
    <3>1. CASE db_offset["writer"] = -1
      BY <1>1, <1>8, <2>1, <3>1 DEF DB!io_write, DeviceTypes
    <3>2. CASE db_offset["writer"] = Place
      <4>1. \/ /\ db_buffer' = [db_buffer EXCEPT ![Place] = db_data["writer"]]
               /\ db_latest' = db_data["writer"]
            \/ UNCHANGED <<db_buffer, db_latest>>
        BY <1>8, <2>1, <3>2 DEF DB!io_write
      <4> QED
        BY <1>1, <4>1 DEF DeviceTypes
    <3> QED
      BY <1>1, <2>1, <3>1, <3>2
  <2>3. DeviceTypes'
    <3>1. db_num' \in [DB!Threads -> -1..1]
      BY <1>1, <2>1 DEF DeviceTypes
    <3>2. db_at' \in [DB!Threads -> {"open", "lock", "seek", "transfer", "unlock"}]
      BY <1>1, <2>1 DEF DeviceTypes
    <3> QED
      BY <1>1, <2>1, <2>2, <3>1, <3>2 DEF DeviceTypes
  <2> QED
    BY <1>1, <2>1, <2>2, <2>3 DEF DeviceTypes, DB!ReadsLastWritten
<1>9. ASSUME NEW t \in DB!Threads, DB!Unlock(t) PROVE DeviceTypes' /\ Rest'
  <2>1. /\ db_at[t] = "unlock" /\ db_mutex = t /\ (t = "writer" => db_data[t] < MaxWrites)
        /\ db_at' = [db_at EXCEPT ![t] = "lock"] /\ db_mutex' = "nobody"
        /\ UNCHANGED <<db_buffer, db_offset, db_num, db_latest>>
    BY <1>1, <1>9 DEF DB!Unlock
  <2>2. /\ t = "writer" => db_data' = [db_data EXCEPT !["writer"] = db_data["writer"] + 1]
        /\ t # "writer" => db_data' = db_data
    BY <1>9 DEF DB!Unlock
  <2>3. db_data' \in [DB!Threads -> -Cells..MaxWrites] /\ db_data'["writer"] \in 1..MaxWrites
    <3>1. CASE t = "writer"
      <4>1. db_data["writer"] + 1 \in 1..MaxWrites /\ db_data["writer"] + 1 \in -Cells..MaxWrites
        <5>1. db_data["writer"] \in 1..MaxWrites /\ db_data["writer"] < MaxWrites
          BY <1>1, <2>1, <3>1 DEF DeviceTypes
        <5> QED
          BY ONLY <5>1, DeviceAssumption
      <4> QED
        BY <1>1, <2>2, <3>1, <4>1 DEF DeviceTypes
    <3>2. CASE t # "writer"
      BY <1>1, <2>2, <3>2 DEF DeviceTypes
    <3> QED
      BY <3>1, <3>2
  <2>4. db_at' \in [DB!Threads -> {"open", "lock", "seek", "transfer", "unlock"}]
    BY <1>1, <2>1 DEF DeviceTypes
  <2>5. DeviceTypes'
    BY <1>1, <2>1, <2>3, <2>4 DEF DeviceTypes
  <2>6. \A s \in DB!Threads : db_at'[s] = IF s = t THEN "lock" ELSE db_at[s]
    BY <1>1, <2>1 DEF DeviceTypes
  <2>7. db_at'["reader"] # "unlock"
    BY <1>1, <2>1, <2>6
  <2> QED
    BY <1>1, <2>1, <2>5, <2>6, <2>7 DEF DB!ReadsLastWritten
<1>10. CASE UNCHANGED db_vars
  BY <1>1, <1>10 DEF db_vars, DeviceTypes, DB!ReadsLastWritten
<1> QED
  BY <1>3, <1>4, <1>5, <1>6, <1>7, <1>8, <1>9, <1>10 DEF DB!Next, db_vars, DB!vars

LEMMA DeviceAlways == Spec => []DeviceInv
<1>1. Init => DeviceInv
  BY DeviceInit DEF Init
<1>2. DeviceInv /\ [Next]_vars => DeviceInv'
  BY ServiceSteps, DeviceStep
<1> QED
  BY <1>1, <1>2, PTL DEF Spec

\* What a read has brought is, while the reader still has the mutex, what was
\* written last, for any place in a buffer of any size.
THEOREM LastWriteRead == Spec => []ReadsLastWritten
<1>1. DeviceInv => ReadsLastWritten
  BY DEF DeviceInv, ReadsLastWritten
<1> QED
  BY <1>1, DeviceAlways, PTL

-------------------------------------------------------------------------------
\* Null device. The receive buffer has its size, and nothing is known of what
\* earlier messages left in it: that the string ends where the write ended is
\* seen in the one step that puts the NUL there.

PrintInv ==
  /\ DOMAIN nd_buffer = 0..(msg_max_size - 1)
  /\ ND!PrintedAsWritten

NullTypes ==
  /\ nd_request \in [kind : ND!Kinds \cup {"none"}, nbytes : 0..MaxBytes, xtype : 0..2]
  /\ nd_answer \in 0..ND!EBADF /\ nd_printed \in 0..ND!RunsOn
  /\ nd_flags \subseteq {"ATIME", "MTIME", "CTIME"}

BufferType == nd_buffer \in [0..(msg_max_size - 1) -> BOOLEAN]

\* A string ends at the first NUL from where it begins.
LEMMA EndsAtFirstNul ==
  ASSUME NEW b, NEW n \in Nat, NEW first \in Nat,
         first + n \in DOMAIN b, DOMAIN b \subseteq Nat, b[first + n],
         \A i \in DOMAIN b : first <= i /\ i < first + n => ~b[i]
  PROVE  ND!StringLength(b, first) = n
<1> DEFINE ends == {i \in DOMAIN b : i >= first /\ b[i]}
<1>1. first + n \in ends /\ ends \subseteq Nat
  OBVIOUS
<1>2. \A j \in ends : first + n <= j
  OBVIOUS
<1> DEFINE least == CHOOSE i \in ends : \A j \in ends : i <= j
<1> HIDE DEF ends
<1>3. least = first + n
  <2>1. \A i \in ends : (\A j \in ends : i <= j) => i = first + n
    BY <1>1, <1>2
  <2> QED
    BY <1>1, <1>2, <2>1
<1>4. ND!StringLength(b, first) = least - first
  BY <1>1 DEF ND!StringLength, ends
<1> HIDE DEF least
<1> QED
  BY <1>3, <1>4

LEMMA WritePrinted ==
  ASSUME PrintInv, NEW n \in 0..MaxBytes, NEW xtype \in 0..2, NEW ok \in BOOLEAN,
         ND!io_write(n, xtype, ok)
  PROVE  PrintInv'
<1> USE DeviceAssumption
<1>1. DOMAIN ND!Received(n) = 0..(msg_max_size - 1)
  BY DEF ND!Received, PrintInv
<1>2. nd_request'.kind = "write" /\ nd_request'.nbytes = n
  BY DEF ND!io_write
<1>3. CASE ~ok \/ ND!Unsupported(xtype)
  BY <1>1, <1>2, <1>3 DEF ND!io_write, PrintInv, ND!PrintedAsWritten, ND!Errors
<1>4. CASE ok /\ ~ND!Unsupported(xtype) /\ ~ND!TerminatedInPlace(n)
  <2>1. nd_printed' = ND!StringLength(ND!Fetched(n), 0) /\ nd_buffer' = ND!Received(n)
    BY <1>4 DEF ND!io_write
  <2>2. ND!StringLength(ND!Fetched(n), 0) = n
    <3> HIDE DEF ND!Fetched
    <3>1. DOMAIN ND!Fetched(n) = 0..n /\ \A i \in 0..n : ND!Fetched(n)[i] = (i = n)
      BY DEF ND!Fetched
    <3>2. n \in 0..n /\ \A i \in 0..n : i < n => i # n
      OBVIOUS
    <3>3. ND!Fetched(n)[n] /\ \A i \in 0..n : i < n => ~ND!Fetched(n)[i]
      BY <3>1, <3>2, Zenon
    <3> QED
      BY <3>1, <3>3, EndsAtFirstNul
  <2> QED
    BY <1>1, <1>2, <2>1, <2>2 DEF PrintInv, ND!PrintedAsWritten
<1>5. CASE ok /\ ~ND!Unsupported(xtype) /\ ND!TerminatedInPlace(n)
  <2>1. ND!msglen(n) = Header + n /\ Header + n < msg_max_size
    BY <1>5 DEF ND!TerminatedInPlace, ND!msglen
  <2>2. /\ nd_buffer' = [i \in DOMAIN nd_buffer |-> i = Header + n \/ ND!Received(n)[i]]
        /\ nd_printed' = ND!StringLength(nd_buffer', Header)
    BY <1>5 DEF ND!io_write
  <2>3. \A i \in DOMAIN nd_buffer : i < Header + n => ND!Received(n)[i] = FALSE
    BY <2>1 DEF ND!Received
  <2>4. DOMAIN nd_buffer' = 0..(msg_max_size - 1)
    BY <2>2 DEF PrintInv
  <2> DEFINE k == Header + n
  <2>5. k \in DOMAIN nd_buffer' /\ \A i \in DOMAIN nd_buffer' : i < k => i # k
    BY <2>1, <2>4
  <2>6. nd_buffer'[k] /\ \A i \in DOMAIN nd_buffer' : i < k => ~nd_buffer'[i]
    <3> HIDE DEF k
    <3>1. \A i \in DOMAIN nd_buffer' : nd_buffer'[i] = (i = k \/ ND!Received(n)[i])
      BY <2>2, Zenon DEF k
    <3>2. \A i \in DOMAIN nd_buffer' : i < k => ND!Received(n)[i] = FALSE
      BY <2>2, <2>3 DEF k
    <3> QED
      BY <2>5, <3>1, <3>2, Zenon
  <2>7. nd_printed' = n
    <3>1. n \in Nat /\ Header \in Nat
      OBVIOUS
    <3>2. Header + n \in DOMAIN nd_buffer' /\ DOMAIN nd_buffer' \subseteq Nat
      BY <2>4, <2>5
    <3>3. /\ nd_buffer'[Header + n]
          /\ \A i \in DOMAIN nd_buffer' : Header <= i /\ i < Header + n => ~nd_buffer'[i]
      BY <2>6
    <3>4. ND!StringLength(nd_buffer', Header) = n
      BY ONLY <3>1, <3>2, <3>3, EndsAtFirstNul
    <3> QED
      BY <2>2, <3>4
  <2> QED
    BY <1>2, <2>4, <2>7 DEF PrintInv, ND!PrintedAsWritten
<1> QED
  BY <1>3, <1>4, <1>5

LEMMA PrintStep == PrintInv /\ [ND!Next]_nd_vars => PrintInv'
<1> SUFFICES ASSUME PrintInv, [ND!Next]_nd_vars PROVE PrintInv'
  OBVIOUS
<1>1. ASSUME NEW n \in 0..MaxBytes, NEW xtype \in 0..2, NEW ok \in BOOLEAN,
         ND!io_write(n, xtype, ok) PROVE PrintInv'
  BY <1>1, WritePrinted
<1>2. ASSUME NEW n \in 0..MaxBytes, NEW xtype \in 0..2, NEW ok \in BOOLEAN,
         ND!io_read(n, xtype, ok) PROVE PrintInv'
  BY <1>2 DEF ND!io_read, ND!Received, PrintInv, ND!PrintedAsWritten
<1>3. CASE UNCHANGED nd_vars
  BY <1>3 DEF nd_vars, PrintInv, ND!PrintedAsWritten
<1> QED
  BY <1>1, <1>2, <1>3 DEF ND!Next, nd_vars, ND!vars

LEMMA PrintAlways == Spec => []PrintInv
<1>1. Init => PrintInv
  BY DEF Init, ND!Init, PrintInv, ND!PrintedAsWritten
<1>2. PrintInv /\ [Next]_vars => PrintInv'
  BY ServiceSteps, PrintStep
<1> QED
  BY <1>1, <1>2, PTL DEF Spec

LEMMA NullTypesStep == NullTypes /\ PrintInv' /\ [ND!Next]_nd_vars => NullTypes'
<1> SUFFICES ASSUME NullTypes, PrintInv', [ND!Next]_nd_vars PROVE NullTypes'
  OBVIOUS
<1> USE DeviceAssumption DEF NullTypes, ND!Kinds, ND!Errors, ND!ENOSYS, ND!EBADF, ND!RunsOn
<1>1. ASSUME NEW n \in 0..MaxBytes, NEW xtype \in 0..2, NEW ok \in BOOLEAN,
         ND!io_write(n, xtype, ok) PROVE NullTypes'
  <2>1. /\ nd_request' = [kind |-> "write", nbytes |-> n, xtype |-> xtype]
        /\ nd_answer' \in {n} \cup ND!Errors
        /\ nd_flags' \subseteq nd_flags \cup {"MTIME", "CTIME"}
        /\ nd_answer' \in ND!Errors => nd_printed' = nd_printed
    BY <1>1 DEF ND!io_write
  <2>2. nd_answer' \notin ND!Errors => nd_printed' = n
    BY <2>1 DEF PrintInv, ND!PrintedAsWritten
  <2> QED
    BY <2>1, <2>2
<1>2. ASSUME NEW n \in 0..MaxBytes, NEW xtype \in 0..2, NEW ok \in BOOLEAN,
         ND!io_read(n, xtype, ok) PROVE NullTypes'
  <2>1. /\ nd_request' = [kind |-> "read", nbytes |-> n, xtype |-> xtype]
        /\ nd_answer' \in {0} \cup ND!Errors /\ nd_printed' = nd_printed
        /\ nd_flags' \subseteq nd_flags \cup {"ATIME"}
    BY <1>2 DEF ND!io_read
  <2> QED
    BY <2>1
<1>3. CASE UNCHANGED nd_vars
  BY <1>3 DEF nd_vars
<1> QED
  BY <1>1, <1>2, <1>3 DEF ND!Next, nd_vars, ND!vars

LEMMA BufferStep == BufferType /\ [ND!Next]_nd_vars => BufferType'
<1> SUFFICES ASSUME BufferType, [ND!Next]_nd_vars PROVE BufferType'
  OBVIOUS
<1>1. ASSUME NEW n PROVE ND!Received(n) \in [0..(msg_max_size - 1) -> BOOLEAN]
  BY Zenon DEF BufferType, ND!Received
<1>2. ASSUME NEW n \in 0..MaxBytes, NEW xtype \in 0..2, NEW ok \in BOOLEAN,
         ND!io_write(n, xtype, ok) PROVE BufferType'
  <2>1. \/ nd_buffer' = ND!Received(n)
        \/ nd_buffer' = [i \in DOMAIN nd_buffer |-> i = Header + n \/ ND!Received(n)[i]]
    BY <1>2 DEF ND!io_write
  <2> QED
    BY <1>1, <2>1, Zenon DEF BufferType
<1>3. ASSUME NEW n \in 0..MaxBytes, NEW xtype \in 0..2, NEW ok \in BOOLEAN,
         ND!io_read(n, xtype, ok) PROVE BufferType'
  BY <1>1, <1>3 DEF ND!io_read, BufferType
<1>4. CASE UNCHANGED nd_vars
  BY <1>4 DEF nd_vars, BufferType
<1> QED
  BY <1>2, <1>3, <1>4 DEF ND!Next, nd_vars, ND!vars

LEMMA NullAlways == Spec => [](PrintInv /\ NullTypes /\ BufferType)
<1>1. Init => NullTypes /\ BufferType
  BY DeviceAssumption DEF Init, ND!Init, NullTypes, BufferType, ND!EBADF, ND!RunsOn
<1>2. NullTypes /\ BufferType /\ PrintInv' /\ [Next]_vars => NullTypes' /\ BufferType'
  BY ServiceSteps, NullTypesStep, BufferStep
<1> QED
  BY <1>1, <1>2, PrintAlways, PTL DEF Spec

\* What is printed for a write is what was written, whatever the sizes of the
\* header, the buffer and the write, and whatever is left in the buffer.
THEOREM WritesPrinted == Spec => []PrintedAsWritten
<1>1. PrintInv => PrintedAsWritten
  BY DEF PrintInv, PrintedAsWritten
<1> QED
  BY <1>1, PrintAlways, PTL

-------------------------------------------------------------------------------
\* MD5 service. A client waits in the queue once, or is handled; and as long as
\* nobody else has come between, the context is its file as far as it was sent.

Blocks == Md5Clients \X (1..FileBlocks)

Md5States == {"opening", "connecting", "reading", "sending", "asking", "over", "killed"}
Calling(c) == md_state[c] \in {"connecting", "sending", "asking"}
Living(c)  == md_state[c] \in {"reading", "sending", "asking"}

Md5Types ==
  /\ md_ctx \in Seq(Blocks) /\ md_queue \in Seq(Md5Clients)
  /\ md_service \in {"receiving", "handling", "ended"}
  /\ md_asking \in Md5Clients \cup {MD!Nobody}
  /\ md_state \in [Md5Clients -> Md5States]
  /\ md_size \in [Md5Clients -> 0..FileBlocks]
  /\ md_sent \in [Md5Clients -> 0..FileBlocks] /\ \A c \in Md5Clients : md_sent[c] <= md_size[c]
  /\ md_msglen \in [Md5Clients -> 0..SendBlocks]
  /\ md_digest \in [Md5Clients -> SUBSET Seq(Blocks)]
  /\ md_among \subseteq Md5Clients

WaitOnce ==
  /\ \A i \in DOMAIN md_queue : Calling(md_queue[i])
  /\ \A i, j \in DOMAIN md_queue : i # j => md_queue[i] # md_queue[j]
  /\ md_service = "handling" =>
       /\ md_asking \in Md5Clients /\ md_state[md_asking] \in {"sending", "asking", "killed"}
       /\ \A i \in DOMAIN md_queue : md_queue[i] # md_asking

\* A message is of the file, also that of a client killed while it is handled.
InFile ==
  /\ \A c \in Md5Clients :
       /\ md_state[c] = "sending" => md_msglen[c] > 0 /\ md_sent[c] + md_msglen[c] <= md_size[c]
       /\ md_state[c] = "asking" => md_msglen[c] = 0 /\ md_sent[c] = md_size[c]
  /\ md_service = "handling" /\ md_msglen[md_asking] > 0 =>
       md_sent[md_asking] + md_msglen[md_asking] <= md_size[md_asking]

Digested ==
  \A c \in Md5Clients : Living(c) /\ ~md_spoiled[c] =>
    /\ c \notin md_among => md_sent[c] = 0
    /\ md_among \subseteq {c} => md_ctx = MD!File(c, 1, md_sent[c])

\* Nobody waits for a service that has ended.
Emptied == md_service = "ended" => md_queue = <<>>

Md5Inv == Md5Types /\ WaitOnce /\ Emptied /\ InFile /\ Digested /\ MD!DigestIsOwn

LEMMA FileIsSeq ==
  ASSUME NEW c \in Md5Clients, NEW i \in 0..FileBlocks, NEW n \in Nat, i + n <= FileBlocks
  PROVE  /\ MD!File(c, i + 1, i + n) \in Seq(Blocks)
         /\ Len(MD!File(c, i + 1, i + n)) = n
         /\ \A j \in 1..n : MD!File(c, i + 1, i + n)[j] = <<c, i + j>>
<1> DEFINE f == MD!File(c, i + 1, i + n)
<1> USE MessagesAssumption
<1>1. f = [j \in 1..n |-> <<c, i + j>>]
  <2>1. (i + n) + 1 - (i + 1) = n /\ \A j \in 1..n : (i + 1) + j - 1 = i + j
    OBVIOUS
  <2> QED
    BY <2>1 DEF MD!File, MD!Block
<1>2. \A j \in 1..n : <<c, i + j>> \in Blocks
  BY DEF Blocks
<1> HIDE DEF f
<1>3. f \in [1..n -> Blocks]
  BY <1>1, <1>2
<1>4. f \in Seq(Blocks)
  BY <1>3, SeqDef
<1>5. Len(f) = n
  BY <1>3, <1>4, LenProperties
<1> QED
  BY <1>1, <1>4, <1>5 DEF f

LEMMA FileFromStart ==
  ASSUME NEW c \in Md5Clients, NEW k \in 0..FileBlocks
  PROVE  /\ MD!File(c, 1, k) \in Seq(Blocks) /\ Len(MD!File(c, 1, k)) = k
         /\ \A j \in 1..k : MD!File(c, 1, k)[j] = <<c, j>>
<1> USE MessagesAssumption
<1>1. 0 \in 0..FileBlocks /\ k \in Nat /\ 0 + k <= FileBlocks
  OBVIOUS
<1>2. /\ MD!File(c, 0 + 1, 0 + k) \in Seq(Blocks) /\ Len(MD!File(c, 0 + 1, 0 + k)) = k
      /\ \A j \in 1..k : MD!File(c, 0 + 1, 0 + k)[j] = <<c, 0 + j>>
  BY ONLY <1>1, FileIsSeq
<1>3. 0 + 1 = 1 /\ 0 + k = k /\ \A j \in 1..k : 0 + j = j
  OBVIOUS
<1> QED
  BY <1>2, <1>3

LEMMA FileGrows ==
  ASSUME NEW c \in Md5Clients, NEW i \in 0..FileBlocks, NEW n \in Nat, i + n <= FileBlocks
  PROVE  MD!File(c, 1, i) \o MD!File(c, i + 1, i + n) = MD!File(c, 1, i + n)
<1> DEFINE a == MD!File(c, 1, i)
           b == MD!File(c, i + 1, i + n)
           d == MD!File(c, 1, i + n)
           r == a \o b
<1> USE MessagesAssumption
<1>1. /\ a \in Seq(Blocks) /\ Len(a) = i /\ \A j \in 1..i : a[j] = <<c, j>>
  BY FileFromStart
<1>2. /\ b \in Seq(Blocks) /\ Len(b) = n /\ \A j \in 1..n : b[j] = <<c, i + j>>
  BY FileIsSeq
<1>3. /\ d \in Seq(Blocks) /\ Len(d) = i + n /\ \A j \in 1..(i + n) : d[j] = <<c, j>>
  <2>1. i + n \in 0..FileBlocks
    OBVIOUS
  <2> QED
    BY <2>1, FileFromStart
<1> HIDE DEF a, b, d
<1>4. /\ r \in Seq(Blocks) /\ Len(r) = i + n
      /\ \A j \in 1..(i + n) : r[j] = IF j <= i THEN a[j] ELSE b[j - i]
  BY <1>1, <1>2, ConcatProperties
<1> HIDE DEF r
<1>5. ASSUME NEW j \in 1..(i + n) PROVE r[j] = d[j]
  <2>1. CASE j <= i
    <3>1. j \in 1..i
      BY <2>1
    <3>2. r[j] = a[j]
      BY <1>4, <2>1
    <3> QED
      BY <1>1, <1>3, <3>1, <3>2
  <2>2. CASE j > i
    <3>1. j - i \in 1..n /\ i + (j - i) = j
      BY <2>2
    <3>2. b[j - i] = <<c, i + (j - i)>>
      BY <1>2, <3>1
    <3> QED
      <4>1. ~(j <= i)
        BY <2>2
      <4>2. r[j] = b[j - i]
        BY <1>4, <4>1
      <4> QED
        BY <1>3, <3>1, <3>2, <4>2
  <2> QED
    BY <2>1, <2>2
<1>6. r = d
  BY <1>3, <1>4, <1>5, SeqEqual
<1> QED
  BY <1>6 DEF a, b, d, r

LEMMA NoFileYet ==
  ASSUME NEW c \in Md5Clients
  PROVE  MD!File(c, 1, 0) = <<>>
<1>1. 0 + 1 - 1 = 0 /\ 1..0 = {}
  OBVIOUS
<1> QED
  BY <1>1 DEF MD!File

LEMMA Md5Init == MD!Init => Md5Inv
<1> SUFFICES ASSUME MD!Init PROVE Md5Inv
  OBVIOUS
<1> USE MessagesAssumption DEF MD!Init
<1>1. <<>> \in Seq(Blocks) /\ <<>> \in Seq(Md5Clients) /\ Len(<<>>) = 0
  BY EmptySeq
<1>2. Md5Types
  <2>1. md_state \in [Md5Clients -> Md5States]
    BY DEF Md5States
  <2> QED
    BY <1>1, <2>1 DEF Md5Types
<1>3. WaitOnce /\ Emptied /\ InFile
  BY <1>1 DEF WaitOnce, Emptied, InFile
<1>4. Digested
  BY NoFileYet DEF Digested
<1> QED
  BY <1>2, <1>3, <1>4 DEF Md5Inv, MD!DigestIsOwn

\* Steps of a client or of the kernel, which leave what was digested alone.
LEMMA Undisturbed ==
  ASSUME Md5Inv, UNCHANGED <<md_ctx, md_sent, md_size, md_digest, md_among, md_spoiled>>,
         \A c \in Md5Clients : Living(c)' => Living(c)
  PROVE  Digested' /\ MD!DigestIsOwn'
<1>1. Digested'
  BY DEF Md5Inv, Digested
<1>2. MD!DigestIsOwn'
  BY DEF Md5Inv, MD!DigestIsOwn
<1> QED
  BY <1>1, <1>2

\* A client sends a message, and waits; or it ends.
LEMMA Md5Ask ==
  ASSUME Md5Inv, NEW c \in Md5Clients, NEW waits \in {"connecting", "sending", "asking"},
         MD!Ask(c, waits), md_state[c] \in {"opening", "reading"},
         waits # "connecting" => md_state[c] = "reading",
         md_msglen' \in [Md5Clients -> 0..SendBlocks],
         \A d \in Md5Clients \ {c} : md_msglen'[d] = md_msglen[d],
         waits = "sending" => md_msglen'[c] > 0 /\ md_sent[c] + md_msglen'[c] <= md_size[c],
         waits = "asking" => md_msglen'[c] = 0 /\ md_sent[c] = md_size[c]
  PROVE  Md5Inv'
<1> USE MessagesAssumption
<1>1. UNCHANGED <<md_ctx, md_service, md_asking, md_size, md_sent, md_digest, md_among, md_spoiled>>
  BY DEF MD!Ask
<1>2. /\ \A i \in DOMAIN md_queue : md_queue[i] # c /\ md_queue[i] \in Md5Clients
      /\ md_service = "handling" => md_asking \in Md5Clients \ {c}
  <2>1. \A i \in DOMAIN md_queue : md_queue[i] \in Md5Clients
    BY DEF Md5Inv, Md5Types
  <2> QED
    BY <2>1 DEF Md5Inv, WaitOnce, Calling
<1>3. CASE md_service = "ended"
  <2>1. /\ md_state' = [md_state EXCEPT ![c] = "over"] /\ UNCHANGED md_queue
    BY <1>3 DEF MD!Ask
  <2>2. Md5Types'
    BY <1>1, <2>1 DEF Md5Inv, Md5Types, Md5States
  <2>3. \A d \in Md5Clients : md_state'[d] = IF d = c THEN "over" ELSE md_state[d]
    BY <2>1 DEF Md5Inv, Md5Types
  <2>4. WaitOnce'
    BY <1>1, <1>2, <1>3, <2>1, <2>3 DEF Md5Inv, WaitOnce, Calling
  <2>5. InFile'
    BY <1>1, <1>3, <2>1, <2>3 DEF Md5Inv, InFile
  <2>6. Digested' /\ MD!DigestIsOwn'
    BY <1>1, <2>3, Undisturbed DEF Living
  <2>7. Emptied'
    BY <1>1, <2>1 DEF Md5Inv, Emptied
  <2> QED
    BY <2>2, <2>4, <2>5, <2>6, <2>7 DEF Md5Inv
<1>4. CASE md_service # "ended"
  <2>1. /\ md_state' = [md_state EXCEPT ![c] = waits] /\ md_queue' = Append(md_queue, c)
    BY <1>4 DEF MD!Ask
  <2>2. \A d \in Md5Clients : md_state'[d] = IF d = c THEN waits ELSE md_state[d]
    BY <2>1 DEF Md5Inv, Md5Types
  <2>3. /\ md_queue' \in Seq(Md5Clients) /\ DOMAIN md_queue' = 1..(Len(md_queue) + 1)
        /\ DOMAIN md_queue = 1..Len(md_queue) /\ Len(md_queue) \in Nat
        /\ \A i \in 1..Len(md_queue) : md_queue'[i] = md_queue[i]
        /\ md_queue'[Len(md_queue) + 1] = c
    BY <2>1 DEF Md5Inv, Md5Types
  <2>4. \A i \in DOMAIN md_queue' : i \in DOMAIN md_queue \/ i = Len(md_queue) + 1
    BY <2>3
  <2>5. Md5Types'
    BY <1>1, <2>1, <2>3 DEF Md5Inv, Md5Types, Md5States
  <2>6. WaitOnce'
    <3>1. \A i \in DOMAIN md_queue' : md_state'[md_queue'[i]] \in {"connecting", "sending", "asking"}
      BY <1>2, <2>2, <2>3, <2>4 DEF Md5Inv, WaitOnce, Calling
    <3>2. \A i, j \in DOMAIN md_queue' : i # j => md_queue'[i] # md_queue'[j]
      BY <1>2, <2>3, <2>4 DEF Md5Inv, WaitOnce
    <3>3. md_service' = "handling" =>
            /\ md_asking' \in Md5Clients
            /\ md_state'[md_asking'] \in {"sending", "asking", "killed"}
            /\ \A i \in DOMAIN md_queue' : md_queue'[i] # md_asking'
      BY <1>1, <1>2, <2>2, <2>3, <2>4 DEF Md5Inv, WaitOnce
    <3> QED
      BY <3>1, <3>2, <3>3 DEF WaitOnce, Calling
  <2>7. InFile'
    BY <1>1, <1>2, <2>2 DEF Md5Inv, InFile
  <2>8. Digested' /\ MD!DigestIsOwn'
    BY <1>1, <2>2, Undisturbed DEF Living
  <2> QED
    BY <1>1, <1>4, <2>5, <2>6, <2>7, <2>8 DEF Md5Inv, Emptied
<1> QED
  BY <1>3, <1>4

LEMMA Md5Call ==
  ASSUME Md5Inv, NEW c \in Md5Clients, NEW n \in 0..SendBlocks, MD!Call(c, n),
         n > 0 => md_sent[c] + n <= md_size[c], n = 0 => md_sent[c] = md_size[c]
  PROVE  Md5Inv'
<1> USE MessagesAssumption
<1> DEFINE waits == IF n > 0 THEN "sending" ELSE "asking"
<1>1. md_state[c] = "reading" /\ MD!Ask(c, waits) /\ md_msglen' = [md_msglen EXCEPT ![c] = n]
  BY DEF MD!Call
<1>2. /\ md_msglen' \in [Md5Clients -> 0..SendBlocks] /\ md_msglen'[c] = n
      /\ \A d \in Md5Clients \ {c} : md_msglen'[d] = md_msglen[d]
  BY <1>1 DEF Md5Inv, Md5Types
<1>3. /\ waits \in {"sending", "asking"} /\ (waits = "sending" => n > 0) /\ (waits = "asking" => n = 0)
  OBVIOUS
<1> HIDE DEF waits
<1> QED
  BY <1>1, <1>2, <1>3, Md5Ask

LEMMA Md5Open ==
  ASSUME Md5Inv, NEW c \in Md5Clients, MD!name_open(c)
  PROVE  Md5Inv'
<1>1. md_state[c] = "opening" /\ MD!Ask(c, "connecting") /\ UNCHANGED md_msglen
  BY DEF MD!name_open
<1>2. md_msglen' \in [Md5Clients -> 0..SendBlocks]
  BY <1>1 DEF Md5Inv, Md5Types
<1> QED
  BY <1>1, <1>2, Md5Ask

LEMMA Md5Kill ==
  ASSUME Md5Inv, NEW c \in Md5Clients, MD!Kill(c)
  PROVE  Md5Inv'
<1> USE MessagesAssumption
<1>1. /\ md_state' = [md_state EXCEPT ![c] = "killed"]
      /\ UNCHANGED <<md_ctx, md_service, md_asking, md_size, md_sent, md_msglen, md_digest,
                     md_among, md_spoiled>>
  BY DEF MD!Kill
<1>2. \A d \in Md5Clients : md_state'[d] = IF d = c THEN "killed" ELSE md_state[d]
  BY <1>1 DEF Md5Inv, Md5Types
<1>0. "killed" \in Md5States
  BY DEF Md5States
<1>3. /\ md_queue' \in Seq(Md5Clients)
      /\ \A i \in DOMAIN md_queue' : md_queue'[i] # c
      /\ \A i \in DOMAIN md_queue' : \E j \in DOMAIN md_queue : md_queue'[i] = md_queue[j]
      /\ \A i, j \in DOMAIN md_queue' : i # j => md_queue'[i] # md_queue'[j]
  <2>1. CASE ~\E i \in DOMAIN md_queue : md_queue[i] = c
    <3>1. md_queue' = md_queue
      BY <2>1 DEF MD!Kill
    <3> QED
      BY <2>1, <3>1 DEF Md5Inv, Md5Types, WaitOnce
  <2>2. CASE \E i \in DOMAIN md_queue : md_queue[i] = c
    <3>1. PICK n \in DOMAIN md_queue : md_queue[n] = c /\ md_queue' = MD!LeftBy(n)
      BY <2>2 DEF MD!Kill
    <3> DEFINE old(i) == IF i < n THEN i ELSE i + 1
               q == md_queue'
    <3>2. md_queue \in Seq(Md5Clients) /\ DOMAIN md_queue = 1..Len(md_queue) /\ Len(md_queue) \in Nat
      BY DEF Md5Inv, Md5Types
    <3>3. /\ q \in Seq(Md5Clients) /\ Len(q) = Len(md_queue) - 1
          /\ \A i \in 1..(Len(md_queue) - 1) : q[i] = md_queue[old(i)]
      BY <3>1, <3>2, WithoutNth DEF MD!LeftBy
    <3> HIDE DEF q
    <3>4. DOMAIN q = 1..(Len(md_queue) - 1)
      BY <3>3
    <3>5. \A i \in DOMAIN q : old(i) \in DOMAIN md_queue \ {n}
      BY <3>1, <3>2, <3>4
    <3>6. \A i, j \in DOMAIN q : i # j => old(i) # old(j)
      BY <3>1, <3>2, <3>4
    <3> HIDE DEF old
    <3>7. \A i, j \in DOMAIN md_queue : i # j => md_queue[i] # md_queue[j]
      BY DEF Md5Inv, WaitOnce
    <3>8. \A i \in DOMAIN q : q[i] = md_queue[old(i)]
      BY <3>3, <3>4
    <3> QED
      BY <3>1, <3>3, <3>5, <3>6, <3>7, <3>8 DEF q
  <2> QED
    BY <2>1, <2>2
<1>4. Md5Types'
  BY <1>0, <1>1, <1>3 DEF Md5Inv, Md5Types
<1>5. WaitOnce'
  <2>1. /\ \A j \in DOMAIN md_queue : Calling(md_queue[j]) /\ md_queue[j] \in Md5Clients
        /\ md_service = "handling" =>
             /\ md_asking \in Md5Clients /\ md_state[md_asking] \in {"sending", "asking", "killed"}
             /\ \A j \in DOMAIN md_queue : md_queue[j] # md_asking
    BY DEF Md5Inv, Md5Types, WaitOnce
  <2> QED
    BY <1>1, <1>2, <1>3, <2>1 DEF WaitOnce, Calling
<1>6. InFile'
  BY <1>1, <1>2 DEF Md5Inv, InFile
<1>7. Digested' /\ MD!DigestIsOwn'
  BY <1>1, <1>2, Undisturbed DEF Living
<1>8. Emptied'
  <2> SUFFICES ASSUME md_service = "ended" PROVE md_queue' = <<>>
    BY <1>1 DEF Emptied
  <2>1. md_queue = <<>> /\ DOMAIN md_queue = {}
    BY EmptySeq DEF Md5Inv, Emptied
  <2> QED
    BY <2>1 DEF MD!Kill
<1> QED
  BY <1>4, <1>5, <1>6, <1>7, <1>8 DEF Md5Inv

LEMMA Md5Receive ==
  ASSUME Md5Inv, MD!MsgReceive
  PROVE  Md5Inv'
<1>1. /\ md_queue # <<>> /\ md_queue' = Tail(md_queue) /\ md_service = "receiving"
      /\ \/ UNCHANGED <<md_asking, md_service>>
         \/ /\ md_state[Head(md_queue)] # "connecting"
            /\ md_asking' = Head(md_queue) /\ md_service' = "handling"
      /\ UNCHANGED <<md_ctx, md_state, md_size, md_sent, md_msglen, md_digest, md_among, md_spoiled>>
  BY DEF MD!MsgReceive, MD!client_state
<1>2. /\ md_queue \in Seq(Md5Clients) /\ DOMAIN md_queue = 1..Len(md_queue) /\ Len(md_queue) \in Nat \ {0}
  BY <1>1, EmptySeq, LenProperties DEF Md5Inv, Md5Types
<1>3. /\ Head(md_queue) = md_queue[1] /\ md_queue[1] \in Md5Clients
      /\ md_queue' \in Seq(Md5Clients) /\ DOMAIN md_queue' = 1..(Len(md_queue) - 1)
      /\ \A i \in DOMAIN md_queue' : md_queue'[i] = md_queue[i + 1]
  BY <1>1, <1>2, HeadTailProperties
<1>4. \A i \in DOMAIN md_queue' : i + 1 \in DOMAIN md_queue \ {1}
  BY <1>2, <1>3
<1>5. \A i, j \in DOMAIN md_queue' : i # j => i + 1 # j + 1
  BY <1>3
<1>6. Md5Types'
  BY <1>1, <1>3 DEF Md5Inv, Md5Types
<1>7. WaitOnce'
  <2>1. /\ \A j \in DOMAIN md_queue : Calling(md_queue[j])
        /\ \A i, j \in DOMAIN md_queue : i # j => md_queue[i] # md_queue[j]
        /\ 1 \in DOMAIN md_queue
    BY <1>2 DEF Md5Inv, WaitOnce
  <2> QED
    BY <1>1, <1>3, <1>4, <1>5, <2>1 DEF WaitOnce, Calling
<1>8. InFile'
  <2>1. md_service' = "handling" => md_asking' \in Md5Clients /\ md_state[md_asking'] \in {"sending", "asking"}
    <3>1. 1 \in DOMAIN md_queue
      BY <1>2
    <3>2. Calling(md_queue[1])
      BY <3>1 DEF Md5Inv, WaitOnce
    <3> QED
      BY <1>1, <1>3, <3>2 DEF Calling
  <2> QED
    BY <1>1, <2>1 DEF Md5Inv, InFile
<1>9. Digested' /\ MD!DigestIsOwn'
  BY <1>1, Undisturbed DEF Living
<1> QED
  BY <1>1, <1>6, <1>7, <1>8, <1>9 DEF Md5Inv, Emptied

LEMMA Md5SendData ==
  ASSUME Md5Inv, MD!SendData
  PROVE  Md5Inv'
<1> USE MessagesAssumption
<1> DEFINE a == md_asking
           n == md_msglen[a]
           i == md_sent[a]
<1> DEFINE then == IF md_state[a] = "killed" THEN md_state[a] ELSE "reading"
<1>1. /\ md_service = "handling" /\ n > 0
      /\ md_ctx' = md_ctx \o MD!File(a, i + 1, i + n)
      /\ md_sent' = [md_sent EXCEPT ![a] = i + n]
      /\ md_state' = [md_state EXCEPT ![a] = then]
      /\ md_service' = "receiving"
      /\ md_among' = md_among \cup {a}
      /\ UNCHANGED <<md_asking, md_queue, md_size, md_msglen, md_digest, md_spoiled>>
  BY DEF MD!SendData, MD!ReadFromCaller
<1>2. /\ a \in Md5Clients /\ md_state[a] \in {"sending", "killed"}
      /\ \A j \in DOMAIN md_queue : md_queue[j] # a /\ md_queue[j] \in Md5Clients /\ Calling(md_queue[j])
  <2>1. /\ a \in Md5Clients /\ md_state[a] \in {"sending", "asking", "killed"}
        /\ \A j \in DOMAIN md_queue : md_queue[j] # a /\ Calling(md_queue[j])
    BY <1>1 DEF Md5Inv, WaitOnce
  <2>2. md_state[a] = "asking" => n = 0
    BY <2>1 DEF Md5Inv, InFile
  <2> QED
    BY <1>1, <2>1, <2>2 DEF Calling, Md5Inv, Md5Types
<1>3. /\ i \in 0..FileBlocks /\ n \in Nat /\ i + n <= md_size[a] /\ md_size[a] \in 0..FileBlocks
      /\ i + n <= FileBlocks
  BY <1>1, <1>2 DEF Md5Inv, Md5Types, InFile
<1> HIDE DEF a, n, i
<1>4. MD!File(a, i + 1, i + n) \in Seq(Blocks)
  BY <1>2, <1>3, FileIsSeq
<1>5. md_ctx' \in Seq(Blocks)
  BY <1>1, <1>4, ConcatProperties DEF Md5Inv, Md5Types
<1>6. /\ md_sent' \in [Md5Clients -> 0..FileBlocks]
      /\ \A c \in Md5Clients : md_sent'[c] = IF c = a THEN i + n ELSE md_sent[c]
      /\ \A c \in Md5Clients : md_state'[c] = IF c = a THEN then ELSE md_state[c]
  BY <1>1, <1>2, <1>3 DEF Md5Inv, Md5Types
<1>7. Md5Types'
  <2>1. md_state' \in [Md5Clients -> Md5States]
    BY <1>1, <1>2 DEF Md5Inv, Md5Types, Md5States
  <2> QED
    BY <1>1, <1>2, <1>3, <1>5, <1>6, <2>1 DEF Md5Inv, Md5Types
<1>8. WaitOnce'
  BY <1>1, <1>2, <1>6 DEF Md5Inv, WaitOnce, Calling
<1>9. InFile'
  BY <1>1, <1>2, <1>6 DEF Md5Inv, InFile
<1>10. Digested'
  <2> SUFFICES ASSUME NEW c \in Md5Clients, Living(c)', ~md_spoiled'[c]
               PROVE  /\ c \notin md_among' => md_sent'[c] = 0
                      /\ md_among' \subseteq {c} => md_ctx' = MD!File(c, 1, md_sent'[c])
    BY DEF Digested
  <2>1. CASE c # a
    BY <1>1, <1>6, <2>1 DEF Md5Inv, Digested, Living
  <2>2. CASE c = a
    <3>1. Living(a) /\ ~md_spoiled[a]
      BY <1>1, <1>2, <1>6, <2>2 DEF Living
    <3>2. md_among \subseteq {a} => md_ctx = MD!File(a, 1, i)
      BY <1>2, <3>1 DEF Md5Inv, Digested, i, a
    <3>3. MD!File(a, 1, i) \o MD!File(a, i + 1, i + n) = MD!File(a, 1, i + n)
      BY <1>2, <1>3, FileGrows
    <3> QED
      BY <1>1, <1>2, <1>6, <2>2, <3>2, <3>3
  <2> QED
    BY <2>1, <2>2
<1>11. MD!DigestIsOwn'
  BY <1>1 DEF Md5Inv, MD!DigestIsOwn
<1> QED
  BY <1>1, <1>7, <1>8, <1>9, <1>10, <1>11 DEF Md5Inv, Emptied

LEMMA Md5ReceiveDigest ==
  ASSUME Md5Inv, MD!ReceiveDigest
  PROVE  Md5Inv'
<1> DEFINE a == md_asking
<1>1. /\ md_service = "handling" /\ md_msglen[a] = 0
      /\ md_ctx' = <<>> /\ md_service' = "receiving" /\ md_among' = {}
      /\ UNCHANGED <<md_asking, md_queue, md_size, md_sent, md_msglen>>
  BY DEF MD!ReceiveDigest
<1>2. /\ a \in Md5Clients /\ md_state[a] \in {"asking", "killed"}
      /\ \A j \in DOMAIN md_queue : md_queue[j] # a /\ md_queue[j] \in Md5Clients /\ Calling(md_queue[j])
  <2>1. /\ a \in Md5Clients /\ md_state[a] \in {"sending", "asking", "killed"}
        /\ \A j \in DOMAIN md_queue : md_queue[j] # a /\ Calling(md_queue[j])
    BY <1>1 DEF Md5Inv, WaitOnce
  <2>2. md_state[a] = "sending" => md_msglen[a] > 0
    BY <2>1 DEF Md5Inv, InFile
  <2> QED
    BY <1>1, <2>1, <2>2 DEF Calling, Md5Inv, Md5Types
<1>3. \/ md_state[a] = "killed" /\ UNCHANGED <<md_digest, md_state>>
      \/ /\ md_state[a] = "asking"
         /\ md_digest' = [md_digest EXCEPT ![a] = {md_ctx}]
         /\ md_state' = [md_state EXCEPT ![a] = "over"]
  BY <1>2 DEF MD!ReceiveDigest
<1>4. /\ \A c \in Md5Clients \ {a} : ~md_spoiled'[c] => ~md_spoiled[c] /\ c \notin md_among
      /\ ~md_spoiled'[a] => ~md_spoiled[a] /\ md_among \subseteq {a}
  <2>1. md_spoiled' = [c \in Md5Clients |->
                         IF c = a THEN md_spoiled[c] \/ ~(md_among \subseteq {c})
                         ELSE md_spoiled[c] \/ c \in md_among]
    BY DEF MD!ReceiveDigest
  <2> HIDE DEF a
  <2>2. \A c \in Md5Clients \ {a} : md_spoiled'[c] = (md_spoiled[c] \/ c \in md_among)
    BY <2>1
  <2>3. md_spoiled'[a] = (md_spoiled[a] \/ ~(md_among \subseteq {a}))
    BY <1>2, <2>1
  <2> QED
    BY <2>2, <2>3, Zenon
<1> HIDE DEF a
<1>5. /\ \A c \in Md5Clients \ {a} : md_state'[c] = md_state[c] /\ md_digest'[c] = md_digest[c]
      /\ md_state'[a] \in {"over", "killed"}
      /\ md_state' \in [Md5Clients -> Md5States]
      /\ md_digest' \in [Md5Clients -> SUBSET Seq(Blocks)]
  <2>1. /\ md_state \in [Md5Clients -> Md5States]
        /\ md_digest \in [Md5Clients -> SUBSET Seq(Blocks)]
        /\ {md_ctx} \in SUBSET Seq(Blocks)
    BY DEF Md5Inv, Md5Types
  <2>2. CASE md_state[a] = "killed" /\ UNCHANGED <<md_digest, md_state>>
    BY <2>1, <2>2
  <2>3. CASE /\ md_state[a] = "asking"
             /\ md_digest' = [md_digest EXCEPT ![a] = {md_ctx}]
             /\ md_state' = [md_state EXCEPT ![a] = "over"]
    <3>1. \A c \in Md5Clients \ {a} : md_state'[c] = md_state[c] /\ md_digest'[c] = md_digest[c]
      BY <2>1, <2>3
    <3>2. /\ md_state'[a] = "over"
          /\ md_state' \in [Md5Clients -> Md5States]
      BY <1>2, <2>1, <2>3 DEF Md5States
    <3>3. md_digest' \in [Md5Clients -> SUBSET Seq(Blocks)]
      BY <2>1, <2>3, Zenon
    <3> QED
      BY <3>1, <3>2, <3>3
  <2> QED
    BY <1>3, <2>2, <2>3
<1>6. Md5Types'
  <2>1. <<>> \in Seq(Blocks)
    BY EmptySeq
  <2> QED
    BY <1>1, <1>5, <2>1 DEF Md5Inv, Md5Types
<1>7. WaitOnce'
  BY <1>1, <1>2, <1>5 DEF Md5Inv, WaitOnce, Calling
<1>8. InFile'
  BY <1>1, <1>5 DEF Md5Inv, InFile
<1>9. Digested'
  <2> SUFFICES ASSUME NEW c \in Md5Clients, Living(c)', ~md_spoiled'[c]
               PROVE  md_sent'[c] = 0 /\ md_ctx' = MD!File(c, 1, md_sent'[c])
    BY DEF Digested
  <2>1. c # a /\ Living(c)
    BY <1>5 DEF Living
  <2>2. md_sent[c] = 0
    BY <1>4, <2>1 DEF Md5Inv, Digested
  <2> QED
    BY <1>1, <2>2, NoFileYet
<1>10. MD!DigestIsOwn'
  <2> SUFFICES ASSUME NEW c \in Md5Clients, ~md_spoiled'[c]
               PROVE  md_digest'[c] \subseteq {MD!File(c, 1, md_size[c])}
    BY <1>1 DEF MD!DigestIsOwn
  <2>1. ~md_spoiled[c] /\ md_digest[c] \subseteq {MD!File(c, 1, md_size[c])}
    BY <1>4 DEF Md5Inv, MD!DigestIsOwn
  <2>2. CASE c # a \/ md_state[a] = "killed"
    BY <1>3, <1>5, <2>1, <2>2
  <2>3. CASE c = a /\ md_state[a] = "asking"
    <3>1. md_ctx = MD!File(a, 1, md_sent[a])
      BY <1>2, <1>4, <2>3 DEF Md5Inv, Digested, Living, Calling
    <3>2. md_sent[a] = md_size[a]
      BY <1>2, <2>3 DEF Md5Inv, InFile
    <3>3. md_digest'[a] = {md_ctx}
      BY <1>2, <1>3, <2>3 DEF Md5Inv, Md5Types
    <3> QED
      BY <2>3, <3>1, <3>2, <3>3
  <2> QED
    BY <1>2, <2>2, <2>3
<1> QED
  BY <1>1, <1>6, <1>7, <1>8, <1>9, <1>10 DEF Md5Inv, Emptied

LEMMA Md5Step == Md5Inv /\ [MD!Next]_md_vars => Md5Inv'
<1> SUFFICES ASSUME Md5Inv, [MD!Next]_md_vars PROVE Md5Inv'
  OBVIOUS
<1> USE MessagesAssumption
<1>1. ASSUME NEW c \in Md5Clients, MD!md5_send(c) PROVE Md5Inv'
  <2>1. PICK n \in 1..SendBlocks : md_sent[c] + n <= md_size[c] /\ MD!Call(c, n)
    BY <1>1 DEF MD!md5_send
  <2> QED
    BY <2>1, Md5Call
<1>2. ASSUME NEW c \in Md5Clients, MD!md5_recv(c) PROVE Md5Inv'
  <2>1. md_sent[c] = md_size[c] /\ MD!Call(c, 0) /\ 0 \in 0..SendBlocks /\ ~(0 > 0)
    BY <1>2 DEF MD!md5_recv
  <2> QED
    BY <2>1, Md5Call
<1>3. ASSUME NEW c \in Md5Clients, MD!CallFails(c) PROVE Md5Inv'
  <2>1. /\ md_service = "ended" /\ Calling(c) /\ md_state' = [md_state EXCEPT ![c] = "over"]
        /\ UNCHANGED <<md_ctx, md_service, md_asking, md_queue, md_size, md_sent, md_msglen,
                       md_digest, md_among, md_spoiled>>
    BY <1>3 DEF MD!CallFails, Calling
  <2>2. \A d \in Md5Clients : md_state'[d] = IF d = c THEN "over" ELSE md_state[d]
    BY <2>1 DEF Md5Inv, Md5Types
  <2>3. Md5Types'
    BY <2>1 DEF Md5Inv, Md5Types, Md5States
  <2>4. WaitOnce'
    <3>1. md_queue = <<>> /\ DOMAIN <<>> = {}
      BY <2>1, EmptySeq DEF Md5Inv, Emptied
    <3> QED
      BY <2>1, <3>1 DEF WaitOnce
  <2>5. InFile'
    BY <2>1, <2>2 DEF Md5Inv, InFile
  <2>6. Digested' /\ MD!DigestIsOwn'
    BY <2>1, <2>2, Undisturbed DEF Living
  <2> QED
    BY <2>1, <2>3, <2>4, <2>5, <2>6 DEF Md5Inv, Emptied
<1>4. ASSUME NEW c \in Md5Clients, MD!Kill(c) PROVE Md5Inv'
  BY <1>4, Md5Kill
<1>8. ASSUME NEW c \in Md5Clients, MD!name_open(c) PROVE Md5Inv'
  BY <1>8, Md5Open
<1>5. CASE MD!MsgReceive \/ MD!SendData \/ MD!ReceiveDigest
  BY <1>5, Md5Receive, Md5SendData, Md5ReceiveDigest
<1>6. CASE MD!ReturnError
  <2>1. /\ md_service' = "ended" /\ md_queue' = <<>>
        /\ UNCHANGED <<md_ctx, md_asking, md_state, md_size, md_sent, md_msglen, md_digest,
                       md_among, md_spoiled>>
    BY <1>6 DEF MD!ReturnError, MD!client_state
  <2>2. <<>> \in Seq(Md5Clients) /\ DOMAIN <<>> = {}
    BY EmptySeq
  <2>3. Md5Types'
    BY <2>1, <2>2 DEF Md5Inv, Md5Types
  <2>4. WaitOnce'
    BY <2>1, <2>2 DEF WaitOnce
  <2>5. InFile'
    BY <2>1 DEF Md5Inv, InFile
  <2>6. Digested' /\ MD!DigestIsOwn'
    BY <2>1, Undisturbed DEF Living
  <2> QED
    BY <2>1, <2>3, <2>4, <2>5, <2>6 DEF Md5Inv, Emptied
<1>7. CASE UNCHANGED md_vars
  <2>1. Digested' /\ MD!DigestIsOwn'
    BY <1>7, Undisturbed DEF md_vars, Living, Calling
  <2>2. Md5Types' /\ WaitOnce' /\ Emptied' /\ InFile'
    BY <1>7 DEF md_vars, Md5Inv, Md5Types, WaitOnce, Emptied, Calling, InFile
  <2> QED
    BY <2>1, <2>2 DEF Md5Inv
<1> QED
  BY <1>1, <1>2, <1>3, <1>4, <1>5, <1>6, <1>7, <1>8
  DEF MD!Next, MD!Sample, MD!md5_name, md_vars, MD!vars, MD!client_state

LEMMA Md5Always == Spec => []Md5Inv
<1>1. Init => Md5Inv
  BY Md5Init DEF Init
<1>2. Md5Inv /\ [Next]_vars => Md5Inv'
  BY ServiceSteps, Md5Step
<1> QED
  BY <1>1, <1>2, PTL DEF Spec

\* The digest a client gets is that of its file, block for block, unless blocks of
\* another were digested with it or another's digest cut it short: for any number
\* of clients, and files and messages of any length.
THEOREM DigestOfOwnFile == Spec => []DigestIsOwn
<1>1. Md5Inv => DigestIsOwn
  BY DEF Md5Inv, DigestIsOwn
<1> QED
  BY <1>1, Md5Always, PTL

-------------------------------------------------------------------------------
\* Messages. A client has one message on the channel and only while it is
\* SEND-blocked, one unblock pulse once it is doomed, one disconnect pulse while its
\* connection is closed; and a value pulse was put where it is, or further back,
\* when there was room for it. So the channel has a bound for any number of clients.

ClientPlaces  == MP!Waiting \cup {"start", "ready", "awaiting", "deaf", "over"}
Texts   == {"none", "connect", "text", "b_text", "Hello", "Ni_Hao", "Unknown", "own", "usual",
            "give", "raw", "gave", "in_range", "out_of_range"}
Entries == [what : {"message", "pulse", "unblock", "disconnect"}, from : Clients]
Elements(q) == {q[i] : i \in DOMAIN q}

MpTypes ==
  /\ mp_program \in MP!Programs /\ mp_connects \in BOOLEAN
  /\ mp_kind \in [Clients -> MP!KindsOf(mp_program) \cup {"none"}]
  /\ mp_pc \in [Clients -> ClientPlaces] /\ mp_step \in [Clients -> 0..7]
  /\ mp_message \in [Clients -> Texts]
  /\ mp_value \in [Clients -> 0..(Values - 1)]
  /\ mp_inbox \in [Clients -> Seq(0..(Values - 1))]
  /\ mp_doomed \in [Clients -> BOOLEAN]
  /\ mp_conn \in [Clients -> {"none", "open", "closed"}]
  /\ mp_server \in {"down", "receiving", "handling", "delivering", "ended"}
  /\ mp_caller \in Clients \cup {MP!Nobody}

\* A pulse waits for a client in one place only, who is doomed or closed stays so,
\* and who gives an event away is a program that does.
ClientsFit ==
  /\ \A c \in Clients : Len(mp_inbox[c]) <= 1 /\ (mp_inbox[c] # <<>> => mp_pc[c] = "awaiting")
  /\ \A c \in Clients : mp_doomed[c] => mp_program \in MP!Told /\ mp_pc[c] \in {"replying", "over"}
  /\ \A c \in Clients : mp_conn[c] = "closed" => mp_pc[c] = "over"
  /\ \A c \in Clients : mp_message[c] \in {"give", "gave"} => mp_kind[c] = mp_message[c]

CallerFits ==
  /\ mp_server = "handling" => mp_caller \in Clients /\ mp_pc[mp_caller] = "replying"
  /\ mp_server = "delivering" =>
       /\ mp_program = "give_event" /\ mp_caller \in Clients
       /\ mp_pc[mp_caller] = "awaiting" /\ mp_inbox[mp_caller] = <<>>

Orderly(q) ==
  /\ q \in Seq(Entries)
  /\ \A i, j \in DOMAIN q : i # j /\ q[i].what # "pulse" => q[i] # q[j]
  /\ \A i \in DOMAIN q : q[i].what = "pulse" => i <= MaxPending

EntriesFit ==
  /\ \A e \in Elements(mp_channel) :
       /\ e.what = "message" => mp_pc[e.from] = "sending" \/ mp_server = "ended"
       /\ e.what = "unblock" => mp_doomed[e.from]
       /\ e.what = "disconnect" => mp_conn[e.from] = "closed"
  /\ mp_program \in MP!Told /\ mp_server = "ended" => mp_channel = <<>>

MpInv == MpTypes /\ ClientsFit /\ CallerFits /\ Orderly(mp_channel) /\ EntriesFit

LEMMA ElementsAreEntries ==
  ASSUME NEW q, Orderly(q), NEW e \in Elements(q)
  PROVE  e \in Entries
BY LenProperties DEF Orderly, Elements

LEMMA OrderlyAppend ==
  ASSUME NEW q, Orderly(q), NEW e \in Entries,
         e.what # "pulse" => e \notin Elements(q), e.what = "pulse" => Len(q) < MaxPending
  PROVE  Orderly(Append(q, e)) /\ Elements(Append(q, e)) \subseteq Elements(q) \cup {e}
<1> DEFINE r == Append(q, e)
           l == Len(q)
<1>1. q \in Seq(Entries) /\ l \in Nat /\ DOMAIN q = 1..l
  BY LenProperties DEF Orderly
<1>2. /\ r \in Seq(Entries) /\ DOMAIN r = 1..(l + 1)
      /\ \A i \in 1..l : r[i] = q[i]
      /\ r[l + 1] = e
  BY <1>1, AppendProperties, LenProperties
<1> HIDE DEF r
<1>3. \A i \in 1..(l + 1) : i \in 1..l \/ i = l + 1
  BY <1>1
<1> HIDE DEF l
<1>4. \A i \in DOMAIN r : (i \in DOMAIN q /\ r[i] = q[i]) \/ (i = l + 1 /\ r[i] = e)
  BY <1>1, <1>2, <1>3
<1>5. Elements(r) \subseteq Elements(q) \cup {e}
  BY <1>4 DEF Elements
<1>6. ASSUME NEW i \in DOMAIN r, NEW j \in DOMAIN r, i # j, r[i].what # "pulse" PROVE r[i] # r[j]
  <2>1. CASE i \in DOMAIN q /\ j \in DOMAIN q /\ r[i] = q[i] /\ r[j] = q[j]
    BY <1>6, <2>1 DEF Orderly
  <2>2. CASE i = l + 1 /\ r[i] = e
    BY <1>4, <1>6, <2>2 DEF Elements
  <2>3. CASE i \in DOMAIN q /\ r[i] = q[i] /\ r[j] = e
    BY <1>6, <2>3 DEF Elements
  <2> QED
    BY <1>4, <2>1, <2>2, <2>3
<1>7. ASSUME NEW i \in DOMAIN r, r[i].what = "pulse" PROVE i <= MaxPending
  <2>1. CASE i \in DOMAIN q /\ r[i] = q[i]
    BY <1>7, <2>1 DEF Orderly
  <2>2. CASE i = l + 1 /\ r[i] = e
    <3>1. l < MaxPending
      BY <1>7, <2>2 DEF l
    <3> QED
      BY <1>1, <2>2, <3>1, ClientsAssumption
  <2> QED
    BY <1>4, <2>1, <2>2
<1> QED
  BY <1>2, <1>5, <1>6, <1>7 DEF Orderly, r

LEMMA OrderlyTail ==
  ASSUME NEW q, Orderly(q), q # <<>>
  PROVE  /\ Head(q) \in Entries /\ Head(q) \in Elements(q)
         /\ Orderly(Tail(q)) /\ Elements(Tail(q)) \subseteq Elements(q)
         /\ Head(q).what # "pulse" => Head(q) \notin Elements(Tail(q))
<1> DEFINE r == Tail(q)
           l == Len(q)
<1>1. q \in Seq(Entries) /\ l \in Nat \ {0} /\ DOMAIN q = 1..l
  BY LenProperties, EmptySeq DEF Orderly
<1>2. /\ Head(q) = q[1] /\ Head(q) \in Entries
      /\ r \in Seq(Entries) /\ DOMAIN r = 1..(l - 1)
      /\ \A i \in DOMAIN r : r[i] = q[i + 1]
  BY <1>1, HeadTailProperties
<1> HIDE DEF r, l
<1>3. /\ 1 \in DOMAIN q
      /\ \A i \in DOMAIN r : i + 1 \in DOMAIN q /\ i + 1 # 1 /\ i <= i + 1
      /\ \A i, j \in DOMAIN r : i # j => i + 1 # j + 1
  BY <1>1, <1>2
<1>4. Elements(r) \subseteq Elements(q)
  BY <1>2, <1>3 DEF Elements
<1>5. \A i, j \in DOMAIN r : i # j /\ r[i].what # "pulse" => r[i] # r[j]
  BY <1>2, <1>3 DEF Orderly
<1>6. \A i \in DOMAIN r : r[i].what = "pulse" => i <= MaxPending
  <2> SUFFICES ASSUME NEW i \in DOMAIN r, r[i].what = "pulse" PROVE i <= MaxPending
    OBVIOUS
  <2>1. i + 1 <= MaxPending
    BY <1>2, <1>3 DEF Orderly
  <2> QED
    BY <1>1, <1>2, <2>1, ClientsAssumption
<1>7. Head(q).what # "pulse" => Head(q) \notin Elements(r)
  BY <1>2, <1>3 DEF Orderly, Elements
<1> QED
  BY <1>2, <1>3, <1>4, <1>5, <1>6, <1>7 DEF Orderly, Elements, r

LEMMA OrderlyWithout ==
  ASSUME NEW q, Orderly(q), NEW n \in DOMAIN q, q[n].what # "pulse"
  PROVE  LET r == SubSeq(q, 1, n - 1) \o SubSeq(q, n + 1, Len(q))
         IN  Orderly(r) /\ Elements(r) \subseteq Elements(q) \ {q[n]}
<1> DEFINE r == SubSeq(q, 1, n - 1) \o SubSeq(q, n + 1, Len(q))
           old(i) == IF i < n THEN i ELSE i + 1
<1>1. q \in Seq(Entries) /\ Len(q) \in Nat /\ DOMAIN q = 1..Len(q)
  BY LenProperties DEF Orderly
<1>2. /\ r \in Seq(Entries) /\ Len(r) = Len(q) - 1
      /\ \A i \in 1..(Len(q) - 1) : r[i] = q[old(i)]
  BY <1>1, WithoutNth
<1> HIDE DEF r
<1>3. DOMAIN r = 1..(Len(q) - 1)
  BY <1>1, <1>2, LenProperties
<1>4. \A i \in DOMAIN r : r[i] = q[old(i)]
  BY <1>2, <1>3
<1>5. /\ \A i \in DOMAIN r : old(i) \in DOMAIN q /\ old(i) # n /\ i <= old(i)
      /\ \A i, j \in DOMAIN r : i # j => old(i) # old(j)
      /\ \A i \in DOMAIN r : old(i) <= MaxPending => i <= MaxPending
  BY <1>1, <1>3, ClientsAssumption
<1> HIDE DEF old
<1>6. \A i, j \in DOMAIN r : i # j /\ r[i].what # "pulse" => r[i] # r[j]
  BY <1>4, <1>5 DEF Orderly
<1>7. \A i \in DOMAIN r : r[i].what = "pulse" => i <= MaxPending
  BY <1>4, <1>5 DEF Orderly
<1>8. \A i \in DOMAIN r : r[i] \in Elements(q) /\ r[i] # q[n]
  BY <1>4, <1>5 DEF Orderly, Elements
<1> QED
  BY <1>2, <1>6, <1>7, <1>8 DEF Orderly, Elements, r

LEMMA AnswersOf ==
  ASSUME mp_program \in MP!Programs, NEW m
  PROVE  /\ MP!Answer(m) = "reply_and_deliver" => mp_program = "give_event" /\ m = "gave"
         /\ MP!Answer(m) = "reply_and_end" => mp_program = "give_event"
         /\ MP!Answer(m) = "deliver_and_reply" => mp_program = "AttachPoint" /\ m = "give"
BY DEF MP!Programs, MP!Answer, MP!SendrecServer, MP!Z_SendRecServer, MP!SimpleServer,
       MP!KernelTimeoutServer, MP!NameAttachServer, MP!AttachPointServer, MP!GiveEventServer,
       MP!DispatchServer

LEMMA MessagesOf ==
  ASSUME NEW c \in Clients, NEW m \in MP!Messages(c)
  PROVE  m \in Texts /\ (m \in {"give", "gave"} => mp_kind[c] = m)
BY DEF MP!Messages, MP!worker, MP!z_worker, MP!SimpleClient, MP!clientWork, MP!client, MP!NameOpen,
       MP!NameopenPulse, MP!ClientPulse, MP!GaveClient, MP!DispatchClient, Texts

\* A call returns to one of these places; to a doomed client there is only the end.
LEMMA AfterSends ==
  ASSUME NEW c \in Clients, NEW m, NEW ok
  PROVE  /\ MP!AfterSend(c, m, ok) \in {"over", "ready", "awaiting"}
         /\ mp_doomed[c] => MP!AfterSend(c, m, ok) = "over"
         /\ MP!Steps(c) \in 0..7
<1>1. MP!Steps(c) \in 0..7
  BY DEF MP!Steps
<1>2. CASE mp_doomed[c]
  BY <1>1, <1>2 DEF MP!AfterSend
<1>3. CASE ~mp_doomed[c]
  BY <1>1, <1>3 DEF MP!AfterSend
<1> QED
  BY <1>2, <1>3

LEMMA MpInit == MP!Init => MpInv
<1> SUFFICES ASSUME MP!Init PROVE MpInv
  OBVIOUS
<1>1. <<>> \in Seq(Entries) /\ DOMAIN <<>> = {} /\ <<>> \in Seq(0..(Values - 1)) /\ Len(<<>>) = 0
  BY EmptySeq
<1>2. mp_connects \in BOOLEAN /\ 0 \in 0..(Values - 1) /\ 0 \in 0..7
  <2>1. mp_connects \in BOOLEAN
    BY DEF MP!Init
  <2> QED
    BY <2>1, ClientsAssumption
<1>3. mp_kind \in [Clients -> MP!KindsOf(mp_program) \cup {"none"}]
  BY DEF MP!Init
<1>4. mp_inbox \in [Clients -> Seq(0..(Values - 1))] /\ mp_doomed \in [Clients -> BOOLEAN]
  BY <1>1 DEF MP!Init
<1>5. /\ mp_server \in {"receiving", "down"} /\ mp_channel = <<>>
      /\ \A c \in Clients : mp_inbox[c] = <<>> /\ ~mp_doomed[c] /\ mp_conn[c] = "none" /\ mp_message[c] = "none"
  BY DEF MP!Init
<1>6. MpTypes
  BY <1>2, <1>3, <1>4, <1>5 DEF MP!Init, MpTypes, ClientPlaces, Texts
<1>7. ClientsFit /\ CallerFits /\ Orderly(mp_channel) /\ EntriesFit
  BY <1>1, <1>5 DEF ClientsFit, CallerFits, Orderly, EntriesFit, Elements
<1> QED
  BY <1>6, <1>7 DEF MpInv

\* What a client that ends leaves on the channel.
LEMMA LeavesBehind ==
  ASSUME MpInv, NEW c \in Clients
  PROVE  /\ Orderly(MP!Without(c))
         /\ \A e \in Elements(MP!Without(c)) :
              \/ e \in Elements(mp_channel) /\ e # MP!Entry("message", c)
              \/ /\ e = MP!Entry("disconnect", c)
                 /\ mp_program \in MP!Told /\ mp_conn[c] = "open"
<1> DEFINE m == MP!Entry("message", c)
           d == MP!Entry("disconnect", c)
           places == {i \in DOMAIN mp_channel : mp_channel[i] = m}
           rest == IF places = {} THEN mp_channel ELSE MP!LeftBy(CHOOSE i \in places : TRUE)
<1>1. m.what = "message" /\ d.what = "disconnect" /\ d.from = c /\ d \in Entries /\ d # m
  BY DEF MP!Entry, Entries
<1>2. Orderly(mp_channel)
  BY DEF MpInv
<1>3. Orderly(rest) /\ Elements(rest) \subseteq Elements(mp_channel) \ {m}
  <2>1. CASE places = {}
    BY <1>2, <2>1 DEF Elements
  <2>2. CASE places # {}
    <3>1. PICK n \in DOMAIN mp_channel : mp_channel[n] = m /\ rest = MP!LeftBy(n)
      BY <2>2
    <3>2. mp_channel[n].what # "pulse"
      BY <1>1, <3>1
    <3> HIDE DEF rest, places, m
    <3> QED
      BY <1>2, <3>1, <3>2, OrderlyWithout DEF MP!LeftBy
  <2> QED
    BY <2>1, <2>2
<1>4. MP!Without(c) = IF mp_program \in MP!Told /\ mp_conn[c] = "open" THEN Append(rest, d) ELSE rest
  BY DEF MP!Without
<1> HIDE DEF rest, m, d, places
<1>5. CASE mp_program \in MP!Told /\ mp_conn[c] = "open"
  <2>1. d \notin Elements(rest)
    BY <1>1, <1>3, <1>5 DEF MpInv, EntriesFit
  <2>2. Orderly(Append(rest, d)) /\ Elements(Append(rest, d)) \subseteq Elements(rest) \cup {d}
    BY <1>1, <1>3, <2>1, OrderlyAppend
  <2> QED
    BY <1>3, <1>4, <1>5, <2>2 DEF d, m
<1>6. CASE ~(mp_program \in MP!Told /\ mp_conn[c] = "open")
  BY <1>3, <1>4, <1>6 DEF m
<1> QED
  BY <1>5, <1>6

\* A client ends.
LEMMA GoesOver ==
  ASSUME MpInv, NEW c \in Clients, MP!Over(c),
         UNCHANGED <<mp_program, mp_kind, mp_message, mp_doomed>>,
         mp_server = "ended" => mp_server' = "ended",
         mp_server' = "ended" => mp_server = "ended" \/ mp_program \notin MP!Told
  PROVE  /\ mp_pc' \in [Clients -> ClientPlaces] /\ mp_inbox' \in [Clients -> Seq(0..(Values - 1))]
         /\ mp_conn' \in [Clients -> {"none", "open", "closed"}]
         /\ \A d \in Clients \ {c} : mp_pc'[d] = mp_pc[d] /\ mp_inbox'[d] = mp_inbox[d]
         /\ ClientsFit' /\ Orderly(mp_channel)' /\ EntriesFit'
<1>1. /\ mp_pc \in [Clients -> ClientPlaces] /\ mp_inbox \in [Clients -> Seq(0..(Values - 1))]
      /\ mp_conn \in [Clients -> {"none", "open", "closed"}]
      /\ <<>> \in Seq(0..(Values - 1)) /\ Len(<<>>) = 0
  BY EmptySeq DEF MpInv, MpTypes
<1>2. /\ mp_pc' \in [Clients -> ClientPlaces] /\ mp_inbox' \in [Clients -> Seq(0..(Values - 1))]
      /\ mp_conn' \in [Clients -> {"none", "open", "closed"}]
  BY <1>1 DEF MP!Over, ClientPlaces
<1>3. /\ \A d \in Clients : mp_pc'[d] = IF d = c THEN "over" ELSE mp_pc[d]
      /\ \A d \in Clients : mp_inbox'[d] = IF d = c THEN <<>> ELSE mp_inbox[d]
  BY <1>1 DEF MP!Over
<1>4. /\ \A d \in Clients \ {c} : mp_conn'[d] = mp_conn[d]
      /\ mp_conn[c] = "closed" => mp_conn'[c] = "closed"
      /\ mp_conn[c] = "open" /\ mp_program \in MP!Told => mp_conn'[c] = "closed"
  BY <1>1 DEF MP!Over
<1>5. /\ Orderly(mp_channel')
      /\ \A e \in Elements(mp_channel') :
           \/ e \in Elements(mp_channel) /\ (mp_server = "ended" \/ e # MP!Entry("message", c))
           \/ e = MP!Entry("disconnect", c) /\ mp_conn'[c] = "closed"
  <2>1. CASE mp_server = "ended"
    BY <2>1 DEF MP!Over, MpInv
  <2>2. CASE mp_server # "ended"
    <3>1. mp_channel' = MP!Without(c)
      BY <2>2 DEF MP!Over
    <3> QED
      BY <1>4, <3>1, LeavesBehind
  <2> QED
    BY <2>1, <2>2
<1>6. ClientsFit'
  BY <1>1, <1>3, <1>4 DEF MpInv, ClientsFit
<1>7. EntriesFit'
  <2>1. ASSUME NEW e \in Elements(mp_channel')
        PROVE  /\ e.what = "message" => mp_pc'[e.from] = "sending" \/ mp_server' = "ended"
               /\ e.what = "unblock" => mp_doomed'[e.from]
               /\ e.what = "disconnect" => mp_conn'[e.from] = "closed"
    <3>1. CASE e = MP!Entry("disconnect", c) /\ mp_conn'[c] = "closed"
      BY <3>1 DEF MP!Entry
    <3>2. CASE e \in Elements(mp_channel) /\ (mp_server = "ended" \/ e # MP!Entry("message", c))
      <4>1. /\ e \in Entries
            /\ e.what = "message" => mp_pc[e.from] = "sending" \/ mp_server = "ended"
            /\ e.what = "unblock" => mp_doomed[e.from]
            /\ e.what = "disconnect" => mp_conn[e.from] = "closed"
        BY <3>2, ElementsAreEntries DEF MpInv, EntriesFit
      <4>2. e.from \in Clients /\ (e.what = "message" /\ e.from = c => e = MP!Entry("message", c))
        BY <4>1 DEF Entries, MP!Entry
      <4> QED
        BY <1>3, <1>4, <3>2, <4>1, <4>2
    <3> QED
      BY <1>5, <3>1, <3>2
  <2>2. mp_program' \in MP!Told /\ mp_server' = "ended" => mp_channel' = <<>>
    BY DEF MP!Over, MpInv, EntriesFit
  <2> QED
    BY <2>1, <2>2 DEF EntriesFit, Elements
<1> QED
  BY <1>2, <1>3, <1>5, <1>6, <1>7

\* A client goes on, its message taken from the channel or the server ended.
LEMMA MovesOn ==
  ASSUME MpInv, NEW c \in Clients, NEW p \in ClientPlaces, mp_pc' = [mp_pc EXCEPT ![c] = p],
         UNCHANGED <<mp_program, mp_kind, mp_message, mp_doomed, mp_conn, mp_channel, mp_inbox>>,
         mp_pc[c] \notin {"sending", "over"} \/ (mp_server = "ended" /\ mp_pc[c] # "over"),
         mp_doomed[c] => p = "replying", mp_inbox[c] # <<>> => p = "awaiting",
         mp_server = "ended" => mp_server' = "ended",
         mp_server' = "ended" => mp_server = "ended" \/ mp_program \notin MP!Told
  PROVE  mp_pc' \in [Clients -> ClientPlaces] /\ ClientsFit' /\ Orderly(mp_channel)' /\ EntriesFit'
<1>1. mp_pc \in [Clients -> ClientPlaces]
  BY DEF MpInv, MpTypes
<1>2. \A d \in Clients : mp_pc'[d] = IF d = c THEN p ELSE mp_pc[d]
  BY <1>1
<1>3. ClientsFit'
  BY <1>2 DEF MpInv, ClientsFit
<1>4. EntriesFit'
  <2>1. ASSUME NEW e \in Elements(mp_channel), e.what = "message"
        PROVE  mp_pc'[e.from] = "sending" \/ mp_server' = "ended"
    <3>1. e.from \in Clients
      BY ElementsAreEntries DEF MpInv, Entries
    <3>2. mp_pc[e.from] = "sending" \/ mp_server = "ended"
      BY <2>1 DEF MpInv, EntriesFit
    <3> QED
      BY <1>2, <3>1, <3>2
  <2> QED
    BY <2>1 DEF MpInv, EntriesFit, Elements
<1> QED
  BY <1>1, <1>3, <1>4 DEF MpInv

LEMMA MpUnblock ==
  ASSUME MpInv, NEW c \in Clients, NEW m, NEW ok, MP!Unblock(c, m, ok),
         UNCHANGED <<mp_program, mp_kind, mp_message, mp_doomed>>,
         mp_pc[c] = "replying" \/ (mp_server = "ended" /\ mp_pc[c] \in {"ready", "sending"}),
         mp_server = "ended" => mp_server' = "ended",
         mp_server' = "ended" => mp_server = "ended" \/ mp_program \notin MP!Told
  PROVE  /\ mp_pc' \in [Clients -> ClientPlaces] /\ mp_inbox' \in [Clients -> Seq(0..(Values - 1))]
         /\ mp_conn' \in [Clients -> {"none", "open", "closed"}] /\ mp_step' \in [Clients -> 0..7]
         /\ ClientsFit' /\ Orderly(mp_channel)' /\ EntriesFit'
<1>1. mp_step' \in [Clients -> 0..7]
  <2>1. mp_step \in [Clients -> 0..7] /\ MP!Steps(c) \in 0..7
    BY AfterSends DEF MpInv, MpTypes
  <2>2. mp_step' = [mp_step EXCEPT ![c] = IF m # "connect" /\ @ < MP!Steps(c) THEN @ + 1 ELSE @]
    BY DEF MP!Unblock
  <2> QED
    BY <2>1, <2>2
<1>2. CASE MP!AfterSend(c, m, ok) = "over"
  <2>1. MP!Over(c)
    BY <1>2 DEF MP!Unblock
  <2> QED
    BY <1>1, <2>1, GoesOver
<1>3. CASE MP!AfterSend(c, m, ok) # "over"
  <2>1. /\ mp_pc' = [mp_pc EXCEPT ![c] = MP!AfterSend(c, m, ok)]
        /\ UNCHANGED <<mp_conn, mp_channel, mp_inbox>>
    BY <1>3 DEF MP!Unblock
  <2>2. MP!AfterSend(c, m, ok) \in ClientPlaces /\ ~mp_doomed[c]
    BY <1>3, AfterSends DEF ClientPlaces
  <2>3. mp_inbox[c] = <<>> /\ mp_pc[c] # "over"
    BY DEF MpInv, ClientsFit
  <2>4. mp_pc' \in [Clients -> ClientPlaces] /\ ClientsFit' /\ Orderly(mp_channel)' /\ EntriesFit'
    BY <2>1, <2>2, <2>3, MovesOn
  <2> QED
    BY <1>1, <2>1, <2>4 DEF MpInv, MpTypes
<1> QED
  BY <1>2, <1>3

LEMMA MpConnect ==
  ASSUME MpInv, NEW c \in Clients, MP!Connect(c)
  PROVE  MpInv'
<1>1. /\ mp_pc[c] = "start"
      /\ UNCHANGED <<mp_program, mp_connects, mp_kind, mp_step, mp_value, mp_inbox, mp_doomed,
                     mp_server, mp_caller>>
  BY DEF MP!Connect
<1>2. ~mp_doomed[c] /\ mp_inbox[c] = <<>> /\ mp_conn[c] # "closed"
  BY <1>1 DEF MpInv, ClientsFit
<1>3. PICK p \in {"ready", "sending", "deaf", "over"} :
        /\ mp_pc' = [mp_pc EXCEPT ![c] = p]
        /\ mp_conn' = mp_conn \/ mp_conn' = [mp_conn EXCEPT ![c] = "open"]
        /\ p = "sending" => mp_server # "ended"
        /\ \/ UNCHANGED <<mp_message, mp_channel>>
           \/ /\ p = "sending" /\ mp_message' = [mp_message EXCEPT ![c] = "connect"]
              /\ mp_channel' = Append(mp_channel, MP!Entry("message", c))
        /\ p = "over" => UNCHANGED mp_conn
  <2>1. CASE mp_server \notin {"down", "ended"}
    BY <2>1 DEF MP!Connect, MP!SendBlocked
  <2>2. CASE mp_server \in {"down", "ended"}
    BY <2>2 DEF MP!Connect
  <2> QED
    BY <2>1, <2>2
<1>4. /\ \A d \in Clients : mp_pc'[d] = IF d = c THEN p ELSE mp_pc[d]
      /\ \A d \in Clients \ {c} : mp_conn'[d] = mp_conn[d]
      /\ mp_conn'[c] # "closed"
      /\ mp_pc' \in [Clients -> ClientPlaces] /\ mp_conn' \in [Clients -> {"none", "open", "closed"}]
  BY <1>2, <1>3 DEF MpInv, MpTypes, ClientPlaces, MP!Waiting
<1>5. /\ mp_message' \in [Clients -> Texts]
      /\ \A d \in Clients : mp_message'[d] = mp_message[d] \/ mp_message'[d] = "connect"
  BY <1>3 DEF MpInv, MpTypes, Texts
<1>6. MpTypes'
  BY <1>1, <1>4, <1>5 DEF MpInv, MpTypes
<1>7. ClientsFit'
  BY <1>1, <1>2, <1>4, <1>5 DEF MpInv, ClientsFit
<1>8. CallerFits'
  BY <1>1, <1>4 DEF MpInv, CallerFits
<1>9. Orderly(mp_channel') /\ Elements(mp_channel') \subseteq Elements(mp_channel) \cup
        (IF p = "sending" THEN {MP!Entry("message", c)} ELSE {})
  <2>1. CASE mp_channel' = mp_channel
    BY <2>1 DEF MpInv
  <2>2. CASE p = "sending" /\ mp_channel' = Append(mp_channel, MP!Entry("message", c))
    <3>1. /\ MP!Entry("message", c) \in Entries /\ MP!Entry("message", c).what = "message"
          /\ MP!Entry("message", c).from = c
      BY DEF MP!Entry, Entries
    <3>2. MP!Entry("message", c) \notin Elements(mp_channel)
      BY <1>1, <1>3, <2>2, <3>1 DEF MpInv, EntriesFit
    <3> QED
      BY <2>2, <3>1, <3>2, OrderlyAppend DEF MpInv
  <2> QED
    BY <1>3, <2>1, <2>2
<1>10. EntriesFit'
  <2>1. ASSUME NEW e \in Elements(mp_channel')
        PROVE  /\ e.what = "message" => mp_pc'[e.from] = "sending" \/ mp_server' = "ended"
               /\ e.what = "unblock" => mp_doomed'[e.from]
               /\ e.what = "disconnect" => mp_conn'[e.from] = "closed"
    <3>1. CASE e = MP!Entry("message", c) /\ p = "sending"
      BY <1>4, <3>1 DEF MP!Entry
    <3>2. CASE e \in Elements(mp_channel)
      <4>1. e.from \in Clients
        BY <3>2, ElementsAreEntries DEF MpInv, Entries
      <4> QED
        BY <1>1, <1>2, <1>4, <3>2, <4>1 DEF MpInv, EntriesFit
    <3> QED
      BY <1>9, <3>1, <3>2
  <2>2. mp_program' \in MP!Told /\ mp_server' = "ended" => mp_channel' = <<>>
    BY <1>1, <1>3 DEF MpInv, EntriesFit
  <2> QED
    BY <2>1, <2>2 DEF EntriesFit, Elements
<1> QED
  BY <1>6, <1>7, <1>8, <1>9, <1>10 DEF MpInv

LEMMA MpSend ==
  ASSUME MpInv, NEW c \in Clients, MP!Send(c)
  PROVE  MpInv'
<1>1. /\ mp_pc[c] = "ready" /\ mp_server # "ended"
      /\ UNCHANGED <<mp_program, mp_connects, mp_kind, mp_step, mp_value, mp_inbox, mp_doomed,
                     mp_conn, mp_server, mp_caller>>
  BY DEF MP!Send
<1> DEFINE n == MP!Entry("message", c)
<1>2. PICK m \in MP!Messages(c) :
        /\ mp_message' = [mp_message EXCEPT ![c] = m] /\ mp_pc' = [mp_pc EXCEPT ![c] = "sending"]
        /\ mp_channel' = Append(mp_channel, n)
  BY DEF MP!Send, MP!SendBlocked
<1>3. m \in Texts /\ (m \in {"give", "gave"} => mp_kind[c] = m)
  BY MessagesOf
<1>4. ~mp_doomed[c] /\ mp_inbox[c] = <<>> /\ mp_conn[c] # "closed"
  BY <1>1 DEF MpInv, ClientsFit
<1>5. /\ \A d \in Clients : mp_pc'[d] = IF d = c THEN "sending" ELSE mp_pc[d]
      /\ \A d \in Clients : mp_message'[d] = IF d = c THEN m ELSE mp_message[d]
      /\ mp_pc' \in [Clients -> ClientPlaces] /\ mp_message' \in [Clients -> Texts]
  BY <1>2, <1>3 DEF MpInv, MpTypes, ClientPlaces, MP!Waiting
<1>6. n \in Entries /\ n.what = "message" /\ n.from = c
  BY DEF MP!Entry, Entries
<1> HIDE DEF n
<1>7. n \notin Elements(mp_channel)
  BY <1>1, <1>6 DEF MpInv, EntriesFit
<1>8. Orderly(mp_channel') /\ Elements(mp_channel') \subseteq Elements(mp_channel) \cup {n}
  BY <1>2, <1>6, <1>7, OrderlyAppend DEF MpInv
<1>9. MpTypes'
  BY <1>1, <1>5 DEF MpInv, MpTypes
<1>10. ClientsFit'
  BY <1>1, <1>3, <1>4, <1>5 DEF MpInv, ClientsFit
<1>11. CallerFits'
  BY <1>1, <1>5 DEF MpInv, CallerFits
<1>12. EntriesFit'
  <2>1. ASSUME NEW e \in Elements(mp_channel')
        PROVE  /\ e.what = "message" => mp_pc'[e.from] = "sending"
               /\ e.what = "unblock" => mp_doomed'[e.from]
               /\ e.what = "disconnect" => mp_conn'[e.from] = "closed"
    <3>1. CASE e = n
      BY <1>5, <1>6, <3>1
    <3>2. CASE e \in Elements(mp_channel)
      <4>1. e.from \in Clients
        BY <3>2, ElementsAreEntries DEF MpInv, Entries
      <4> QED
        BY <1>1, <1>5, <3>2, <4>1 DEF MpInv, EntriesFit
    <3> QED
      BY <1>8, <3>1, <3>2
  <2> QED
    BY <1>1, <2>1 DEF EntriesFit, Elements
<1> QED
  BY <1>8, <1>9, <1>10, <1>11, <1>12 DEF MpInv

\* A pulse is put where it then is at most MaxPending from the head.
LEMMA MpSendPulse ==
  ASSUME MpInv, NEW c \in Clients, MP!SendPulse(c)
  PROVE  MpInv'
<1> DEFINE n == MP!Entry("pulse", c)
<1>1. /\ mp_channel' = Append(mp_channel, n) /\ Len(mp_channel) < MaxPending /\ mp_kind[c] = "pulser"
      /\ UNCHANGED <<mp_program, mp_connects, mp_kind, mp_pc, mp_step, mp_message, mp_value, mp_inbox,
                     mp_doomed, mp_conn, mp_server, mp_caller>>
  BY DEF MP!SendPulse, MP!client_vars
<1>2. n \in Entries /\ n.what = "pulse"
  BY DEF MP!Entry, Entries
<1> HIDE DEF n
<1>3. Orderly(mp_channel') /\ Elements(mp_channel') \subseteq Elements(mp_channel) \cup {n}
  BY <1>1, <1>2, OrderlyAppend DEF MpInv
<1>4. mp_server' # "ended"
  BY DEF MP!SendPulse
<1>5. MpTypes' /\ ClientsFit' /\ CallerFits'
  BY <1>1 DEF MpInv, MpTypes, ClientsFit, CallerFits
<1>6. EntriesFit'
  BY <1>1, <1>2, <1>3, <1>4 DEF MpInv, EntriesFit, Elements
<1> QED
  BY <1>3, <1>5, <1>6 DEF MpInv

LEMMA MpTakePulse ==
  ASSUME MpInv, NEW c \in Clients, MP!TakePulse(c)
  PROVE  MpInv'
<1>1. /\ mp_pc[c] = "awaiting" /\ mp_inbox[c] # <<>>
      /\ mp_value' = [mp_value EXCEPT ![c] = Head(mp_inbox[c])]
      /\ UNCHANGED <<mp_program, mp_connects, mp_kind, mp_step, mp_message, mp_doomed, mp_server, mp_caller>>
  BY DEF MP!TakePulse
<1>2. /\ mp_inbox[c] \in Seq(0..(Values - 1)) /\ Len(mp_inbox[c]) <= 1 /\ ~mp_doomed[c]
  BY <1>1 DEF MpInv, MpTypes, ClientsFit
<1>3. Head(mp_inbox[c]) \in 0..(Values - 1) /\ Tail(mp_inbox[c]) = <<>>
  <2>1. /\ Head(mp_inbox[c]) \in 0..(Values - 1) /\ Tail(mp_inbox[c]) \in Seq(0..(Values - 1))
        /\ Len(Tail(mp_inbox[c])) = Len(mp_inbox[c]) - 1 /\ Len(mp_inbox[c]) \in Nat
        /\ Len(mp_inbox[c]) # 0
    BY <1>1, <1>2, HeadTailProperties, LenProperties, EmptySeq
  <2>2. Len(Tail(mp_inbox[c])) = 0
    <3>1. \A l \in Nat : l # 0 /\ l <= 1 => l - 1 = 0
      OBVIOUS
    <3> QED
      BY <1>2, <2>1, <3>1, Zenon
  <2> QED
    BY <2>1, <2>2, EmptySeq
<1>4. mp_value' \in [Clients -> 0..(Values - 1)]
  BY <1>1, <1>3 DEF MpInv, MpTypes
<1>5. /\ mp_pc' \in [Clients -> ClientPlaces] /\ mp_inbox' \in [Clients -> Seq(0..(Values - 1))]
      /\ mp_conn' \in [Clients -> {"none", "open", "closed"}]
      /\ \A d \in Clients \ {c} : mp_pc'[d] = mp_pc[d] /\ mp_inbox'[d] = mp_inbox[d]
      /\ ClientsFit' /\ Orderly(mp_channel)' /\ EntriesFit'
  <2>1. CASE mp_kind[c] = "give"
    <3>1. /\ mp_pc' = [mp_pc EXCEPT ![c] = "ready"] /\ mp_inbox' = [mp_inbox EXCEPT ![c] = <<>>]
          /\ UNCHANGED <<mp_conn, mp_channel>>
      BY <1>3, <2>1 DEF MP!TakePulse
    <3>2. /\ \A d \in Clients : mp_pc'[d] = IF d = c THEN "ready" ELSE mp_pc[d]
          /\ \A d \in Clients : mp_inbox'[d] = IF d = c THEN <<>> ELSE mp_inbox[d]
      BY <3>1 DEF MpInv, MpTypes
    <3>3. mp_pc' \in [Clients -> ClientPlaces] /\ mp_inbox' \in [Clients -> Seq(0..(Values - 1))]
      <4>1. <<>> \in Seq(0..(Values - 1)) /\ "ready" \in ClientPlaces
        BY EmptySeq DEF ClientPlaces
      <4> QED
        BY <3>1, <4>1 DEF MpInv, MpTypes
    <3>4. ClientsFit'
      <4>1. Len(<<>>) = 0 /\ mp_conn[c] # "closed"
        BY <1>1, EmptySeq DEF MpInv, ClientsFit
      <4> QED
        BY <1>1, <1>2, <3>1, <3>2, <4>1 DEF MpInv, ClientsFit
    <3>5. EntriesFit'
      <4>1. ASSUME NEW e \in Elements(mp_channel), e.what = "message"
            PROVE  mp_pc'[e.from] = "sending" \/ mp_server' = "ended"
        <5>1. e.from \in Clients
          BY ElementsAreEntries DEF MpInv, Entries
        <5>2. mp_pc[e.from] = "sending" \/ mp_server = "ended"
          BY <4>1 DEF MpInv, EntriesFit
        <5> QED
          BY <1>1, <3>2, <5>1, <5>2
      <4> QED
        BY <1>1, <3>1, <4>1 DEF MpInv, EntriesFit, Elements
    <3> QED
      BY <3>1, <3>2, <3>3, <3>4, <3>5 DEF MpInv, MpTypes
  <2>2. CASE mp_kind[c] # "give"
    <3>1. MP!Over(c)
      BY <2>2 DEF MP!TakePulse
    <3> QED
      BY <1>1, <3>1, GoesOver
  <2> QED
    BY <2>1, <2>2
<1>6. MpTypes'
  BY <1>1, <1>4, <1>5 DEF MpInv, MpTypes
<1>7. CallerFits'
  <2>1. mp_server = "handling" => mp_caller \in Clients \ {c}
    BY <1>1 DEF MpInv, CallerFits
  <2>2. mp_server = "delivering" => mp_caller \in Clients \ {c}
    BY <1>1 DEF MpInv, CallerFits
  <2> QED
    BY <1>1, <1>5, <2>1, <2>2 DEF MpInv, CallerFits
<1> QED
  BY <1>5, <1>6, <1>7 DEF MpInv

LEMMA MpKill ==
  ASSUME MpInv, NEW c \in Clients, MP!Kill(c)
  PROVE  MpInv'
<1>1. /\ mp_program \in MP!Told /\ mp_program # "give_event" /\ ~mp_doomed[c]
      /\ UNCHANGED <<mp_program, mp_connects, mp_kind, mp_step, mp_message, mp_value, mp_server, mp_caller>>
  BY DEF MP!Kill, MP!Told
<1>2. CASE mp_pc[c] \in {"ready", "sending", "awaiting"} /\ MP!Over(c) /\ UNCHANGED mp_doomed
  <2>1. /\ mp_pc' \in [Clients -> ClientPlaces] /\ mp_inbox' \in [Clients -> Seq(0..(Values - 1))]
        /\ mp_conn' \in [Clients -> {"none", "open", "closed"}]
        /\ \A d \in Clients \ {c} : mp_pc'[d] = mp_pc[d] /\ mp_inbox'[d] = mp_inbox[d]
        /\ ClientsFit' /\ Orderly(mp_channel)' /\ EntriesFit'
    BY <1>1, <1>2, GoesOver
  <2>2. MpTypes'
    BY <1>1, <1>2, <2>1 DEF MpInv, MpTypes
  <2>3. mp_server \in {"handling", "delivering"} => mp_caller \in Clients \ {c}
    BY <1>1, <1>2 DEF MpInv, CallerFits
  <2>4. CallerFits'
    BY <1>1, <2>1, <2>3 DEF MpInv, CallerFits
  <2> QED
    BY <2>1, <2>2, <2>4 DEF MpInv
<1>3. CASE /\ mp_pc[c] = "replying" /\ mp_server # "ended"
           /\ mp_doomed' = [mp_doomed EXCEPT ![c] = TRUE]
           /\ mp_channel' = Append(mp_channel, MP!Entry("unblock", c))
           /\ UNCHANGED <<mp_pc, mp_conn, mp_inbox>>
  <2> DEFINE n == MP!Entry("unblock", c)
  <2>1. n \in Entries /\ n.what = "unblock" /\ n.from = c
    BY DEF MP!Entry, Entries
  <2>2. mp_channel' = Append(mp_channel, n)
    BY <1>3
  <2> HIDE DEF n
  <2>3. n \notin Elements(mp_channel)
    BY <1>1, <2>1 DEF MpInv, EntriesFit
  <2>4. Orderly(mp_channel') /\ Elements(mp_channel') \subseteq Elements(mp_channel) \cup {n}
    BY <2>1, <2>2, <2>3, OrderlyAppend DEF MpInv
  <2>5. /\ mp_doomed' \in [Clients -> BOOLEAN] /\ mp_doomed'[c]
        /\ \A d \in Clients \ {c} : mp_doomed'[d] = mp_doomed[d]
    BY <1>3 DEF MpInv, MpTypes
  <2>6. MpTypes'
    BY <1>1, <1>3, <2>5 DEF MpInv, MpTypes
  <2>7. ClientsFit'
    BY <1>1, <1>3, <2>5 DEF MpInv, ClientsFit
  <2>8. CallerFits'
    BY <1>1, <1>3 DEF MpInv, CallerFits
  <2>9. EntriesFit'
    <3>1. ASSUME NEW e \in Elements(mp_channel') PROVE e.what = "unblock" => mp_doomed'[e.from]
      <4>1. CASE e = n
        BY <2>1, <2>5, <4>1
      <4>2. CASE e \in Elements(mp_channel)
        <5>1. e.from \in Clients
          BY <4>2, ElementsAreEntries DEF MpInv, Entries
        <5> QED
          BY <2>5, <4>2, <5>1 DEF MpInv, EntriesFit
      <4> QED
        BY <2>4, <4>1, <4>2
    <3>2. \A e \in Elements(mp_channel') \ {n} : e \in Elements(mp_channel)
      BY <2>4
    <3> QED
      BY <1>1, <1>3, <2>1, <3>1, <3>2 DEF MpInv, EntriesFit, Elements
  <2> QED
    BY <2>4, <2>6, <2>7, <2>8, <2>9 DEF MpInv
<1> QED
  BY <1>2, <1>3 DEF MP!Kill

LEMMA MpSendFails ==
  ASSUME MpInv, NEW c \in Clients, MP!SendFails(c)
  PROVE  MpInv'
<1>1. /\ mp_server = "ended"
      /\ UNCHANGED <<mp_program, mp_connects, mp_kind, mp_message, mp_value, mp_doomed, mp_server, mp_caller>>
  BY DEF MP!SendFails
<1>2. mp_pc[c] \in {"sending", "replying", "ready"} /\ \E m : MP!Unblock(c, m, FALSE)
  BY DEF MP!SendFails, MP!Waiting
<1>3. /\ mp_pc' \in [Clients -> ClientPlaces] /\ mp_inbox' \in [Clients -> Seq(0..(Values - 1))]
      /\ mp_conn' \in [Clients -> {"none", "open", "closed"}] /\ mp_step' \in [Clients -> 0..7]
      /\ ClientsFit' /\ Orderly(mp_channel)' /\ EntriesFit'
  BY <1>1, <1>2, MpUnblock
<1>4. MpTypes' /\ CallerFits'
  BY <1>1, <1>3 DEF MpInv, MpTypes, CallerFits
<1> QED
  BY <1>3, <1>4 DEF MpInv

LEMMA MpReceive ==
  ASSUME MpInv, MP!ReceiveMessage \/ MP!ReceivePulse
  PROVE  MpInv'
<1> DEFINE h == Head(mp_channel)
<1>1. /\ mp_server = "receiving" /\ mp_channel # <<>> /\ mp_channel' = Tail(mp_channel)
      /\ UNCHANGED <<mp_program, mp_connects, mp_kind, mp_step, mp_message, mp_value, mp_inbox, mp_doomed>>
  BY DEF MP!ReceiveMessage, MP!ReceivePulse, MP!client_vars
<1>2. /\ h \in Entries /\ h \in Elements(mp_channel)
      /\ Orderly(mp_channel') /\ Elements(mp_channel') \subseteq Elements(mp_channel)
      /\ h.what # "pulse" => h \notin Elements(mp_channel')
  BY <1>1, OrderlyTail DEF MpInv
<1>3. /\ MP!ReceiveMessage => /\ h.what = "message" /\ mp_server' = "handling" /\ mp_caller' = h.from
                              /\ mp_pc' = [mp_pc EXCEPT ![h.from] = "replying"]
                              /\ UNCHANGED mp_conn
      /\ MP!ReceivePulse => /\ h.what # "message" /\ UNCHANGED <<mp_server, mp_caller, mp_pc>>
                            /\ \/ UNCHANGED mp_conn
                               \/ h.what = "disconnect" /\ mp_conn' = [mp_conn EXCEPT ![h.from] = "none"]
  BY DEF MP!ReceiveMessage, MP!ReceivePulse, MP!client_vars
<1> HIDE DEF h
<1>4. h.from \in Clients
  BY <1>2 DEF Entries
<1>5. \A e \in Elements(mp_channel') :
        /\ e.from \in Clients /\ e \in Entries
        /\ e.what = "message" => mp_pc[e.from] = "sending"
        /\ e.what = "unblock" => mp_doomed[e.from]
        /\ e.what = "disconnect" => mp_conn[e.from] = "closed"
  BY <1>1, <1>2, ElementsAreEntries DEF MpInv, EntriesFit, Entries
<1>6. \A e \in Elements(mp_channel') : h.what # "pulse" /\ e.what = h.what => e.from # h.from
  BY <1>2, <1>5 DEF Entries
<1>7. CASE MP!ReceiveMessage
  <2>1. mp_pc[h.from] = "sending"
    BY <1>1, <1>2, <1>3, <1>7 DEF MpInv, EntriesFit
  <2>2. /\ ~mp_doomed[h.from] /\ mp_inbox[h.from] = <<>> /\ mp_conn[h.from] # "closed"
    BY <1>4, <2>1 DEF MpInv, ClientsFit
  <2>3. /\ mp_pc' \in [Clients -> ClientPlaces]
        /\ \A d \in Clients : mp_pc'[d] = IF d = h.from THEN "replying" ELSE mp_pc[d]
    BY <1>3, <1>4, <1>7 DEF MpInv, MpTypes, ClientPlaces, MP!Waiting
  <2>4. MpTypes'
    BY <1>1, <1>3, <1>4, <1>7, <2>3 DEF MpInv, MpTypes
  <2>5. ClientsFit'
    BY <1>1, <1>3, <1>7, <2>2, <2>3 DEF MpInv, ClientsFit
  <2>6. CallerFits'
    BY <1>3, <1>4, <1>7, <2>3 DEF CallerFits
  <2>7. EntriesFit'
    BY <1>1, <1>3, <1>5, <1>6, <1>7, <2>3 DEF EntriesFit, Elements
  <2> QED
    BY <1>2, <2>4, <2>5, <2>6, <2>7 DEF MpInv
<1>8. CASE MP!ReceivePulse
  <2>1. /\ mp_conn' \in [Clients -> {"none", "open", "closed"}]
        /\ \A d \in Clients :
             \/ mp_conn'[d] = mp_conn[d]
             \/ h.what = "disconnect" /\ d = h.from /\ mp_conn'[d] = "none"
    BY <1>3, <1>4, <1>8 DEF MpInv, MpTypes
  <2>2. MpTypes'
    BY <1>1, <1>3, <1>8, <2>1 DEF MpInv, MpTypes
  <2>3. ClientsFit'
    BY <1>1, <1>3, <1>8, <2>1 DEF MpInv, ClientsFit
  <2>4. CallerFits'
    BY <1>1, <1>3, <1>8 DEF MpInv, CallerFits
  <2>5. EntriesFit'
    BY <1>1, <1>3, <1>5, <1>6, <1>8, <2>1 DEF EntriesFit, Elements
  <2> QED
    BY <1>2, <2>2, <2>3, <2>4, <2>5 DEF MpInv
<1> QED
  BY <1>7, <1>8

LEMMA MpAnswer ==
  ASSUME MpInv, MP!AnswerCaller
  PROVE  MpInv'
<1> DEFINE m == mp_message[mp_caller]
           a == MP!Answer(m)
<1>1. /\ mp_server = "handling"
      /\ MP!Unblock(mp_caller, m, a # "error")
      /\ mp_server' = CASE a = "reply_and_deliver" -> "delivering" [] a = "reply_and_end" -> "ended"
                        [] OTHER -> "receiving"
      /\ UNCHANGED <<mp_program, mp_connects, mp_kind, mp_message, mp_value, mp_doomed, mp_caller>>
  BY DEF MP!AnswerCaller
<1>2. mp_caller \in Clients /\ mp_pc[mp_caller] = "replying"
  BY <1>1 DEF MpInv, CallerFits
<1>3. /\ mp_server' \in {"delivering", "ended", "receiving"}
      /\ mp_server' = "delivering" => mp_program = "give_event" /\ m = "gave" /\ a = "reply_and_deliver"
      /\ mp_server' = "ended" => mp_program = "give_event"
  <2>1. mp_program \in MP!Programs
    BY DEF MpInv, MpTypes
  <2>2. /\ a = "reply_and_deliver" => mp_program = "give_event" /\ m = "gave"
        /\ a = "reply_and_end" => mp_program = "give_event"
    BY <2>1, AnswersOf
  <2> HIDE DEF a, m
  <2> QED
    BY <1>1, <2>2
<1>4. /\ mp_pc' \in [Clients -> ClientPlaces] /\ mp_inbox' \in [Clients -> Seq(0..(Values - 1))]
      /\ mp_conn' \in [Clients -> {"none", "open", "closed"}] /\ mp_step' \in [Clients -> 0..7]
      /\ ClientsFit' /\ Orderly(mp_channel)' /\ EntriesFit'
  BY <1>1, <1>2, <1>3, MpUnblock DEF MP!Told
<1>5. CallerFits'
  <2> SUFFICES ASSUME mp_server' = "delivering"
               PROVE  /\ mp_program' = "give_event" /\ mp_pc'[mp_caller] = "awaiting"
                      /\ mp_inbox'[mp_caller] = <<>>
    BY <1>1, <1>2, <1>3 DEF CallerFits
  <2>1. mp_program = "give_event" /\ m = "gave" /\ mp_kind[mp_caller] = "gave"
    BY <1>2, <1>3 DEF MpInv, ClientsFit
  <2>2. ~mp_doomed[mp_caller] /\ mp_inbox[mp_caller] = <<>>
    BY <1>2, <2>1 DEF MpInv, ClientsFit, MP!Told
  <2>3. MP!AfterSend(mp_caller, m, a # "error") = "awaiting"
    BY <2>1, <2>2 DEF MP!AfterSend
  <2>4. mp_pc' = [mp_pc EXCEPT ![mp_caller] = "awaiting"] /\ mp_inbox' = mp_inbox
    BY <1>1, <2>3 DEF MP!Unblock
  <2> QED
    BY <1>1, <1>2, <2>1, <2>2, <2>4 DEF MpInv, MpTypes
<1>6. MpTypes'
  BY <1>1, <1>3, <1>4 DEF MpInv, MpTypes
<1> QED
  BY <1>4, <1>5, <1>6 DEF MpInv

LEMMA Delivered ==
  ASSUME MpInv, NEW v \in 0..(Values - 1), mp_caller \in Clients, MP!Deliver(mp_caller, v),
         mp_inbox[mp_caller] = <<>>
  PROVE  /\ mp_inbox' \in [Clients -> Seq(0..(Values - 1))]
         /\ Len(mp_inbox'[mp_caller]) = 1 /\ mp_inbox'[mp_caller] # <<>>
         /\ \A d \in Clients \ {mp_caller} : mp_inbox'[d] = mp_inbox[d]
<1>1. Append(<<>>, v) \in Seq(0..(Values - 1)) /\ Len(Append(<<>>, v)) = 1 /\ Append(<<>>, v) # <<>>
  <2>1. <<>> \in Seq(0..(Values - 1)) /\ Len(<<>>) = 0
    BY EmptySeq
  <2> QED
    BY <2>1, AppendProperties
<1>2. mp_inbox' = [mp_inbox EXCEPT ![mp_caller] = Append(<<>>, v)]
  BY DEF MP!Deliver
<1> QED
  BY <1>1, <1>2 DEF MpInv, MpTypes

LEMMA Counted == \A x \in Nat : x % Values \in 0..(Values - 1)
BY ClientsAssumption

LEMMA MpGiveBack ==
  ASSUME MpInv, MP!GiveBack
  PROVE  MpInv'
<1> DEFINE c == mp_caller
<1>1. /\ mp_server = "handling" /\ MP!Answer(mp_message[c]) = "deliver_and_reply"
      /\ mp_server' = "receiving"
      /\ UNCHANGED <<mp_program, mp_connects, mp_kind, mp_step, mp_message, mp_value, mp_doomed,
                     mp_caller>>
  BY DEF MP!GiveBack
<1>2. c \in Clients /\ mp_pc[c] = "replying" /\ mp_inbox[c] = <<>> /\ mp_conn[c] # "closed"
  BY <1>1 DEF MpInv, CallerFits, ClientsFit
<1>3. CASE mp_doomed[c] /\ MP!Over(c)
  <2>1. /\ mp_pc' \in [Clients -> ClientPlaces] /\ mp_inbox' \in [Clients -> Seq(0..(Values - 1))]
        /\ mp_conn' \in [Clients -> {"none", "open", "closed"}]
        /\ ClientsFit' /\ Orderly(mp_channel)' /\ EntriesFit'
    BY <1>1, <1>2, <1>3, GoesOver
  <2>2. MpTypes' /\ CallerFits'
    BY <1>1, <2>1 DEF MpInv, MpTypes, CallerFits
  <2> QED
    BY <2>1, <2>2 DEF MpInv
<1>4. CASE /\ ~mp_doomed[c] /\ MP!Deliver(c, (mp_value[c] + 1) % Values)
           /\ mp_pc' = [mp_pc EXCEPT ![c] = MP!AfterSend(c, "give", TRUE)]
           /\ UNCHANGED <<mp_conn, mp_channel>>
  <2>1. mp_program = "AttachPoint" /\ mp_message[c] = "give" /\ mp_kind[c] = "give" /\ ~mp_doomed[c]
    <3>1. mp_program \in MP!Programs
      BY DEF MpInv, MpTypes
    <3>2. mp_program = "AttachPoint" /\ mp_message[c] = "give"
      BY <1>1, <3>1, AnswersOf
    <3> QED
      BY <1>2, <1>4, <3>2 DEF MpInv, ClientsFit
  <2>2. MP!AfterSend(c, "give", TRUE) = "awaiting"
    BY <2>1 DEF MP!AfterSend
  <2>3. /\ mp_pc' \in [Clients -> ClientPlaces]
        /\ \A d \in Clients : mp_pc'[d] = IF d = c THEN "awaiting" ELSE mp_pc[d]
    BY <1>2, <1>4, <2>2 DEF MpInv, MpTypes, ClientPlaces
  <2>4. (mp_value[c] + 1) % Values \in 0..(Values - 1)
    <3>1. mp_value[c] + 1 \in Nat
      BY <1>2, ClientsAssumption DEF MpInv, MpTypes
    <3> QED
      BY <3>1, Counted
  <2>5. /\ mp_inbox' \in [Clients -> Seq(0..(Values - 1))]
        /\ Len(mp_inbox'[c]) = 1 /\ mp_inbox'[c] # <<>>
        /\ \A d \in Clients \ {c} : mp_inbox'[d] = mp_inbox[d]
    BY <1>2, <1>4, <2>4, Delivered
  <2>6. MpTypes'
    BY <1>1, <1>4, <2>3, <2>5 DEF MpInv, MpTypes
  <2>7. ClientsFit'
    <3>1. \A d \in Clients : Len(mp_inbox'[d]) <= 1 /\ (mp_inbox'[d] # <<>> => mp_pc'[d] = "awaiting")
      <4>1. Len(mp_inbox'[c]) <= 1 /\ mp_pc'[c] = "awaiting"
        BY <1>2, <2>3, <2>5
      <4>2. \A d \in Clients \ {c} : mp_inbox'[d] = mp_inbox[d] /\ mp_pc'[d] = mp_pc[d]
        BY <2>3, <2>5
      <4>3. \A d \in Clients : Len(mp_inbox[d]) <= 1 /\ (mp_inbox[d] # <<>> => mp_pc[d] = "awaiting")
        BY DEF MpInv, ClientsFit
      <4> HIDE DEF c
      <4> QED
        BY ONLY <4>1, <4>2, <4>3
    <3>2. \A d \in Clients : mp_doomed[d] => mp_program \in MP!Told /\ mp_pc'[d] \in {"replying", "over"}
      BY <1>4, <2>1, <2>3 DEF MpInv, ClientsFit
    <3>3. \A d \in Clients : mp_conn[d] = "closed" => mp_pc'[d] = "over"
      BY <1>2, <2>3 DEF MpInv, ClientsFit
    <3> QED
      BY <1>1, <1>4, <3>1, <3>2, <3>3 DEF MpInv, ClientsFit
  <2>8. CallerFits'
    BY <1>1 DEF CallerFits
  <2>9. EntriesFit'
    <3>1. ASSUME NEW e \in Elements(mp_channel), e.what = "message" PROVE mp_pc'[e.from] = "sending"
      <4>1. e.from \in Clients
        BY ElementsAreEntries DEF MpInv, Entries
      <4>2. mp_pc[e.from] = "sending"
        BY <1>1, <3>1 DEF MpInv, EntriesFit
      <4> QED
        BY <1>2, <2>3, <4>1, <4>2
    <3> QED
      BY <1>1, <1>4, <3>1 DEF MpInv, EntriesFit, Elements
  <2> QED
    BY <1>1, <1>4, <2>6, <2>7, <2>8, <2>9 DEF MpInv
<1> QED
  BY <1>3, <1>4 DEF MP!GiveBack

LEMMA MpDeliverAndEnd ==
  ASSUME MpInv, MP!DeliverAndEnd
  PROVE  MpInv'
<1> DEFINE c == mp_caller
<1>1. /\ mp_server = "delivering" /\ MP!Deliver(c, 125 % Values) /\ mp_server' = "ended"
      /\ UNCHANGED <<mp_program, mp_connects, mp_kind, mp_pc, mp_step, mp_message, mp_value, mp_doomed,
                     mp_conn, mp_caller, mp_channel>>
  BY DEF MP!DeliverAndEnd
<1>2. c \in Clients /\ mp_pc[c] = "awaiting" /\ mp_inbox[c] = <<>> /\ mp_program = "give_event"
  BY <1>1 DEF MpInv, CallerFits
<1>3. 125 % Values \in 0..(Values - 1)
  BY Counted
<1>4. /\ mp_inbox' \in [Clients -> Seq(0..(Values - 1))]
      /\ Len(mp_inbox'[c]) = 1 /\ mp_inbox'[c] # <<>>
      /\ \A d \in Clients \ {c} : mp_inbox'[d] = mp_inbox[d]
  BY <1>1, <1>2, <1>3, Delivered
<1>5. MpTypes'
  BY <1>1, <1>4 DEF MpInv, MpTypes
<1>6. ClientsFit' /\ CallerFits'
  <2>1. \A d \in Clients : Len(mp_inbox'[d]) <= 1 /\ (mp_inbox'[d] # <<>> => mp_pc[d] = "awaiting")
    <3>1. Len(mp_inbox'[c]) <= 1
      BY <1>4
    <3>2. \A d \in Clients : Len(mp_inbox[d]) <= 1 /\ (mp_inbox[d] # <<>> => mp_pc[d] = "awaiting")
      BY DEF MpInv, ClientsFit
    <3> HIDE DEF c
    <3> QED
      BY ONLY <1>2, <1>4, <3>1, <3>2
  <2> QED
    BY <1>1, <2>1 DEF MpInv, ClientsFit, CallerFits
<1>7. EntriesFit'
  <2>1. mp_program \notin MP!Told
    BY <1>2 DEF MP!Told
  <2> QED
    BY <1>1, <2>1 DEF MpInv, EntriesFit, Elements
<1> QED
  BY <1>1, <1>5, <1>6, <1>7 DEF MpInv

LEMMA MpRest ==
  ASSUME MpInv, MP!StartServer \/ MP!LeaveUnanswered \/ MP!ReceiveFails
  PROVE  MpInv'
<1>1. UNCHANGED <<mp_program, mp_connects, mp_kind, mp_pc, mp_step, mp_message, mp_value, mp_inbox,
                  mp_doomed, mp_conn, mp_caller>>
  BY DEF MP!StartServer, MP!LeaveUnanswered, MP!ReceiveFails, MP!client_vars
<1>2. \/ mp_server # "ended" /\ mp_server' = "receiving" /\ mp_channel' = mp_channel
      \/ mp_server' = "ended" /\ mp_channel' = <<>>
  BY DEF MP!StartServer, MP!LeaveUnanswered, MP!ReceiveFails
<1>3. MpTypes' /\ ClientsFit' /\ CallerFits'
  BY <1>1, <1>2 DEF MpInv, MpTypes, ClientsFit, CallerFits
<1>4. Orderly(mp_channel') /\ EntriesFit'
  <2>1. CASE mp_server # "ended" /\ mp_server' = "receiving" /\ mp_channel' = mp_channel
    BY <1>1, <2>1 DEF MpInv, EntriesFit, Elements
  <2>2. CASE mp_server' = "ended" /\ mp_channel' = <<>>
    <3>1. <<>> \in Seq(Entries) /\ DOMAIN <<>> = {}
      BY EmptySeq
    <3> QED
      BY <2>2, <3>1 DEF Orderly, EntriesFit, Elements
  <2> QED
    BY <1>2, <2>1, <2>2
<1> QED
  BY <1>3, <1>4 DEF MpInv

LEMMA MpStep == MpInv /\ [MP!Next]_mp_vars => MpInv'
<1> SUFFICES ASSUME MpInv, [MP!Next]_mp_vars PROVE MpInv'
  OBVIOUS
<1>1. ASSUME NEW c \in Clients,
             MP!Connect(c) \/ MP!Send(c) \/ MP!SendPulse(c) \/ MP!TakePulse(c) \/ MP!Kill(c) \/ MP!SendFails(c)
      PROVE  MpInv'
  BY <1>1, MpConnect, MpSend, MpSendPulse, MpTakePulse, MpKill, MpSendFails
<1>2. CASE MP!Serve
  BY <1>2, MpReceive, MpAnswer, MpGiveBack, MpRest, MpDeliverAndEnd DEF MP!Serve
<1>3. CASE MP!StartServer \/ MP!ReceiveFails
  BY <1>3, MpRest
<1>4. CASE UNCHANGED mp_vars
  <2>1. MpTypes' /\ ClientsFit' /\ CallerFits'
    BY <1>4 DEF mp_vars, MpInv, MpTypes, ClientsFit, CallerFits
  <2>2. Orderly(mp_channel') /\ EntriesFit'
    BY <1>4 DEF mp_vars, MpInv, EntriesFit, Elements
  <2> QED
    BY <2>1, <2>2 DEF MpInv
<1> QED
  BY <1>1, <1>2, <1>3, <1>4 DEF MP!Next, mp_vars, MP!vars, MP!client_vars

\* ClientPlaces for pulses, and two for each client: its message or its unblock pulse,
\* and its disconnect pulse.
LEMMA ChannelBounded == MpInv => Len(mp_channel) <= MaxPending + 2 * Cardinality(Clients)
<1> SUFFICES ASSUME MpInv PROVE Len(mp_channel) <= MaxPending + 2 * Cardinality(Clients)
  OBVIOUS
<1> DEFINE D == DOMAIN mp_channel
           P == {i \in D : mp_channel[i].what = "pulse"}
           N == {i \in D : mp_channel[i].what # "pulse"}
           side(i) == <<mp_channel[i].from, IF mp_channel[i].what = "disconnect" THEN 2 ELSE 1>>
           f == [i \in N |-> side(i)]
           S == Clients \X (1..2)
<1> USE ClientsAssumption
<1>1. mp_channel \in Seq(Entries) /\ Len(mp_channel) \in Nat /\ D = 1..Len(mp_channel)
  BY LenProperties DEF MpInv, Orderly
<1>2. IsFiniteSet(D) /\ Cardinality(D) = Len(mp_channel)
  <2> DEFINE n == Len(mp_channel)
  <2>1. 1 \in Int /\ n \in Int /\ n \in Nat /\ D = 1..n
    BY <1>1
  <2> HIDE DEF n, D
  <2>2. IsFiniteSet(1..n) /\ Cardinality(1..n) = IF 1 > n THEN 0 ELSE n - 1 + 1
    BY ONLY <2>1, FS_Interval
  <2> QED
    BY <2>1, <2>2 DEF n
<1>3. IsFiniteSet(P) /\ Cardinality(P) \in Nat /\ Cardinality(P) <= MaxPending
  <2>1. P \subseteq 1..MaxPending
    BY <1>1 DEF MpInv, Orderly
  <2>2. IsFiniteSet(1..MaxPending) /\ Cardinality(1..MaxPending) = MaxPending
    <3>1. 1 \in Int /\ MaxPending \in Int
      OBVIOUS
    <3>2. /\ IsFiniteSet(1..MaxPending)
          /\ Cardinality(1..MaxPending) = IF 1 > MaxPending THEN 0 ELSE MaxPending - 1 + 1
      BY ONLY <3>1, FS_Interval
    <3> QED
      BY <3>2
  <2> QED
    BY <2>1, <2>2, FS_Subset, FS_CardinalityType
<1>4. IsFiniteSet(S) /\ Cardinality(S) = 2 * Cardinality(Clients) /\ Cardinality(Clients) \in Nat
  <2>1. IsFiniteSet(1..2) /\ Cardinality(1..2) = 2
    <3>1. 1 \in Int /\ 2 \in Int
      OBVIOUS
    <3>2. IsFiniteSet(1..2) /\ Cardinality(1..2) = IF 1 > 2 THEN 0 ELSE 2 - 1 + 1
      BY ONLY <3>1, FS_Interval
    <3> QED
      BY <3>2
  <2>2. IsFiniteSet(S) /\ Cardinality(S) = Cardinality(Clients) * 2
    BY <2>1, FS_Product
  <2>3. Cardinality(Clients) \in Nat
    BY FS_CardinalityType
  <2> QED
    BY <2>2, <2>3
<1>5. \A i \in N : mp_channel[i] \in Entries /\ mp_channel[i] \in Elements(mp_channel)
  BY <1>1 DEF Elements
<1>6. f \in [N -> S]
  BY <1>5 DEF Entries
<1>7. \A i, j \in N : side(i) = side(j) => i = j
  <2> SUFFICES ASSUME NEW i \in N, NEW j \in N, side(i) = side(j), i # j PROVE FALSE
    OBVIOUS
  <2> DEFINE x == mp_channel[i]
             y == mp_channel[j]
  <2>1. x # y
    BY DEF MpInv, Orderly
  <2>2. x \in Entries /\ y \in Entries /\ x.what # "pulse" /\ y.what # "pulse"
    BY <1>5
  <2>3. x.from = y.from /\ (x.what = "disconnect" <=> y.what = "disconnect")
    OBVIOUS
  <2>4. x.what # y.what
    BY <2>1, <2>2, <2>3 DEF Entries
  <2>5. {x.what, y.what} = {"message", "unblock"} /\ x.from \in Clients
    BY <2>2, <2>3, <2>4 DEF Entries
  <2>6. mp_pc[x.from] = "sending" \/ mp_server = "ended"
    BY <1>5, <2>3, <2>5 DEF MpInv, EntriesFit
  <2>7. mp_doomed[x.from]
    BY <1>5, <2>3, <2>5 DEF MpInv, EntriesFit
  <2>8. mp_program \in MP!Told /\ mp_pc[x.from] # "sending"
    BY <2>5, <2>7 DEF MpInv, ClientsFit
  <2>9. mp_channel = <<>>
    BY <2>6, <2>8 DEF MpInv, EntriesFit
  <2> QED
    BY <1>1, <2>9, EmptySeq
<1>8. IsFiniteSet(N) /\ Cardinality(N) \in Nat /\ Cardinality(N) <= 2 * Cardinality(Clients)
  <2>1. IsFiniteSet(N)
    BY <1>2, FS_Subset
  <2>2. f \in Injection(N, S)
    <3>1. \A i \in N : f[i] = side(i)
      OBVIOUS
    <3> HIDE DEF f, N, S, side
    <3> QED
      BY ONLY <1>6, <1>7, <3>1 DEF Injection, IsInjective
  <2> HIDE DEF f, N, S
  <2>3. Cardinality(N) <= Cardinality(S)
    BY <1>4, <2>1, <2>2, FS_Injection
  <2> QED
    BY <1>4, <2>1, <2>3, FS_CardinalityType
<1>9. Cardinality(D) <= Cardinality(P) + Cardinality(N)
  <2>1. D = P \cup N /\ P \cap N = {}
    OBVIOUS
  <2> HIDE DEF D, P, N
  <2>2. Cardinality(P \cap N) = 0
    BY <2>1, FS_EmptySet
  <2>3. Cardinality(P \cup N) = Cardinality(P) + Cardinality(N) - Cardinality(P \cap N)
    BY ONLY <1>3, <1>8, FS_Union
  <2> QED
    BY <1>3, <1>8, <2>1, <2>2, <2>3
<1> HIDE DEF D, P, N
<1> QED
  BY <1>2, <1>3, <1>4, <1>8, <1>9

LEMMA MpAlways == Spec => []MpInv
<1>1. Init => MpInv
  BY MpInit DEF Init
<1>2. MpInv /\ [Next]_vars => MpInv'
  BY ServiceSteps, MpStep
<1> QED
  BY <1>1, <1>2, PTL DEF Spec

LEMMA MpTypeCorrect == MpInv => MP!TypeOK
<1> SUFFICES ASSUME MpInv PROVE MP!TypeOK
  OBVIOUS
<1>1. mp_kind \in [Clients -> (UNION {MP!KindsOf(p) : p \in MP!Programs}) \cup {"none"}]
  <2>1. mp_program \in MP!Programs /\ mp_kind \in [Clients -> MP!KindsOf(mp_program) \cup {"none"}]
    BY DEF MpInv, MpTypes
  <2>2. MP!KindsOf(mp_program) \subseteq UNION {MP!KindsOf(p) : p \in MP!Programs}
    BY <2>1
  <2> QED
    BY <2>1, <2>2
<1>2. mp_pc \in [Clients -> MP!Waiting \cup {"start", "ready", "awaiting", "deaf", "over"}]
  BY DEF MpInv, MpTypes, ClientPlaces
<1>3. Len(mp_channel) <= MaxPending + 2 * MP!Cardinality(Clients)
  <2>1. MP!Cardinality(Clients) = Cardinality(Clients)
    BY DEF Cardinality, MP!Cardinality
  <2> QED
    BY <2>1, ChannelBounded
<1>4. /\ \A c \in Clients : Len(mp_inbox[c]) <= 1
      /\ mp_value \in [Clients -> 0..(Values - 1)]
  BY DEF MpInv, MpTypes, ClientsFit
<1>5. mp_program \in MP!Programs /\ mp_connects \in BOOLEAN /\ mp_doomed \in [Clients -> BOOLEAN]
  BY DEF MpInv, MpTypes
<1>6. /\ mp_step \in [Clients -> 0..7] /\ mp_conn \in [Clients -> {"none", "open", "closed"}]
      /\ mp_server \in {"down", "receiving", "handling", "delivering", "ended"}
      /\ mp_caller \in Clients \cup {MP!Nobody}
  BY DEF MpInv, MpTypes
<1> QED
  BY ONLY <1>1, <1>2, <1>3, <1>4, <1>5, <1>6 DEF MP!TypeOK

-------------------------------------------------------------------------------
\* Every variable of every program has its type, for any number of clients, soldiers,
\* writers and whatever else a constant bounds; with it the bound on the channel of a
\* message server: places for pulses, and two for each client.
THEOREM ProgramsTypeCorrect == Spec => []TypeOK
<1>1. Spec => [](running \in Programs)
  <2>1. Init => running \in Programs
    BY DEF Init
  <2>2. running \in Programs /\ [Next]_vars => (running \in Programs)'
    BY DEF Next, vars
  <2> QED
    BY <2>1, <2>2, PTL DEF Spec
<1>2. DeviceInv => DB!TypeOK
  <2> USE DeviceAssumption
  <2> QED
    BY DEF DeviceInv, DeviceTypes, DB!TypeOK
<1>3. NullTypes /\ BufferType => ND!TypeOK
  BY Zenon DEF NullTypes, BufferType, ND!TypeOK
<1>4. Md5Inv => MD!TypeOK
  BY Zenon DEF Md5Inv, Md5Types, Md5States, Blocks, MD!TypeOK
<1>5. QueueInv => QW!TypeOK
  BY DEF QueueInv
<1>6. NameInv => QN!TypeOK
  <2> SUFFICES ASSUME NameInv PROVE QN!TypeOK
    OBVIOUS
  <2>1. \A k \in QN!Kinds : qn_named[k] \in 0..qn_created[k] /\ qn_created[k] \in 0..MaxQueues
    BY MessagesAssumption DEF NameInv, NameTypes, NumberTypes
  <2>2. \A p \in QN!Processes, k \in QN!Kinds : qn_held[p][k] \in 0..qn_created[k]
    BY MessagesAssumption DEF NameInv, NameTypes, NumberTypes
  <2>3. StageTypes /\ FlagTypes /\ qn_killed \subseteq {k \in QN!Kinds : qn_named[k] # 0}
    BY DEF NameInv, NameTypes, NumberTypes
  <2> QED
    BY <2>1, <2>2, <2>3, Zenon DEF StageTypes, FlagTypes, QN!TypeOK
<1>7. SharedInv => SM!TypeOK
  BY DEF SharedInv, SharedTypes
<1>8. MutexInv => PM!TypeOK
  BY DEF MutexInv
<1>9. BridgeInv => BR!TypeOK
  BY DEF BridgeInv
<1>10. HandInv => HO!TypeOK
  BY DEF HandInv
<1>11. BarrierInv => BA!TypeOK
  BY DEF BarrierInv
<1>12. SignalInv => SG!TypeOK
  BY Zenon DEF SignalInv, SignalTypes, SignalFlags, SG!TypeOK
<1>13. Spec => [](MP!TypeOK /\ MD!TypeOK /\ DB!TypeOK /\ ND!TypeOK)
  BY <1>2, <1>3, <1>4, MpAlways, MpTypeCorrect, Md5Always, DeviceAlways, NullAlways, PTL
<1>14. Spec => [](QW!TypeOK /\ QN!TypeOK /\ SM!TypeOK)
  BY <1>5, <1>6, <1>7, QueueAlways, NameAlways, SharedAlways, PTL
<1>15. Spec => [](PM!TypeOK /\ BR!TypeOK /\ HO!TypeOK /\ BA!TypeOK /\ SG!TypeOK)
  BY <1>8, <1>9, <1>10, <1>11, <1>12, MutexAlways, BridgeAlways, HandAlways, BarrierAlways,
     SignalAlways, PTL
<1>16. /\ running \in Programs /\ MP!TypeOK /\ MD!TypeOK /\ DB!TypeOK /\ ND!TypeOK
       /\ QW!TypeOK /\ QN!TypeOK /\ SM!TypeOK
       /\ PM!TypeOK /\ BR!TypeOK /\ HO!TypeOK /\ BA!TypeOK /\ SG!TypeOK
       => TypeOK
  BY DEF TypeOK
<1> QED
  BY <1>1, <1>13, <1>14, <1>15, <1>16, PTL
===============================================================================
