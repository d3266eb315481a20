----------------------------- MODULE DeviceBuffer ---------------------------
(* A resource manager keeps a buffer of integers behind dev/sample; its client *)
(* has a thread that reads the integer at one place and a thread that writes   *)
(* it.  Each moves the offset of its own descriptor there, then transfers,     *)
(* with the client's mutex held.  An integer is one cell here.                 *)
EXTENDS Integers

CONSTANTS Cells,      \* cells of the buffer
          Place,      \* where the client's threads seek to: byte 100
          MaxWrites   \* bound on the writes

VARIABLES
  buffer,    \* ResourceManager_buffer
  attached,  \* the server has attached dev/sample
  at,        \* at[t]: where client thread t is
  offset,    \* offset[t]: the offset of t's descriptor, -1 if open failed
  mutex,     \* who has the client's mutex, or "nobody"
  data,      \* data[t]: t's variable of that name
  num,       \* num[t]: what t's last transfer returned
  latest     \* history: the data last written, 0 at first

vars == <<buffer, attached, at, offset, mutex, data, num, latest>>

Threads == {"reader", "writer"}

Init ==
  /\ buffer = [c \in 0..(Cells - 1) |-> -c]    \* old values, all told apart
  /\ attached = FALSE
  /\ at = [t \in Threads |-> "open"]
  /\ offset = [t \in Threads |-> -1]
  /\ mutex = "nobody"
  /\ data = [t \in Threads |-> IF t = "writer" THEN 1 ELSE 0]
  /\ num = [t \in Threads |-> 0]
  /\ latest = -Place

\* The server attaches the name; the client is started three seconds later
\* whether it has or not.
Attach ==
  /\ ~attached
  /\ attached' = TRUE
  /\ UNCHANGED <<buffer, at, offset, mutex, data, num, latest>>

Open(t) ==
  /\ at[t] = "open"
  /\ offset' = [offset EXCEPT ![t] = IF attached THEN 0 ELSE -1]
  /\ at' = [at EXCEPT ![t] = "lock"]
  /\ UNCHANGED <<buffer, attached, mutex, data, num, latest>>

\* A slip: the mutex is not there, as the threads have descriptors of their own.
LockNothing(t) ==
  /\ at[t] = "lock"
  /\ mutex' = t
  /\ at' = [at EXCEPT ![t] = "seek"]
  /\ UNCHANGED <<buffer, attached, offset, data, num, latest>>

Lock(t) ==
  /\ at[t] = "lock" /\ mutex = "nobody"
  /\ mutex' = t
  /\ at' = [at EXCEPT ![t] = "seek"]
  /\ UNCHANGED <<buffer, attached, offset, data, num, latest>>

\* A slip: SEEK_CUR.
SeekOn(t) ==
  /\ at[t] = "seek"
  /\ offset' = [offset EXCEPT ![t] = IF @ = -1 THEN -1 ELSE @ + Place]
  /\ at' = [at EXCEPT ![t] = "transfer"]
  /\ UNCHANGED <<buffer, attached, mutex, data, num, latest>>

Seek(t) ==
  /\ at[t] = "seek"
  /\ offset' = [offset EXCEPT ![t] = IF @ = -1 THEN -1 ELSE Place]
  /\ at' = [at EXCEPT ![t] = "transfer"]
  /\ UNCHANGED <<buffer, attached, mutex, data, num, latest>>

\* read: what is left from the offset on, one cell at most, and the offset moves.
\* It fails without a descriptor, or if iofunc_read_verify refuses it; data is
\* then what it was.
io_read(t) ==
  /\ at[t] = "transfer" /\ t = "reader"
  /\ \/ num' = [num EXCEPT ![t] = -1] /\ UNCHANGED <<data, offset>>
     \/ /\ offset[t] >= Cells
        /\ num' = [num EXCEPT ![t] = 0] /\ UNCHANGED <<data, offset>>
     \/ /\ offset[t] \in 0..(Cells - 1)
        /\ num' = [num EXCEPT ![t] = 1]
        /\ data' = [data EXCEPT ![t] = buffer[offset[t]]]
        /\ offset' = [offset EXCEPT ![t] = @ + 1]
  /\ at' = [at EXCEPT ![t] = "unlock"]
  /\ UNCHANGED <<buffer, attached, mutex, latest>>

\* write: the cell at the offset, which stays where it is.  It fails, and writes
\* nothing, without a descriptor, if iofunc_write_verify refuses it or if there
\* is no memory to copy through.
io_write(t) ==
  /\ at[t] = "transfer" /\ t = "writer"
  /\ \/ num' = [num EXCEPT ![t] = -1] /\ UNCHANGED <<buffer, latest>>
     \/ /\ offset[t] # -1
        /\ num' = [num EXCEPT ![t] = 1]
        /\ buffer' = [buffer EXCEPT ![offset[t]] = data[t]]
        /\ latest' = data[t]
  /\ at' = [at EXCEPT ![t] = "unlock"]
  /\ UNCHANGED <<attached, offset, mutex, data>>

\* The mutex is let go; the writer has new data.
Unlock(t) ==
  /\ at[t] = "unlock" /\ (t = "writer" => data[t] < MaxWrites)
  /\ mutex' = "nobody"
  /\ data' = IF t = "writer" THEN [data EXCEPT ![t] = @ + 1] ELSE data
  /\ at' = [at EXCEPT ![t] = "lock"]
  /\ UNCHANGED <<buffer, attached, offset, num, latest>>

Next ==
  \/ Attach
  \/ \E t \in Threads :
       Open(t) \/ Lock(t) \/ Seek(t) \/ io_read(t) \/ io_write(t) \/ Unlock(t)

Spec == Init /\ [][Next]_vars

-----------------------------------------------------------------------------
\* Every variable has its type.
TypeOK ==
  /\ \A c \in DOMAIN buffer : buffer[c] \in -Cells..MaxWrites
  /\ attached \in BOOLEAN /\ mutex \in Threads \cup {"nobody"}
  /\ at \in [Threads -> {"open", "lock", "seek", "transfer", "unlock"}]
  /\ offset \in [Threads -> -1..Cells] /\ num \in [Threads -> -1..1]

\* What a read has brought is, while the reader still has the mutex, what was
\* written last, over any number of reads and writes; so the reader sees the
\* writer's data in order, never one older than before, nor a neighbour's.
ReadsLastWritten ==
  at["reader"] = "unlock" /\ num["reader"] = 1 => data["reader"] = latest
=============================================================================
