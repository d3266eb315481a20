----------------------------- MODULE NullDevice -----------------------------
(* The /dev/Null resource manager: what is written is printed as a string and  *)
(* forgotten, a read returns nothing.  A write is terminated where it lies in  *)
(* the receive buffer if it came whole and there is room, and is fetched into  *)
(* memory of its own otherwise.  The buffer keeps what earlier messages left.  *)
EXTENDS Naturals

CONSTANTS Header,        \* sizeof(msg->i)
          msg_max_size,  \* size of the receive buffer
          MaxBytes       \* bound on the bytes of a write

VARIABLES
  buffer,    \* the receive buffer: which bytes are NUL
  request,   \* the last request: its kind, nbytes and xtype
  answer,    \* the number of bytes it was answered with, or an error
  printed,   \* the length of the string printed for a write
  flags      \* the times of the device to be updated

vars == <<buffer, request, answer, printed, flags>>

Kinds == {"read", "write"}
ENOSYS == MaxBytes + 1      \* pread and pwrite
EBADF  == MaxBytes + 2      \* the client may not read, or not write
Errors == {ENOSYS, EBADF}
RunsOn == MaxBytes + 1      \* the string has no end within the buffer

Init ==
  /\ buffer = [i \in 0..(msg_max_size - 1) |-> TRUE]
  /\ request = [kind |-> "none", nbytes |-> 0, xtype |-> 0]
  /\ answer = 0 /\ printed = 0 /\ flags = {}

\* xtype & _IO_XTYPE_MASK != _IO_XTYPE_NONE, which looks at the lowest bit only:
\* the comparison comes first.
Unsupported(xtype) == xtype % 2 = 1

\* The bytes of a message that reach the receive buffer.
msglen(n) == IF Header + n < msg_max_size THEN Header + n ELSE msg_max_size

\* The buffer after a message of n bytes of text, none of them NUL.
Received(n) ==
  [i \in DOMAIN buffer |-> IF i < msglen(n) THEN FALSE ELSE buffer[i]]

\* A slip: a write that fills the receive buffer leaves no place for the NUL.
CameWhole(n) == n <= msglen(n) - Header

TerminatedInPlace(n) == n <= msglen(n) - Header /\ msglen(n) < msg_max_size

\* The memory of n + 1 bytes that is asked for otherwise, with the n bytes read
\* again and the NUL behind them.
Fetched(n) == [i \in 0..n |-> i = n]

\* The length of the string that begins at byte first of b.
StringLength(b, first) ==
  LET ends == {i \in DOMAIN b : i >= first /\ b[i]}
  IN IF ends = {} THEN RunsOn
     ELSE (CHOOSE i \in ends : \A j \in ends : i <= j) - first

\* verified is what iofunc_write_verify says; nothing is printed on an error.
io_write(n, xtype, verified) ==
  /\ request' = [kind |-> "write", nbytes |-> n, xtype |-> xtype]
  /\ IF ~verified \/ Unsupported(xtype)
       THEN /\ answer' = IF verified THEN ENOSYS ELSE EBADF
            /\ buffer' = Received(n) /\ UNCHANGED <<printed, flags>>
       ELSE /\ answer' = n
            /\ IF TerminatedInPlace(n)
                 THEN /\ buffer' = [i \in DOMAIN buffer |-> i = Header + n \/ Received(n)[i]]
                      /\ printed' = StringLength(buffer', Header)
                 ELSE buffer' = Received(n) /\ printed' = StringLength(Fetched(n), 0)
            /\ flags' = IF n > 0 THEN flags \cup {"MTIME", "CTIME"} ELSE flags

\* The message of a read is its header.
io_read(n, xtype, verified) ==
  /\ request' = [kind |-> "read", nbytes |-> n, xtype |-> xtype]
  /\ buffer' = Received(0)
  /\ IF ~verified \/ Unsupported(xtype)
     THEN answer' = (IF verified THEN ENOSYS ELSE EBADF) /\ UNCHANGED flags
     ELSE answer' = 0 /\ flags' = IF n > 0 THEN flags \cup {"ATIME"} ELSE flags
  /\ UNCHANGED printed

Next ==
  \E n \in 0..MaxBytes, xtype \in 0..2, verified \in BOOLEAN :
    io_write(n, xtype, verified) \/ io_read(n, xtype, verified)

Spec == Init /\ [][Next]_vars

-----------------------------------------------------------------------------
\* Every variable has its type.
TypeOK ==
  /\ buffer \in [0..(msg_max_size - 1) -> BOOLEAN]
  /\ request \in [kind : Kinds \cup {"none"}, nbytes : 0..MaxBytes, xtype : 0..2]
  /\ answer \in 0..EBADF /\ printed \in 0..RunsOn
  /\ flags \subseteq {"ATIME", "MTIME", "CTIME"}

\* What is printed for a write is what was written, to its last byte and no
\* further, whatever earlier messages have left in the receive buffer.
PrintedAsWritten ==
  request.kind = "write" /\ answer \notin Errors => printed = request.nbytes
=============================================================================
