---------------------------- MODULE SharedMemory ----------------------------
(* The shared text of NeutrinoIPC/shmemcreator.c and shmemuser.c, and their   *)
(* copies Z_shm_Creat and Z_shm_Usr.  A creator makes an object under a name, *)
(* puts a mutex into it, and the text behind the mutex.  Users may come at    *)
(* any time, also before the mutex is there, and any process may be killed.   *)

CONSTANTS Creators,   \* runs of the creator, one after the other or at once
          Users       \* runs of the user

VARIABLES
  name,     \* the object behind "/myshmemobject"; objects are named by who made them
  sized,    \* sized[o]: ftruncate was called
  mutex,    \* mutex[o]: "raw" memory, "free", or who has it locked
  text,     \* text[o]: "empty", "half" or "full"
  maps,     \* maps[p]: the object p has opened
  at,       \* at[p]: where process p is
  read,     \* read[u]: what user u found
  \* history
  proper    \* proper[u]: the mutex was initialised when u locked it

vars == <<name, sized, mutex, text, maps, at, read, proper>>

Processes == Creators \cup Users
Nothing   == "nothing"
Dead      == {"killed", "crashed"}
Ended     == Dead \cup {"refused", "done"}

Init ==
  /\ name = Nothing
  /\ sized = [o \in Creators |-> FALSE]
  /\ mutex = [o \in Creators |-> "raw"]
  /\ text = [o \in Creators |-> "empty"]
  /\ maps = [p \in Processes |-> Nothing]
  /\ at = [p \in Processes |-> "start"]
  /\ read = [u \in Users |-> Nothing]
  /\ proper = [u \in Users |-> FALSE]

Goto(p, l) == at' = [at EXCEPT ![p] = l]

-----------------------------------------------------------------------------
(* The creator.                                                               *)

\* A slip: without O_EXCL an object that exists is opened.
CreateOrOpen(c) ==
  /\ at[c] = "start"
  /\ name' = IF name = Nothing THEN c ELSE name
  /\ maps' = [maps EXCEPT ![c] = name']
  /\ Goto(c, "created")
  /\ UNCHANGED <<sized, mutex, text, read, proper>>

\* shm_open with O_CREAT and O_EXCL.
Create(c) ==
  /\ at[c] = "start"
  /\ IF name # Nothing
     THEN Goto(c, "refused") /\ UNCHANGED <<name, maps>>
     ELSE /\ name' = c
          /\ maps' = [maps EXCEPT ![c] = c]
          /\ Goto(c, "created")
  /\ UNCHANGED <<sized, mutex, text, read, proper>>

Truncate(c) ==
  /\ at[c] = "created"
  /\ sized' = [sized EXCEPT ![maps[c]] = TRUE]
  /\ Goto(c, "sized")
  /\ UNCHANGED <<name, mutex, text, maps, read, proper>>

\* Whatever a user has made of the raw memory is overwritten.
InitMutex(c) ==
  /\ at[c] = "sized"
  /\ mutex' = [mutex EXCEPT ![maps[c]] = "free"]
  /\ Goto(c, "initialised")
  /\ UNCHANGED <<name, sized, text, maps, read, proper>>

CreatorLock(c) ==
  /\ at[c] = "initialised" /\ mutex[maps[c]] = "free"
  /\ mutex' = [mutex EXCEPT ![maps[c]] = c]
  /\ Goto(c, "locked")
  /\ UNCHANGED <<name, sized, text, maps, read, proper>>

\* strcpy, which a user without the lock may see half done.
BeginText(c) ==
  /\ at[c] = "locked"
  /\ text' = [text EXCEPT ![maps[c]] = "half"]
  /\ Goto(c, "writing")
  /\ UNCHANGED <<name, sized, mutex, maps, read, proper>>

EndText(c) ==
  /\ at[c] = "writing"
  /\ text' = [text EXCEPT ![maps[c]] = "full"]
  /\ Goto(c, "written")
  /\ UNCHANGED <<name, sized, mutex, maps, read, proper>>

\* A slip: the object is removed and the mutex kept.
UnlinkOnly(c) ==
  /\ at[c] = "written"
  /\ Goto(c, "unlocked")
  /\ UNCHANGED <<name, sized, mutex, text, maps, read, proper>>

CreatorUnlock(c) ==
  /\ at[c] = "written"
  /\ mutex' = [mutex EXCEPT ![maps[c]] = IF @ = c THEN "free" ELSE @]
  /\ Goto(c, "unlocked")
  /\ UNCHANGED <<name, sized, text, maps, read, proper>>

Unlink(c) ==
  /\ at[c] = "unlocked"
  /\ name' = Nothing
  /\ maps' = [maps EXCEPT ![c] = Nothing]
  /\ Goto(c, "done")
  /\ UNCHANGED <<sized, mutex, text, read, proper>>

Creator(c) ==
  \/ Create(c) \/ Truncate(c) \/ InitMutex(c) \/ CreatorLock(c)
  \/ BeginText(c) \/ EndText(c) \/ CreatorUnlock(c) \/ Unlink(c)

\* What the comment above line 94 tells one to do about a cancelled run.
RemoveByHand ==
  /\ name # Nothing /\ \E c \in Creators : maps[c] = name /\ at[c] = "killed"
  /\ \A c \in Creators : maps[c] = name => at[c] = "killed"
  /\ name' = Nothing
  /\ UNCHANGED <<sized, mutex, text, maps, at, read, proper>>

-----------------------------------------------------------------------------
(* The user.                                                                  *)

Open(u) ==
  /\ at[u] = "start"
  /\ IF name = Nothing THEN Goto(u, "refused") /\ UNCHANGED maps
     ELSE /\ maps' = [maps EXCEPT ![u] = name]
          /\ Goto(u, "opened")
  /\ UNCHANGED <<name, sized, mutex, text, read, proper>>

\* mmap is not checked: of an object without a size there is nothing to use.
Map(u) ==
  /\ at[u] = "opened"
  /\ Goto(u, IF sized[maps[u]] THEN "locking" ELSE "crashed")
  /\ UNCHANGED <<name, sized, mutex, text, maps, read, proper>>

\* The result of the lock is not looked at.  On raw memory it may seem to work
\* or fail; either way the user goes on.
UserLock(u) ==
  LET m == mutex[maps[u]]
  IN  /\ at[u] = "locking" /\ m \in {"raw", "free"}
      /\ mutex' \in {[mutex EXCEPT ![maps[u]] = u]} \cup
                    (IF m = "raw" THEN {mutex} ELSE {})
      /\ proper' = [proper EXCEPT ![u] = m = "free"]
      /\ Goto(u, "inside")
      /\ UNCHANGED <<name, sized, text, maps, read>>

Read(u) ==
  /\ at[u] = "inside"
  /\ read' = [read EXCEPT ![u] = text[maps[u]]]
  /\ Goto(u, "has_read")
  /\ UNCHANGED <<name, sized, mutex, text, maps, proper>>

\* An unlock by another than the owner has no effect; then the mapping goes.
UserUnlock(u) ==
  /\ at[u] = "has_read"
  /\ mutex' = [mutex EXCEPT ![maps[u]] =
                 IF @ # u THEN @ ELSE IF proper[u] THEN "free" ELSE "raw"]
  /\ Goto(u, "done")
  /\ UNCHANGED <<name, sized, text, maps, read, proper>>

User(u) == Open(u) \/ Map(u) \/ UserLock(u) \/ Read(u) \/ UserUnlock(u)

-----------------------------------------------------------------------------
\* A process is cancelled; what it has locked stays locked.
Kill(p) ==
  /\ at[p] \notin Ended
  /\ Goto(p, "killed")
  /\ UNCHANGED <<name, sized, mutex, text, maps, read, proper>>

Next ==
  \/ \E c \in Creators : Creator(c)
  \/ \E u \in Users : User(u)
  \/ RemoveByHand
  \/ \E p \in Processes : Kill(p)

Spec == Init /\ [][Next]_vars

\* Each program runs to its end unless it waits for the mutex.
FairSpec == Spec /\ (\A c \in Creators : WF_vars(Creator(c))) /\ (\A u \in Users : WF_vars(User(u)))

-----------------------------------------------------------------------------
\* Every variable has its type.
TypeOK ==
  /\ name \in Creators \cup {Nothing}
  /\ sized \in [Creators -> BOOLEAN]
  /\ mutex \in [Creators -> Processes \cup {"raw", "free"}]
  /\ text \in [Creators -> {"empty", "half", "full"}]
  /\ maps \in [Processes -> Creators \cup {Nothing}]
  /\ read \in [Users -> {Nothing, "empty", "half", "full"}]
  /\ proper \in [Users -> BOOLEAN]
  /\ \A p \in Processes : maps[p] # Nothing => at[p] # "start"

\* A user that locked a mutex, and not raw memory, never reads half a text:
\* also not when runs of the creator follow each other or collide, and no
\* matter who is killed.
LockedReadsWhole ==
  \A u \in Users : proper[u] => read[u] # "half"

\* A user that waits for the mutex gets it, unless whoever has it is dead.
UserGetsIn ==
  \A u \in Users :
    at[u] = "locking" ~> (at[u] # "locking" \/
      \E p \in Processes : at[p] \in Dead /\ mutex[maps[u]] = p)
=============================================================================
