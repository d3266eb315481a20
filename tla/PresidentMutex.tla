--------------------------- MODULE PresidentMutex ---------------------------
(* Threads that change a first and a last name under presidentmutex: the       *)
(* program test_mutex, whose threads change them once, and the program         *)
(* sync_mutex_proity, whose threads go on for ever, while main locks the mutex *)
(* a number of times and returns.                                              *)
EXTENDS Integers, Sequences

CONSTANTS Rounds      \* how often main locks the mutex

VARIABLES
  mutexProgram,  \* which of the two programs runs
  pc,            \* pc[t]: where thread t is in its loop
  owner,         \* the owner of presidentmutex, or Nobody
  waiting,       \* the threads blocked on it, the longest waiting first
  first, last,   \* firstname and lastname: whose they are
  round          \* i in main

vars == <<mutexProgram, pc, owner, waiting, first, last, round>>

Changers == {"bush", "kerry", "my"}
Threads == Changers \cup {"main"}
Nobody == "nobody"

\* The changers a program creates, in this order.
Created(p) == IF p = "test_mutex" THEN <<"kerry", "bush">> ELSE <<"bush", "kerry", "my">>

\* A slip: kerry is created with attr2, which main has prepared for it.
PriorityAttr2(t) ==
  IF mutexProgram = "test_mutex"
    THEN [bush |-> 30, kerry |-> 16, main |-> 10][t]
    ELSE [bush |-> 17, kerry |-> 16, my |-> 28, main |-> 10][t]

\* sched_priority as set by main; both attributes of sync_mutex_proity's bush
\* and kerry are attr1.  main keeps the default.
Priority(t) ==
  IF mutexProgram = "test_mutex"
    THEN [bush |-> 30, kerry |-> 16, main |-> 10][t]
    ELSE [bush |-> 17, kerry |-> 17, my |-> 28, main |-> 10][t]

Init ==
  /\ mutexProgram \in {"test_mutex", "sync_mutex_proity"}
  /\ pc = [t \in Threads |-> IF t = "main" THEN "create" ELSE "none"]
  /\ owner = Nobody /\ waiting = <<>>
  /\ first = Nobody /\ last = Nobody
  /\ round = 0

\* main creates the next thread.
Create ==
  /\ pc["main"] = "create"
  /\ LET made == {i \in DOMAIN Created(mutexProgram) : pc[Created(mutexProgram)[i]] # "none"}
         next == CHOOSE i \in 1..3 : i \notin made /\ \A j \in 1..(i - 1) : j \in made
     IN pc' = [pc EXCEPT ![Created(mutexProgram)[next]] = "start",
                         !["main"] = IF next = Len(Created(mutexProgram)) THEN "start" ELSE @]
  /\ UNCHANGED <<mutexProgram, owner, waiting, first, last, round>>

\* pthread_mutex_lock: the mutex is free, or the thread blocks.
Lock(t) ==
  /\ pc[t] = "start"
  /\ IF owner = Nobody
       THEN owner' = t /\ pc' = [pc EXCEPT ![t] = "locked"] /\ UNCHANGED waiting
       ELSE waiting' = Append(waiting, t) /\ pc' = [pc EXCEPT ![t] = "blocked"] /\ UNCHANGED owner
  /\ UNCHANGED <<mutexProgram, first, last, round>>

FirstName(t) ==
  /\ pc[t] = "locked" /\ t \in Changers
  /\ first' = t
  /\ pc' = [pc EXCEPT ![t] = "half"]
  /\ UNCHANGED <<mutexProgram, owner, waiting, last, round>>

LastName(t) ==
  /\ pc[t] = "half"
  /\ last' = t
  /\ pc' = [pc EXCEPT ![t] = "changed"]
  /\ UNCHANGED <<mutexProgram, owner, waiting, first, round>>

\* Which waiting thread gets the mutex: of the highest priority, the longest
\* waiting.
Foremost ==
  CHOOSE i \in DOMAIN waiting : \A j \in DOMAIN waiting \ {i} :
    \/ Priority(waiting[i]) > Priority(waiting[j])
    \/ Priority(waiting[i]) = Priority(waiting[j]) /\ i < j

\* A slip: the loops of the changers, put out of use, are back.
AfterUnlockLooping(t) ==
  IF t = "main" /\ round + 1 = Rounds THEN "returned" ELSE "start"

\* The state thread t is in after it unlocked, the delay before the next lock
\* included (it takes any time).
AfterUnlock(t) ==
  IF t = "main" THEN IF round + 1 = Rounds THEN "returned" ELSE "start"
  ELSE IF mutexProgram = "test_mutex" THEN "done" ELSE "start"

\* pthread_mutex_unlock, which makes the foremost waiting thread the owner.
HandOn(t) ==
  /\ IF waiting = <<>>
       THEN /\ owner' = Nobody /\ UNCHANGED waiting
            /\ pc' = [pc EXCEPT ![t] = AfterUnlock(t)]
       ELSE LET n == Foremost IN
            /\ owner' = waiting[n]
            /\ waiting' = SubSeq(waiting, 1, n - 1) \o SubSeq(waiting, n + 1, Len(waiting))
            /\ pc' = [pc EXCEPT ![t] = AfterUnlock(t), ![waiting[n]] = "locked"]
  /\ round' = IF t = "main" THEN round + 1 ELSE round
  /\ UNCHANGED <<mutexProgram, first, last>>

\* A slip: the mutex is let go after the first name already.
UnlockHalfway(t) ==
  pc[t] = (IF t = "main" THEN "locked" ELSE "half") /\ HandOn(t)

Unlock(t) ==
  pc[t] = (IF t = "main" THEN "locked" ELSE "changed") /\ HandOn(t)

\* The process lives until main returns.
Next ==
  /\ pc["main"] # "returned"
  /\ \/ Create
     \/ \E t \in Threads : Lock(t) \/ Unlock(t)
     \/ \E t \in Changers : FirstName(t) \/ LastName(t)

Spec == Init /\ [][Next]_vars

\* A thread that can run is scheduled; the delays end.
Thread(t) ==
  /\ pc["main"] # "returned"
  /\ Lock(t) \/ FirstName(t) \/ LastName(t) \/ Unlock(t)

FairSpec ==
  /\ Spec /\ WF_vars(Create)
  /\ \A t \in Threads : WF_vars(Thread(t))

-----------------------------------------------------------------------------
\* Every variable has its type, and the owner is not among the waiting.
TypeOK ==
  /\ pc \in [Threads -> {"none", "create", "start", "blocked", "locked", "half", "changed", "done", "returned"}]
  /\ owner \in Threads \cup {Nobody} /\ round \in 0..Rounds
  /\ \A i \in DOMAIN waiting : pc[waiting[i]] = "blocked" /\ waiting[i] # owner

\* Whoever has the mutex and has not begun to change anything, and who finds it
\* free, sees a first and a last name that belong together.
NamesFit ==
  owner = Nobody \/ pc[owner] = "locked" => first = last

\* A changer that has reached the mutex gets it, whatever the other two do, or
\* the process ends.  (main, at the default priority, may wait for ever in
\* sync_mutex_proity: two changers always find the mutex taken.)
ChangersGetIn ==
  \A t \in Changers : pc[t] = "blocked" ~> (pc[t] = "locked" \/ pc["main"] = "returned")

\* In test_mutex main gets its turns and returns.
TestReturns ==
  mutexProgram = "test_mutex" ~> pc["main"] = "returned"
=============================================================================
