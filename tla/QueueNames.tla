----------------------------- MODULE QueueNames -----------------------------
(* The two queues between one intersection and the controller, as names: both  *)
(* processes open them with O_CREAT when they start (message_init) and both    *)
(* close and unlink them when they end (message_clean).  A queue that lost its *)
(* name lives on in who has it open.  Mq_open may fail and a process may be    *)
(* killed at any point; both may be started again.                             *)
EXTENDS Naturals

CONSTANTS MaxQueues     \* bound on the queues of a kind ever created

VARIABLES
  stage,    \* stage[p]: where process p is in message_init or message_clean
  named,    \* named[k]: the queue behind the name of kind k, 0 if there is none
  created,  \* created[k]: how many queues of kind k were created
  held,     \* held[p][k]: the queue behind p's descriptor, 0 for the value -1
  ending,   \* ending[p]: p cleans up because of ESC, not of a failed mq_open
  \* history
  cleaned,  \* a name was unlinked since neither process ran
  killed    \* the kinds whose name a killed process has left

vars == <<stage, named, created, held, ending, cleaned, killed>>

Processes == {"intersection", "controller"}
Kinds == {"mode", "status"}

Down == <<"down", "both">>
Running == <<"runs", "both">>
Queueless == <<"runs", "neither">>    \* a controller whose message_init failed

Init ==
  /\ stage = [p \in Processes |-> Down]
  /\ named = [k \in Kinds |-> 0] /\ created = [k \in Kinds |-> 0]
  /\ held = [p \in Processes |-> [k \in Kinds |-> 0]]
  /\ ending = [p \in Processes |-> FALSE]
  /\ cleaned = FALSE /\ killed = {}

Start(p) ==
  /\ stage[p] = Down
  /\ stage' = [stage EXCEPT ![p] = <<"open", "mode">>]
  /\ held' = [held EXCEPT ![p] = [k \in Kinds |-> 0]]
  /\ ending' = [ending EXCEPT ![p] = FALSE]
  /\ UNCHANGED <<named, created, cleaned, killed>>

\* After the queue of kind k: the other one, then the check of the flag.
Onward(p, k) ==
  stage' = [stage EXCEPT ![p] =
    CASE k = "mode" -> <<"open", "status">>
      [] k = "status" /\ \E j \in Kinds : held'[p][j] = 0 -> <<"clean", "mode">>
      [] OTHER -> Running]

\* A slip: the name is unlinked first, as two of the queue writers do.
OpenAfresh(p, k) ==
  /\ stage[p] = <<"open", k>>
  /\ created[k] < MaxQueues
  /\ created' = [created EXCEPT ![k] = @ + 1]
  /\ named' = [named EXCEPT ![k] = created'[k]]
  /\ killed' = killed \ {k}
  /\ held' = [held EXCEPT ![p][k] = named'[k]]
  /\ Onward(p, k)
  /\ UNCHANGED <<ending, cleaned>>

\* mq_open with O_CREAT: the queue behind the name, or a new one.
OpenQueue(p, k) ==
  /\ stage[p] = <<"open", k>>
  /\ IF named[k] # 0 THEN UNCHANGED <<named, created>>
     ELSE /\ created[k] < MaxQueues
          /\ created' = [created EXCEPT ![k] = @ + 1]
          /\ named' = [named EXCEPT ![k] = created'[k]]
  /\ held' = [held EXCEPT ![p][k] = named'[k]]
  /\ Onward(p, k)
  /\ UNCHANGED <<ending, cleaned, killed>>

\* A slip: a failure ends the process with the other queue left behind.
FailAndEnd(p, k) ==
  /\ stage[p] = <<"open", k>>
  /\ stage' = [stage EXCEPT ![p] = Down]
  /\ cleaned' = (cleaned /\ \E o \in Processes : stage'[o] # Down)
  /\ UNCHANGED <<named, created, held, ending, killed>>

\* mq_open fails; the second queue is opened even after the first failed.
FailOpen(p, k) ==
  /\ stage[p] = <<"open", k>>
  /\ held' = [held EXCEPT ![p][k] = 0]
  /\ Onward(p, k)
  /\ UNCHANGED <<named, created, ending, cleaned, killed>>

\* ESC ends the main loop.  The controller also runs with its queues closed.
Escape(p) ==
  /\ stage[p] \in {Running, Queueless}
  /\ stage' = [stage EXCEPT ![p] = <<"clean", "mode">>]
  /\ ending' = [ending EXCEPT ![p] = TRUE]
  /\ UNCHANGED <<named, created, held, cleaned, killed>>

\* message_clean, one queue: closed and unlinked when the descriptor is not -1,
\* even when it is closed already.  After a failed message_init the intersection
\* ends, and the controller, which ignores the result, goes on.
CloseAndUnlink(p, k) ==
  /\ stage[p] = <<"clean", k>>
  /\ IF held[p][k] # 0
       THEN named' = [named EXCEPT ![k] = 0] /\ killed' = killed \ {k}
       ELSE UNCHANGED <<named, killed>>
  /\ stage' = [stage EXCEPT ![p] =
       CASE k = "mode" -> <<"clean", "status">>
         [] k = "status" /\ p = "controller" /\ ~ending[p] -> Queueless
         [] OTHER -> Down]
  /\ cleaned' = /\ cleaned \/ held[p][k] # 0
                /\ \E o \in Processes : stage'[o] # Down
  /\ UNCHANGED <<created, held, ending>>

\* A process is killed; the kernel closes its descriptors and keeps the names.
Kill(p) ==
  /\ stage[p] # Down
  /\ stage' = [stage EXCEPT ![p] = Down]
  /\ killed' = killed \cup {k \in Kinds : held[p][k] # 0 /\ named[k] # 0}
  /\ cleaned' = (cleaned /\ \E o \in Processes : stage'[o] # Down)
  /\ UNCHANGED <<named, created, held, ending>>

Next ==
  \E p \in Processes :
    \/ Start(p) \/ Escape(p) \/ Kill(p)
    \/ \E k \in Kinds : OpenQueue(p, k) \/ FailOpen(p, k) \/ CloseAndUnlink(p, k)

Spec == Init /\ [][Next]_vars

-----------------------------------------------------------------------------
Stages == {Down, Running, Queueless} \cup {"open", "clean"} \X Kinds

\* Every variable has its type; only a controller runs without its queues.
TypeOK ==
  /\ stage \in [Processes -> Stages] /\ stage["intersection"] # Queueless
  /\ \A k \in Kinds : named[k] \in 0..created[k] /\ created[k] \in 0..MaxQueues
  /\ \A p \in Processes, k \in Kinds : held[p][k] \in 0..created[k]
  /\ ending \in [Processes -> BOOLEAN] /\ cleaned \in BOOLEAN
  /\ killed \subseteq {k \in Kinds : named[k] # 0}

\* When neither process runs there is no name left that nobody was killed over:
\* each of them, failing or ending, unlinks whatever it has opened.
NothingLeftBehind ==
  (\A p \in Processes : stage[p] = Down) => {k \in Kinds : named[k] # 0} \subseteq killed

\* Two processes that both came up after neither ran, with nothing cleaned up
\* since, talk over the same queues, in whatever order they opened them, were
\* killed and started again.  (A restart after a clean end does not join.)
StartedTogetherJoined ==
  (\A p \in Processes : stage[p] = Running) /\ ~cleaned
    => held["intersection"] = held["controller"]
=============================================================================
