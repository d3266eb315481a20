------------------------------ MODULE Programs -------------------------------
(* The small programs of the workspace, which share nothing but the kernel:    *)
(* each behaviour is one of the program that runs.                             *)
EXTENDS Integers, FiniteSets

CONSTANTS Clients, MaxPending, Values, Md5Clients, FileBlocks, SendBlocks,
          Creators, Users, Writers, Readers, Capacity, MaxQueues, MaxSends,
          Rounds, Soldiers, saveNum, Crossings, Looks, Cells, Place,
          MaxWrites, Header, msg_max_size, MaxBytes, Sleepers

\* The bounds and sizes of the programs.
ASSUME ProgramsAssumption ==
  /\ Rounds \in Nat \ {0} /\ saveNum \in Nat /\ Crossings \in Nat /\ Looks \in Nat
  /\ IsFiniteSet(Soldiers)

ASSUME MessagesAssumption ==
  /\ MaxQueues \in Nat /\ MaxSends \in Nat /\ Capacity \in Nat
  /\ FileBlocks \in Nat /\ SendBlocks \in Nat

ASSUME ClientsAssumption ==
  IsFiniteSet(Clients) /\ MaxPending \in Nat /\ Values \in Nat \ {0}

\* Creator and user are two programs, and nobody is called like a mutex that
\* has no owner.
ASSUME SharedMemoryAssumption ==
  Creators \cap Users = {} /\ {"nothing", "raw", "free"} \cap (Creators \cup Users) = {}

\* Place is byte 100 of 4096.
ASSUME DeviceAssumption ==
  /\ Cells \in Nat /\ Place \in 0..(Cells - 1) /\ MaxWrites \in Nat \ {0}
  /\ Header \in Nat /\ msg_max_size \in Nat /\ MaxBytes \in Nat

VARIABLES
  running,   \* the program that runs
  mp_program, mp_connects, mp_kind, mp_pc, mp_step, mp_message, mp_value,
  mp_inbox, mp_doomed, mp_conn, mp_server, mp_caller, mp_channel,
  md_ctx, md_service, md_asking, md_queue, md_state, md_size, md_sent,
  md_msglen, md_digest, md_among, md_spoiled,
  sm_name, sm_sized, sm_mutex, sm_text, sm_maps, sm_at, sm_read, sm_proper,
  qw_named, qw_created, qw_contents, qw_open, qw_num, qw_accepted, qw_received,
  qn_stage, qn_named, qn_created, qn_held, qn_ending, qn_cleaned, qn_killed,
  pm_mutexProgram, pm_pc, pm_owner, pm_waiting, pm_first, pm_last, pm_round,
  br_onBridge, br_sem, br_step, br_loaded, br_crossed, br_looked, br_lost,
  ho_data_ready, ho_at, ho_owner, ho_ended, ho_surplus,
  ba_state, ba_inside, ba_arrived, ba_passed,
  db_buffer, db_attached, db_at, db_offset, db_mutex, db_data, db_num,
  db_latest,
  nd_buffer, nd_request, nd_answer, nd_printed, nd_flags,
  sg_sleeper, sg_main, sg_sigThread, sg_handled, sg_masked, sg_pending,
  sg_killed, sg_cut

mp_vars == <<mp_program, mp_connects, mp_kind, mp_pc, mp_step, mp_message,
             mp_value, mp_inbox, mp_doomed, mp_conn, mp_server, mp_caller,
             mp_channel>>
md_vars == <<md_ctx, md_service, md_asking, md_queue, md_state, md_size,
             md_sent, md_msglen, md_digest, md_among, md_spoiled>>
sm_vars == <<sm_name, sm_sized, sm_mutex, sm_text, sm_maps, sm_at, sm_read,
             sm_proper>>
qw_vars == <<qw_named, qw_created, qw_contents, qw_open, qw_num, qw_accepted,
             qw_received>>
qn_vars == <<qn_stage, qn_named, qn_created, qn_held, qn_ending, qn_cleaned,
             qn_killed>>
pm_vars == <<pm_mutexProgram, pm_pc, pm_owner, pm_waiting, pm_first, pm_last,
             pm_round>>
br_vars == <<br_onBridge, br_sem, br_step, br_loaded, br_crossed, br_looked,
             br_lost>>
ho_vars == <<ho_data_ready, ho_at, ho_owner, ho_ended, ho_surplus>>
ba_vars == <<ba_state, ba_inside, ba_arrived, ba_passed>>
db_vars == <<db_buffer, db_attached, db_at, db_offset, db_mutex, db_data,
             db_num, db_latest>>
nd_vars == <<nd_buffer, nd_request, nd_answer, nd_printed, nd_flags>>
sg_vars == <<sg_sleeper, sg_main, sg_sigThread, sg_handled, sg_masked,
             sg_pending, sg_killed, sg_cut>>
vars == <<running, mp_vars, md_vars, sm_vars, qw_vars, qn_vars, pm_vars,
          br_vars, ho_vars, ba_vars, db_vars, nd_vars, sg_vars>>

MP == INSTANCE MessagePassing WITH program <- mp_program,
    connects <- mp_connects, kind <- mp_kind, pc <- mp_pc, step <- mp_step,
    message <- mp_message, value <- mp_value, inbox <- mp_inbox,
    doomed <- mp_doomed, conn <- mp_conn, server <- mp_server,
    caller <- mp_caller, channel <- mp_channel

MD == INSTANCE Md5Service WITH ctx <- md_ctx, service <- md_service,
    asking <- md_asking, queue <- md_queue, state <- md_state,
    size <- md_size, sent <- md_sent, msglen <- md_msglen,
    digest <- md_digest, among <- md_among, spoiled <- md_spoiled

SM == INSTANCE SharedMemory WITH name <- sm_name, sized <- sm_sized,
    mutex <- sm_mutex, text <- sm_text, maps <- sm_maps, at <- sm_at,
    read <- sm_read, proper <- sm_proper

QW == INSTANCE QueueWriters WITH named <- qw_named, created <- qw_created,
    contents <- qw_contents, open <- qw_open, num <- qw_num,
    accepted <- qw_accepted, received <- qw_received

QN == INSTANCE QueueNames WITH stage <- qn_stage, named <- qn_named,
    created <- qn_created, held <- qn_held, ending <- qn_ending,
    cleaned <- qn_cleaned, killed <- qn_killed

PM == INSTANCE PresidentMutex WITH mutexProgram <- pm_mutexProgram,
    pc <- pm_pc, owner <- pm_owner, waiting <- pm_waiting, first <- pm_first,
    last <- pm_last, round <- pm_round

BR == INSTANCE Bridge WITH onBridge <- br_onBridge, sem <- br_sem,
    step <- br_step, loaded <- br_loaded, crossed <- br_crossed,
    looked <- br_looked, lost <- br_lost

HO == INSTANCE HandOver WITH data_ready <- ho_data_ready, at <- ho_at,
    owner <- ho_owner, ended <- ho_ended, surplus <- ho_surplus

BA == INSTANCE Barrier WITH state <- ba_state, inside <- ba_inside,
    arrived <- ba_arrived, passed <- ba_passed

DB == INSTANCE DeviceBuffer WITH buffer <- db_buffer, attached <- db_attached,
    at <- db_at, offset <- db_offset, mutex <- db_mutex, data <- db_data,
    num <- db_num, latest <- db_latest

ND == INSTANCE NullDevice WITH buffer <- nd_buffer, request <- nd_request,
    answer <- nd_answer, printed <- nd_printed, flags <- nd_flags

SG == INSTANCE SigSleeper WITH sleeper <- sg_sleeper, main <- sg_main,
    sigThread <- sg_sigThread, handled <- sg_handled, masked <- sg_masked,
    pending <- sg_pending, killed <- sg_killed, cut <- sg_cut

Programs == {"messages", "md5", "shared_memory", "queue_writers",
             "queue_names", "mutex", "semaphore", "condition_variable",
             "barrier", "device", "null_device", "signals"}

\* The programs that do not run stay in one of their first states.
Init ==
  /\ running \in Programs
  /\ MP!Init /\ (running # "messages" => mp_program = "dispatch" /\ ~mp_connects)
  /\ MD!Init
  /\ running # "md5" => /\ md_size = [c \in Md5Clients |-> 0]
                        /\ md_state = [c \in Md5Clients |-> "opening"]
  /\ SM!Init
  /\ QW!Init
  /\ QN!Init
  /\ PM!Init /\ (running # "mutex" => pm_mutexProgram = "sync_mutex_proity")
  /\ BR!Init
  /\ HO!Init
  /\ BA!Init
  /\ DB!Init
  /\ ND!Init
  /\ SG!Init /\ (running # "signals" => sg_sleeper = "sigsleeper")

Next ==
  /\ UNCHANGED running
  /\ IF running = "messages" THEN MP!Next ELSE UNCHANGED mp_vars
  /\ IF running = "md5" THEN MD!Next ELSE UNCHANGED md_vars
  /\ IF running = "shared_memory" THEN SM!Next ELSE UNCHANGED sm_vars
  /\ IF running = "queue_writers" THEN QW!Next ELSE UNCHANGED qw_vars
  /\ IF running = "queue_names" THEN QN!Next ELSE UNCHANGED qn_vars
  /\ IF running = "mutex" THEN PM!Next ELSE UNCHANGED pm_vars
  /\ IF running = "semaphore" THEN BR!Next ELSE UNCHANGED br_vars
  /\ IF running = "condition_variable" THEN HO!Next ELSE UNCHANGED ho_vars
  /\ IF running = "barrier" THEN BA!Next ELSE UNCHANGED ba_vars
  /\ IF running = "device" THEN DB!Next ELSE UNCHANGED db_vars
  /\ IF running = "null_device" THEN ND!Next ELSE UNCHANGED nd_vars
  /\ IF running = "signals" THEN SG!Next ELSE UNCHANGED sg_vars

Spec == Init /\ [][Next]_vars

\* Of the program that runs, what its own specification says is fair.
FairSpec ==
  /\ Spec
  /\ WF_mp_vars(running = "messages" /\ MP!Serve)
  /\ \A c \in Clients : WF_mp_vars(running = "messages" /\ MP!TakePulse(c))
  /\ \A c \in Clients : WF_mp_vars(running = "messages" /\ MP!SendFails(c))
  /\ \A c \in Creators : WF_sm_vars(running = "shared_memory" /\ SM!Creator(c))
  /\ \A u \in Users : WF_sm_vars(running = "shared_memory" /\ SM!User(u))
  /\ WF_pm_vars(running = "mutex" /\ PM!Create)
  /\ \A t \in PM!Threads : WF_pm_vars(running = "mutex" /\ PM!Thread(t))
  /\ \A t \in HO!Threads : WF_ho_vars(running = "condition_variable" /\ HO!Thread(t))

-----------------------------------------------------------------------------
\* Every variable of every program has its type.
TypeOK ==
  /\ running \in Programs
  /\ MP!TypeOK
  /\ MD!TypeOK
  /\ SM!TypeOK
  /\ QW!TypeOK
  /\ QN!TypeOK
  /\ PM!TypeOK
  /\ BR!TypeOK
  /\ HO!TypeOK
  /\ BA!TypeOK
  /\ DB!TypeOK
  /\ ND!TypeOK
  /\ SG!TypeOK

\* A client blocked in MsgSend is released, whatever the other clients send, and
\* also when the server gives up; but for the messages with no branch.
CallersReleased == MP!CallersReleased

\* The server of S_function_name_attach lets go of every connection whose
\* client has closed it or was terminated (the comment at its line 44).
ConnectionsFreed == MP!ConnectionsFreed

\* A client that gave its event away, and waits, gets the pulse; unless
\* S_server_pulse took the _IO_CONNECT of name_open for its one message.
EventsComeBack == MP!EventsComeBack

\* The digest a client gets is that of its file, block for block, unless blocks
\* of another client were digested with it or another's digest cut it short.
\* What a client leaves that died in the middle counts as blocks of another.
DigestIsOwn == MD!DigestIsOwn

\* A user that locked a mutex, and not raw memory, never reads half a text:
\* also not when runs of the creator follow each other or collide, and no
\* matter who is killed.
LockedReadsWhole == SM!LockedReadsWhole

\* A user that waits for the mutex gets it, unless whoever has it is dead.
UserGetsIn == SM!UserGetsIn

\* What was sent is what was received and what waits under the name, in order:
\* writers and readers come and go, and no message is lost or overtaken.
NothingLost == QW!NothingLost

\* When neither process runs there is no name left that nobody was killed over:
\* each of them, failing or ending, unlinks whatever it has opened.
NothingLeftBehind == QN!NothingLeftBehind

\* Two processes that both came up after neither ran, with nothing cleaned up
\* since, talk over the same queues, in whatever order they opened them, were
\* killed and started again.  (A restart after a clean end does not join.)
StartedTogetherJoined == QN!StartedTogetherJoined

\* Whoever has the mutex and has not begun to change anything, and who finds it
\* free, sees a first and a last name that belong together.
NamesFit == PM!NamesFit

\* A changer that has reached the mutex gets it, whatever the other two do, or
\* the process ends.  (main, at the default priority, may wait for ever in
\* sync_mutex_proity: two changers always find the mutex taken.)
ChangersGetIn == PM!ChangersGetIn

\* In test_mutex main gets its turns and returns.
TestReturns == PM!TestReturns

\* main says that the bridge is falling down only when an unlocked ++ or -- has
\* lost another one: the semaphore itself never lets too many on the bridge.
NoFalseAlarm == BR!NoFalseAlarm

\* Each piece of data is consumed once and none is overwritten: data_ready says
\* at all times how many are on the way, whatever waits end without a signal.
HandedOnce == HO!HandedOnce

\* Data produced is consumed, and a producer that has data hands it over, as long
\* as main sleeps: no signal is lost and the two never wait for each other.
DataMovesOn == HO!DataMovesOn

\* The first two threads go from round to round together: neither passes the
\* barrier for the nth time before the other has come to it n times.
MeetTogether == BA!MeetTogether

\* What a read has brought is, while the reader still has the mutex, what was
\* written last, over any number of reads and writes; so the reader sees the
\* writer's data in order, never one older than before, nor a neighbour's.
ReadsLastWritten == DB!ReadsLastWritten

\* What is printed for a write is what was written, to its last byte and no
\* further, whatever earlier messages have left in the receive buffer.
PrintedAsWritten == ND!PrintedAsWritten

==============================================================================
