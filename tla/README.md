# A verification of the QNX programs of this repository

The repository is a collection of small C programs for QNX Neutrino: processes
and threads that talk by messages, pulses, events, message queues and shared
memory. The largest is a traffic-light system of several processes
(`src/workspace_test/S_from_github`). This directory holds TLA+ modules
translated from the code, the TLC configurations that check them on small
instances, and theorems about them that TLAPS proves for every instance.
Paths below are relative to `src/workspace_test/`.

`PROJECT.json` maps every definition to the lines it stands for, and lists the
runs, the mutants that show that each property can fail, the findings, the
hazards and the theorems.

## Inventory

| Part | State | Operations | Interacts by | What makes it correct |
|---|---|---|---|---|
| Light cycle, `S_from_github/timing.c` | table of nine light states | next state, serialise, colour helpers | called by both processes below | one movement at a time, pedestrians beside a green |
| Intersection, `S_from_github/intersection-ui.c` | `intersection_state_t` (sensors, mode, override), the light thread's position, `run`, a mutex | keys; one iteration of the light thread a second; ESC | two threads over a mutex; `mode_mq` in, `status_mq` out | no request lost, minimum times kept, orderly exit, progress |
| Controller, `S_from_github/controller-ui.c` | cached states of the intersections, lights of the next override, selection | keys; a pass over the status queues | two threads over a mutex; the queues of each intersection | the last word of the operators counts |
| Timeout server, `S_time_fromFiles/S_time.c` | table of 16 blocked clients | timer pulse, wait, send | messages and pulses on one channel | a rendezvous: timed out on time, or paired |
| Pulse server, `NeutrinoIPC/pulse_server.c`; its clients | the saved client: rcvid, scoid, event | register, disconnect, notify once a second | messages, disconnect pulses, delivered events; two threads without a lock | one client at a time, which gets its own event |
| Message passing, `NeutrinoIPC/sendrec.c`, `Z_SendRec`, `S_zhihu_simple_*`, `Z__Timer_KernalTimeout`, `S_jianshu_sourceM_*` | a channel | send, receive, answer or refuse | messages between threads or processes | every sender is released |
| Named servers, `S_function_name_attach`, `Z__Server_NameAttach` and its clients, `S_zhihu_noteasy_*` | a name, an event handed over, the connections | open, messages, pulses | names, messages, events | every sender is released, events come back, connections are freed |
| MD5 service, `S_zhihu_sourceM_1_md5name` | one digest context | data in chunks, digest | messages | a client's digest is that of its data |
| Resource managers, `Z__ResourceManager_Server_harder` and others | a buffer, an offset for each open | read, write | the dispatch library | what is read, or printed, is what was written |
| Queue writers and reader, `Z_Mq_*` | a queue by name | create, send, receive | the queue | no message lost |
| Shared memory, `NeutrinoIPC/shmem*.c`, `Z__Shm_*` | an object by name: size, contents, mutex | create, map, lock, read, unlink | memory of two processes | no half text is read, and waiters get in |
| Threads, semaphore, condition variable, barrier | a counter or a flag, and what guards it | each thread's loop | memory of threads | exclusion, hand-over, meeting |
| Signals, `NeutrinoIPC/sigsleeper*.c` | mask, handler, the sleep | a thread that listens, a SIGTERM | the kernel | the sleep is not cut short |
| Timers, interrupts | little | one handler each | the kernel | - |

Hard behaviours: two operators and two threads on one state (intersection,
controller); threads without a lock (pulse server, semaphore, MD5 context);
queues that drop (`O_NONBLOCK`, results not looked at); clients that die
while blocked, servers that die while clients register; timers against late
data; stale copies of another process's state. `PROJECT.json` has each at its
line.

## Modules

### LightCycle, Intersection, SafeCrossing

`LightCycle` is `timing.c` without printing, as operators: `light_states` and
`phase_timeout` are the table that `intersection_light_init` fills, and
`intersection_light_next` is split along what it decides: whether the state may
be left (`MayLeave`), what follows (`Following`), which latches it clears
(`ClearedBy`) and when the mode is picked up (`ModeAfter`).

`Intersection` is the process. Names are those of the code. Actions of the main
thread: `SensorKey`, `ModeKey`, `OverrideKey`, `Escape` (no lock, as in the
code) and `Join` with the clean-up. The main thread's other keys touch only
what the mutex protects, so key and section are one step. The light thread
takes three steps in its section, because the controller sees its `mq_receive`
and its `mq_send` from outside the mutex: `LockLight` or `ExitLight`, then
`ReceiveCommand` or `ReceiveNothing`, then one of `StayOverridden`,
`CountDown`, `HoldGreen`, `EnterNext`, each with the release of the lock
(`FinishIteration`). `Wake` is the end of the sleep. `PeerSends` and
`PeerReceives` are any controller at all.

Two variables are history: `waiting`, the requests not yet given their light,
and `dwell`, the seconds a light state was shown without override.

`SafeCrossing` is the promise to the traffic: a movement is released only from
all red, goes green, yellow, red, and pedestrians walk only beside a green; the
tram is handed over to the north-south road at once. `Intersection` implements
it with `head` and `walk` read off the current entry of the table.

### Controller, TrafficSystem

`Controller` is the central controller as one of its intersections, `Me`, sees
it. The keys and the status pass hold one mutex, and each touches the queues of
`Me` at most once, so each is a step. The cached state keeps what the keys look
at: the mode and the override flag. Two slips of the code are in the model as
they are: the copy of the override lights has the size of a whole
`intersection_state_t` (`OverrideSetKey`: the excess falls on the mode and the
flags of the next intersection, or past the array), and a status replaces the
cached flag by that of an uninitialised local (`ReadStatus`,
`tmp_override_en`).

`TrafficSystem` composes the two over the shared queues. Its history variable
`asked` is what the intersection was last told, by a command the queue has
accepted or by a key of its own that no command of the same kind overtakes.

### Rendezvous, TimedServer

`Rendezvous` is the abstract server: clients wait, are paired with a client
that brings data, or are timed out. `TimedServer` is `S_time.c`: the client
table with its slots, the queued timer pulses, the state the kernel gives each
client (running, SEND-blocked, REPLY-blocked, dead). `gotAPulse`, `WaitData`,
`SendData` and `Ignore` are the branches of the code. The client programs are
not in the repository; a client sends any message whenever it runs, and dies
at any time. The receive order is left open. `waited` is history.

### PulseServer

`pulse_server.c` with its plain and its reconnecting client. The two threads
share `save_rcvid`, `save_scoid` and `save_event` without a lock, so that each
access is a step: `Wake` (the test), `LoadTarget` (the second read, for the
call), `Deliver` (the kernel reads the event); on the other side `SaveRcvid`,
`SaveScoid`, `SaveEvent` once per field, `Accept`, and for a disconnect pulse
`GetDisconnect`, `ClearScoid`, `Detach`. Connections have numbers the kernel
gives again only after `ConnectDetach`. Clients and server die and are started
again. Left out: `notify_count`, unexpected messages, and the priority 500 that
`pulse_client_server_reconnect.c:57` asks for in its event (whether the kernel
accepts it is not in the repository).

### MessagePassing

Eight pairs of server and client programs over one kernel. A program is two
tables: what its server answers to a message (`SendrecServer`,
`NameAttachServer`, ...) and what its clients send next (`worker`, `client`,
...). The kernel is the rest: a client is SEND-blocked, then REPLY-blocked, and
what waits on the channel, messages and pulses, waits in order. `name_open`
sends `_IO_CONNECT` or not (`connects`; the comment at
`S_function_name_attach.c:71` has it, and the library is not here). Clients of
`S_function_name_attach` and of `Z__Server_NameAttach` (`Told`) are terminated
at any time, with the disconnect and unblock pulses of a channel that
`name_attach` made. The first detaches what the pulse is about; the second only
prints the pulse, so that the connection stays closed on its side for ever. A
server whose `MsgReceive` fails ends, and its clients get errors.
`Z__Server_NameAttach` leaves some messages unanswered: their senders are
excepted from `CallersReleased`, and nobody else is.

### Md5Service

The context as the sequence of blocks digested since it was started; a digest
is the sequence it was made of. `ReadFromCaller` is the loop of `MsgRead`. The
service has no case for the `_IO_CONNECT` that `name_open` may send: in that
half of the initial states the clients stay blocked (`MsgReceive`); in the other
`name_open` sends nothing. Clients die anywhere; one that is being served is
kept by the kernel until it is answered, as on every channel of `name_attach`,
so that its blocks are digested all the same. A service whose `MsgRead` or
`MsgReceive` fails ends, as in the code. Pulses change nothing here.
`among` and `spoiled` are history: whose blocks have come since a digest.

### SharedMemory

`shmemcreator.c` and `shmemuser.c`, one action for each call that another
process can come between: the object is created, has a size, has a mutex, holds
half a text or a text. Creators and users are killed and run again, and a left
object is removed by hand, as the message of the creator asks.

### QueueWriters, QueueNames

`QueueWriters` is `Z_Mq_Writer.c` and the reader: queues found by name, open
as long as some process has them. `QueueNames` is the start and the end of the
two traffic-light processes, which `Intersection` and `Controller` do not have:
each opens two queues by name, one after the other; each may fail, and then
closes and unlinks what it has opened; each ends with ESC or is killed.

### PresidentMutex, Bridge, HandOver, Barrier

The synchronisation programs. `PresidentMutex` is `test_mutex.c` and
`sync_mutex_proity.c`, with a kernel that gives the mutex to the waiter of the
highest priority that has waited longest. `Bridge` is `Semaphore.c`, where `++`
and `--` are a load and a store. `HandOver` is `S_condvars.c`, with waits that
end without a signal. `Barrier` is `Z__Barrier.c`.

### DeviceBuffer, NullDevice

`DeviceBuffer` is the resource manager with a buffer and the two threads of its
client: an offset for each open file, which a read moves on and a write does
not. A transfer may fail (no descriptor, refused by the verify function, no
memory) and then moves no cell. `NullDevice` is `io_read` and `io_write` of
`example_resmgr_devnull.c`, refusals included, with the bytes that earlier
messages have left in the receive buffer, or the memory fetched into if the
write did not come whole (`Fetched`), because the question is where the printed
string ends. What is written is text without NUL bytes.

### SigSleeper

The three programs that sleep as their critical operation: the mask and the
listening thread of `sigsleeper_fixed.c`, the handler of `sigsleeper.c`, neither
in `Z__Signal_Sender.c`. A signal for the process goes to the thread that waits
in `sigwaitinfo` if there is one, else to any that does not block it.

### Programs

The twelve modules above from `MessagePassing` on have small state spaces and
share nothing, so that one run checks them all: `Programs` instantiates each,
`running` says which one moves, and the others stay in a first state. Its
properties are those of the instances, under the same names.

## Runs

| Run | What it asks | Instance |
|---|---|---|
| `intersection` | safety of one intersection under any controller; implements `SafeCrossing` | a request of each road and the tram by key, modes and overrides by command, green of 2 s, other delays 1, queues of 1 |
| `intersection_live` | progress without controller | one sensor of each group, `m`, `o`; delays 1 |
| `mode_text` | finding: "will update on next stop state" | as above |
| `traffic` | last word counts, all keys of both sides | `Me` the second of two intersections, so that the overrun of the first hits its cache |
| `traffic_override` | last word counts, with colours and the copy past the array | `Me` the only intersection, one lamp |
| `override_toggle` | finding: the override key asks for what is already so | as `traffic_override`, no keys |
| `timed_server` | safety, `Rendezvous`, slots freed | three clients, two slots, three pulses to time out |
| `dead_waiter` | finding: data lost on a dead client | the same, two pulses |
| `pulse_server` | one client, no connection lost, every registration notified | one plain and one reconnecting client, three connections |
| `stale_event` | finding: a client is sent the event of the client before it | the same |
| `programs` | the twelve small modules, each by itself | two clients for messages and for MD5 (files of up to two blocks), two creators and one user, two writers and two readers on queues of two, two queues for the names, three rounds, three soldiers with room for two, buffers of a few cells |
| `sig_mask` | finding: SIGTERM ends the sleep it was to be kept from | the three programs |

Why the bounds are enough. Delays: the code counts a timeout down and compares
it with 0; a state of one second and one of two show both branches of the
countdown, and the proofs cover all delays. Queues: one message is the shortest
queue that is both empty and full; `MQ_MAXMSG` is a constant in the theorems.
Lamps: the colour keys treat all lamps alike. Timed server: three clients on
two slots fill the table, leave one out, and let a slot be used again. Pulse
server: two clients are one that is served and one that is turned away; with
three connections a number is free while two disconnects are still to be
handled.

Programs: two clients are what mixing, overtaking and starving take; two runs of
the creator collide with each other, and the user meets each stage of either.
`MaxQueues`, `MaxSends`, `MaxWrites`, `Rounds` and `Looks` end runs that would
go on: two queues let one that was unlinked meet the one made after it. (Alone,
`QueueNames` was also run with three queues, and `SharedMemory` with two users.)
`Bridge` has fewer crossings and looks than the code, 20 and 10: one crossing of
three soldiers already loses an update. `Header` and `msg_max_size` leave room
for messages that fill the receive buffer, fall one short of it and are cut.

What the properties of `programs` except, the code does: a message of a type
`Z__Server_NameAttach` has no branch for blocks its sender for ever; the MD5
service mixes clients that send at the same time; a user that comes between
`shm_open` and the mutex reads raw memory; a creator killed with the mutex blocks
every user; the bridge may be reported falling by a lost update; a connection to
`Z__Server_NameAttach` is never detached; in `sync_mutex_proity.c` main, of lower
priority than the changers, may never get the mutex, and so would one changer if
it were created with `attr2`, which the code sets up and then does not use
(`:141`). Likewise in `traffic`: a command that a full queue drops is not one the
intersection was told, and a mode key pressed again before the next status sends
the command of the first once more, as `SwitchKey` looks at a cached mode.
`PROJECT.json` says so at the hazard of each.

`CHECK_DEADLOCK FALSE` is in the traffic-light runs, where the processes end
after ESC, and in `programs` and `sig_mask`, where most programs end.

Mutants. Next to each definition that matters stands a form of it with a slip a
programmer could make, marked "A slip" in a comment. They are not part of the
specifications; with one put in place of the definition, the run must find the
property that guards it violated.

## Fairness

- Intersection: weak fairness of the light thread and of the join. The light
  thread is an endless loop whose only waits are the mutex, which the main
  thread holds for single key presses, and a sleep. Keys and the controller owe
  nothing.
- Timed server: weak fairness of the timer, which reloads for ever, and of the
  pulse being received. Clients owe nothing, and nothing is assumed of the
  order of messages.
- Pulse server: weak fairness of both threads and of the steps a client takes
  by itself. Strong fairness that a given client's message is received: the
  channel gives the longest waiting sender of a priority first, and clients run
  at one priority. Deaths and restarts are never forced.

- Programs: weak fairness of the server of the messages, an endless loop, and
  of a client that takes its pulse or is released by the kernel when the server
  is gone; of creators and users of the shared memory, of the threads behind the
  mutex and of producer and consumer. In `PresidentMutex` a
  thread that waits has no step until the mutex is given to it, so that weak
  fairness does not say who gets it: the kernel's rule does. Deaths, failures,
  signals and waits that end by themselves are never forced.

## Findings

1. `mode_text`: a switch to timer mode ends a green at once (`timing.c:93`,
   `:148`); the text at `intersection-ui.c:176` says it waits for a stop state.
2. `override_toggle`: `controller-ui.c:258` overwrites the cached override flag
   with uninitialised memory, so that the next override key may ask for what is
   already so instead of changing it.
3. `dead_waiter`: `S_time.c:259` gives data to a client that has died, and tells
   the sender it was delivered.
4. `stale_event`: `pulse_server.c:151` lets the notifying thread deliver before
   the event is copied, so that a client may get the event, or fields of the
   event, of the client registered before it. (Fields still zero, from before the
   first client, are not counted.)
5. `sig_mask`: `sigsleeper_fixed.c:57` unblocks SIGTERM in main where the comment
   at line 54 keeps it away; a SIGTERM that comes while the listening thread is
   in its handler ends the process in its critical operation.

## Proofs

The theorems hold for every value of the constants that meets the assumptions
named below: any number of clients, keys, queues, rounds, cells and blocks.
Each follows from an inductive invariant stated beside its proof, with one step
per action.

| Theorem | Module | Argument |
|---|---|---|
| `CrossingSafe` | SafeCrossing | inductive as it stands |
| `TypeCorrect` | IntersectionProofs | inductive; lemmas on the table, the ring and the bounded queue |
| `RequestsKept` | IntersectionProofs | inductive over the types; the one case is `EnterNext`: what it clears is committed to a later light |
| `CleanIsLast` | IntersectionProofs | from `LockInv`: who holds the mutex follows from where the light thread is, and the join from its end |
| `DwellKept` | IntersectionProofs | from `DwellInv`: seconds shown plus timeout left cover the time of the state, one more or less while the thread is between its count and its sleep; needs `StartupAssumption` (`int timeout = 3` against `DELAY_STOP`) |
| `LightsImplementCrossing` | IntersectionProofs | step by step through the table (`TableViewed`, `CrossingStep`) |
| `LightsSafe` | IntersectionProofs | the two above |
| `IntersectionImplemented` | TrafficProofs | each step of the controller is one of `PeerSends`, `PeerReceives` or none that the intersection sees (`FreeStep`); needs the types of what the controller sends |
| `RemoteControlSafe` | TrafficProofs | the theorems of IntersectionProofs carried over by `IntersectionImplemented` |
| `TrafficTypeCorrect` | TrafficProofs | from `TrafficInv`, the types of both sides: each types what the other receives |
| `LastWordCounts` | TrafficProofs | from `CommandsInv`: `CommandsApplied` says nothing while a command is queued, so the last command of each kind in the queue must already be what was asked (`LastCommands`) |
| `ServerTyped`, `SlotsApart` | TimedServerProofs | from `TableInv`: types, slots apart, and the age of a slot and its timeout add up to `TIMEOUT` (`AgesAgree`) |
| `TimeoutsOnTime` | TimedServerProofs | from `TableInv`: an expired slot has the age `TIMEOUT - 1` |
| `ServerImplementsRendezvous` | TimedServerProofs | the table as the set of clients in it; a free slot means room (`RoomLeft`, by cardinality) |
| `ServerTypeCorrect`, `OneClientAtMost`, `NoNumberLost` | PulseServerProofs | from `ServerInv`: connections have numbers of their own (`ConnectionsApart`), an end is handled once (`EndHandledOnce`), a number is given again only after its detach (`NumbersKept`), and the three saved fields agree with the registered client except where the receiving thread is between two of them (`SavedInv`) |
| `DataHandedOnce` | ThreadProofs | from `HandInv`: a thread past its test still finds the flag as it tested it |
| `RoundsTogether` | ThreadProofs | from `BarrierCounts`: how far the two are apart follows from who is blocked at the barrier |
| `AlarmsAreLostStores` | ThreadProofs | from `BridgeInv`: semaphore and soldiers let in add up to `saveNum`, and without a lost store the counter is the number of soldiers on the bridge; by cardinality |
| `NamesBelongTogether` | ThreadProofs | from `MutexInv` (the owner is who is inside, no thread waits twice, the kernel's choice exists) and `NamesInv` (the names differ only while their owner is half way) |
| `QueueLosesNothing` | IpcProofs | from `QueueInv`: whoever has a queue open has the one behind the name, and queues without a name are empty |
| `NamesCleanedUp`, `SameQueues` | IpcProofs | from `NameInv`: a name left is owed by a process that will unlink it (`NamesOwed`), and until the first clean-up what is held is what is named (`HeldIsNamed`) |
| `LockedUsersReadWhole` | IpcProofs | from `SharedInv`: half a text is in memory only while its creator holds the mutex (`HalfIsLocked`), one creator works on an object (`OwnObject`), and a user that mapped the object before the mutex was there has no proper lock (`NotYetProper`) |
| `LastWriteRead` | ServiceProofs | from `DeviceInv`: who transfers has the mutex and the offset it sought, and the cell at the place is the last write |
| `WritesPrinted` | ServiceProofs | from `PrintInv`, by `EndsAtFirstNul`: the string ends at the first NUL after the header, which the write itself leaves |
| `DigestOfOwnFile` | ServiceProofs | from `Md5Inv`: until another comes in, the context is what the client has sent so far of its file (`Digested`, with `FileGrows` for one more message); a client waits at one place only (`WaitOnce`), and nobody waits for a service that has ended (`Emptied`) |
| `ProgramsTypeCorrect` | ServiceProofs | from the invariants above, `SignalInv`, `NullTypes` and `MpInv`. The last bounds the channel of `MessagePassing`: but for value pulses no entry is there twice (`Orderly`); a message is there only while its client is SEND-blocked and an unblock pulse only once it is doomed, which excludes that (`EntriesFit`, `ClientsFit`); so the entries of a client are at most one of these and its disconnect pulse, and map one to one into `Clients \X (1..2)`; value pulses lie in the first `MaxPending` places (`ChannelBounded`, by cardinality) |

`TypeOK` alone is not enough for any of them: whether a request may be cleared
depends on the light state, how long a client has waited on its slot, whether a
client is served on where the thread that saves it has got to.

Assumptions: the constants', evaluated by TLC in the runs. `DelayAssumption`,
`IntersectionAssumption`, `StartupAssumption`, `ControllerAssumption` and
`ComposedAssumption` (the operator of the composed intersection has no keys but
the sensors', the mode's and the override's); `TimedServerAssumption`;
`PulseServerAssumption`; and in `Programs` four that type the bounds and sizes
(`ProgramsAssumption`, `MessagesAssumption`, `DeviceAssumption`) and keep the
names of processes apart from each other and from the marks of a mutex
(`SharedMemoryAssumption`); and `ClientsAssumption`: finitely many clients of a
message server, values that are counted modulo at least 1.

Only model-checked: everything under fairness (`RoadRequestsServed`,
`TramServedInTimerMode`, `ExitCompletes`, `SlotsFreed`, `RegisteredNotified`,
`LookingEnds` and the progress properties of `programs`), as liveness is out of
reach of the prover here. Every invariant of a passing
run is a theorem.

## Not modelled

`PROJECT.json` lists each part with its reason. In short:

- Printing and parsing of text; the kernel and the dispatch library, beyond what
  the code sees of them. Time is counted in seconds of the light thread, in
  pulses or not at all.
- Failures after which the code goes on with what it did not get: the
  controller's keys after a queue could not be opened, allocations that fail, a
  file that could not be opened.
- Scatter and gather messages (the exchange is that of the named servers, the
  layout is data), timers that wait for themselves, devices and threads that
  keep nothing between calls, the named semaphore pair.
- `Z__Mq_Writer.c` and `Z_Mq_Write_3.c`: they unlink and create a name that no
  reader of the repository opens. `Z__Shm_Writer.c` and `Z__Shm_Reader.c`: one
  word, written and read with nothing between them to be right or wrong.
- Interrupts, and the programs that are commented out.

## Plan

Done, in this order: LightCycle, Intersection, SafeCrossing and their proofs;
Controller and TrafficSystem; Rendezvous, TimedServer and its proofs;
PulseServer; QueueNames and the other small programs.

Then TrafficProofs, PulseServerProofs, ThreadProofs, IpcProofs and
ServiceProofs.

To come: abstract specifications for the small programs that have none, and that
they are implemented.
