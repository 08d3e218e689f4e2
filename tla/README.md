# A TLA+ model of Vectro

Vectro is a header-only C++ toolkit for TCP services: a thread pool, message
channels on top of it, sessions and clients over asio streams, a write queue,
a logger. This directory holds TLA+ models of the parts whose correctness
depends on the order in which threads, completion handlers and timers run,
the TLC configurations that check them on small instances, and TLAPS proofs of
their safety properties for every size.

Paths below are relative to the repository; `pool/…`, `tcp/…` and so on are under
`src/vectro/`.

## 1. Inventory

| Component | State | Operations | Interacts with | What is hard |
|---|---|---|---|---|
| **TaskMultiProcessor** `pool/task_multi_processor.h` | one deque per worker with its mutex, `tasks_in_queue_`, `running_`, `cfg_`, drop and progress counters | `Submit`, `SubmitWithTimeout`, `SubmitWithResult`, `UpdateConfig`, `GetDroppedCount`, worker loop, destructor | every `Channel` owns one; callbacks run on its workers | counters updated apart from the queues, lost wake-ups, stealing, shutdown |
| **WriteQueueSG** `stream/write_queue_sg.h` | `write_queue_`, `writing_`, `graceful_shutdown_`, `max_queue_enabled_` | `AsyncSend`, `Close`, `EnableMaxQueue`, completion handler | owned by `TcpClient` and `Session`; writes to their stream | completions queued behind other lambdas of the strand, failed writes |
| **LogAdapter** `log/log_adapter.h` | `queue_`, limits, `callbacks_` (atomic pointer), `dropped_messages_`, `running_`, `stopped_` | `Log`, `RegisterCallback`, `ClearCallbacks`, setters, worker, destructor | stand-alone | double check around a back-off, signal outside the lock, compare-exchange loop |
| **TcpClient** `tcp/tcp_client.h` | socket, three timers, `shutdown_`, `pending_responses_`, `pending_requests_` | `Connect`, `Send`, `SendRequest`, `Close`, read loop | a `WriteQueueSG`, a framer, asio | response against time-out, timers that fired before they were cancelled, reconnection |
| **Session** `session.h` | socket, `write_deque_`, `write_in_progress_`, two timers, two shutdown flags | `Start`, `AsyncSend`, `Close`, read loop, `Shutdown` | a `WriteQueueSG`, the acceptor and controller callbacks | sends beside handlers, graceful drain, several reasons to end |
| **AcceptorLoop** `tcp/tcp_acceptor_loop.h` | acceptor, `stopped_`, `draining_` | `Start`, `Stop`, `EnableDraining`, accept handler | creates sessions, registers them with the controller | accept against its timer, start before registration, stop behind queued handlers |
| **TcpServer** `tcp/tcp_server.h` | `ports_`, `acceptors_`, `shutting_down_`, under `mu_` | `AddPort`, `RemovePort`, `Start`, `Stop`, `EnableDrainingMode` | acceptor loops through their strands, controller | changes at run time, stop against accepts |
| **Channel, ChannelManager** `channel.h` | a pool; a map of channels | `Enqueue`, shutdowns; `Dispatch` | pool, controller | explicit destructor calls, missing channels |
| **Controller** `controller.h`, **SessionManager** `session_manager.h` | channel managers; map of sessions | routing, registration, coordinated shutdown | sessions, channels | calling sessions with the map's lock held |
| **SimpleLineFramer** `frame/` | scratch buffer, `write_pos_` | `PrepareRead`, `OnData` | read loops, `RawBuffer` | lines split across reads, uninitialized memory, a throw in the middle |
| **PluginBundle** `plugin/`, **TLS providers** `tls/` | maps, contexts | look-ups, overlay, reload | client, session, server | reload timer |

What makes each correct: the pool runs every accepted task once and shuts
down; the write queue has one write in flight and keeps order; the logger
delivers in order within its limit; the client answers every request once; a
session writes in order, and a graceful close waits for what was sent and ends; a server keeps every loop
under control, accepts until it is stopped, and knows its sessions; a framer cuts
the stream at the line ends and owns its memory. `PROJECT.json` lists,
under `hazards`, the lines at which each of these could go wrong.

## 2. Modules

| Module | Models | Notes |
|---|---|---|
| `TaskMultiProcessor` | the pool | `MCTaskMultiProcessor` gives it configurations and symmetry |
| `FifoQueue` | what the pool promises in FIFO mode | abstract specification |
| `TaskMultiProcessor_proofs` | types, counter, bound and wake-ups of the pool | |
| `TaskAccounting_proofs` | where a task and its promise are; the counter and the wake-ups without the breaker; the refinement of `FifoQueue` | extends the module above |
| `WriteQueueSG`, `WriteQueueSG_proofs` | the write queue and theorems about it | |
| `LogAdapter`, `LogAdapter_proofs` | the logger and theorems about it | |
| `TcpClient`, `TcpClient_proofs` | the client and theorems about it | |
| `Session`, `Session_proofs` | a server session on its direct write path, and theorems about it | |
| `Server`, `Server_proofs` | `TcpServer`, its `AcceptorLoop`s, `SessionManager`, and what they and the sessions call in `Controller` and `ChannelManager` | a composition: one module, because they share the strands and the registry |
| `RawBuffer` | the owner of a block of memory, as operators on a heap | extended by `SimpleLineFramer` |
| `SimpleLineFramer`, `SimpleLineFramer_proofs` | the framer between the reads and the messages, and theorems about it and about the operations of `RawBuffer` | |

Variables have the names of the members they stand for, without the trailing
underscore, and actions those of the functions; a function that takes several
atomic steps is split at the points where another thread can see its effects
(`SubmitLoad`, `SubmitIndex`, `SubmitPush`, …). Definitions marked *Variant*
are not used by the specifications: each is a definition of the model with a
plausible mistake in it, and `PROJECT.json` (`mutants`) names the property that
notices it.

### TaskMultiProcessor

Submitters (`spc`), workers (`wpc`) and the owner inside the destructor (`dpc`)
interleave; a step is one atomic operation or one critical section of a queue
mutex. `mutex_` is held across steps only between a worker's test of the wait
condition and `cv_.Wait`, so "held" is `wpc[w] = "wait"`. Choices of the model:

- the two loads of the wait condition are one step (`running_` only ever falls,
  and the counter is read second);
- the high-water mark's compare-exchange loop is an atomic maximum;
- back-off sleeps are arbitrary delays, which interleaving already gives;
- the sizes a thief reads without locks may be any numbers, so any victim that
  `DefaultStealPolicy` could return is possible;
- `cfg_` is copied without a lock; `Configs` is closed under mixing fields, so
  a half-made copy is a value of it;
- `UpdateConfig` installs any `num_threads`. Where a thread then divides by zero or
  indexes outside a vector (`SubmitUndefined`, `StealUndefined`) its control point
  becomes `"undefined"` and it takes no further step; the others go on. A thief allocates its vector of
  sizes with one reading of `num_threads` and fills it with another, in two
  steps (`StealSizes`, then `Victims`). The history variable `resized` remembers whether
  `num_threads` was ever changed, and whether it went beyond the workers that exist. The constructor is given
  at least one thread: the default is `hardware_concurrency()`, which the C++ standard
  allows to be 0, and a pool without workers does nothing;
- `tasks_in_queue_` is a `size_t` and wraps modulo `SizeMod`;
- the destructor starts when no call is in progress;
- `RegisterCallback`, `SetFinalCallback` and `SetThreadAffinity` are not modelled.

### WriteQueueSG

Every lambda and every completion handler runs on `strand_`, one action each.
The stream is external: a write ends on its own, and its handler then waits for
its turn while sends and closes may run before it. A handler that sends again
has the effect of a send just before it. Two history variables remember whether a
close was forced (`forced`) and whether a completion handler saw an error
(`failed`): properties that such an event really ends are stated up to it.

### LogAdapter

A critical section of `queue_mu_` is one step. `callbacks_` starts null; each
value stored has a version, which is what compare-exchange compares (spurious
failures are left out: the library's weak form on `shared_ptr` has none). With
`ClearFirst` the application calls `ClearCallbacks` before it logs, without which
the first message ends the program (`FallbackWorks`). After a detach the model
stops, because the worker then uses a destroyed object.

### TcpClient

The socket, the resolver and the timers are asio's. Cancelling a timer does not
take back a handler already queued as expired (`expired`), closing a socket
completes its operations, and `cancel()` on a closed socket throws. `executor_` may be run by
several threads: `runners` counts those inside `io_context::run`, and a handler starts when
one is free (`Free`). An exception that leaves a handler (`cancel()` at line 174, `OnData`) takes its thread
with it, until the application calls `run` again (`RunAgain`, which nothing forces it to do). The
table's critical sections, the counter's updates, the two halves of `Close` and the parts of `StartRead`
are separate steps: the test of `shutdown_` (`StartRead`), `async_read_some` (`StartReadBegin`), and the arming of each
timer (`ArmTimer`), between which `Close`, time-outs and the read handler itself may run. `starts` counts
the calls of `StartRead` that have yet to arm a timer. A request written on an open connection reaches the peer
or does not (that is `WriteQueueSG`'s part); the peer may answer it any number of
times and push messages of its own. A correlation id is the request itself,
since `next_correlation_id_` is atomic and 64 bits wide.

### Session

`executor_` runs one handler at a time. `AsyncSend` and the write handler take
several steps and hold the executor meanwhile (`busy`); with `SendAnywhere` sends run
beside the handlers. Application code called by the read handler may send and
close, so that handler's beginning and end are separate steps. `hopeless` marks
writes started on a socket that is already closed, which can only fail. Exceptions of
`on_message_` are caught by the code; one of `OnData` or of `on_disconnect_` leaves the handler and
`io_context::run`, after which nothing has the executor (`busy = "gone"`) until the application calls `run`
again (`RunAgain`).

### Server

`TcpServer`'s calls come from any thread and hold `mu_`; what they want of a loop
they dispatch to its strand, so `strand[l]` is the queue of lambdas, accept handlers
and timer handlers that wait there, oldest first. `Start` is one step per port,
with `mu_` held between them; `Stop` is two, because it calls `ShutdownAllSessions`
after `mu_` is released and without waiting for the strands. `OnSessionAccepted`
starts the session before it registers it, and the session's own handlers run
beside the strand, so these are two steps (`CreateSession`, `RegisterSession`). A
timer that expired before its accept completed cancels the accept that follows
(`RunTimeout`). A session is known by its connection, whose number is used again
once it is over; `Session` describes what happens inside. `GetChannel` returns
before the code that would create a channel, so a message that reaches `Dispatch`
uses a null pointer and the model stops (`crashed`). External, modelled from
how they are used: the acceptor a loop opens on its port, which fails while
another listens on it (`Bindable`), the disconnect handler with
`UnregisterSession`, which is called without an id and so may remove the session or nothing
(`OnDisconnect`), and `SessionManager::Drain`, taken to be `Close`. A session that `Close` has ended,
gracefully or not, stays in the registry, as in the code.

### SimpleLineFramer and RawBuffer

`scratch` is the memory of `scratch_`, byte by byte, and what the allocator
returns holds arbitrary bytes. The socket fills it from the beginning, which is
the buffer `PrepareRead` hands out. `OnData` counts the bytes; when they leave the
buffer the model stops. Otherwise its loop runs line by line: each turn that
finds a line end (`FindsEnd`) makes a message of the bytes since `start`
(`EmitLine`), or, at an empty line, makes `RawBuffer` throw after the block was
allocated (`EmptyLine`), which destroys the messages this call had made (`Unwind`)
and ends the read loop. When no line end is left the rest is moved to the front and
the messages are returned (`OnDataReturns`); the application destroys them when it
likes (`Destroy`). No other thread sees `OnData` between two lines: the loop is cut into
steps so that what holds after each line can be stated and proved, not because
anything comes between them but the destruction of messages returned before.
`aligned` remembers whether every read came
with nothing left over, `forgotten` the bytes dropped with a replaced buffer. The
heap knows which object owns which block and how often each was freed; `MoveFrom`,
`MoveAssign`, `Reset` and `Make` are `RawBuffer`'s operations.

## 3. Runs

Passing runs:

| Run | Shows |
|---|---|
| `PoolSafety` | `IndicesInRange`: `SubmitImpl` leaves `queues_` or divides by zero only after a `num_threads` of zero or beyond the workers, a thief only after some change of `num_threads`; `CounterExact`: the counter never drifts, though it may wrap; `QueueBound`: racing submitters exceed the limit by less than their number; `NoLostWakeup`; `TaskAccounted`: every accepted task is in exactly one place |
| `PoolLiveness` | `AcceptedTasksRun`, `FuturesResolve`, `HeardShutdownCompletes`; `FutureSetOnce`: a future that is ready stays as it is, through drops, stealing and destruction |
| `PoolFifo` | FIFO mode implements `FifoQueue` (`ImplementsFifo`), with the tasks coming through `SubmitWithTimeout` |
| `WriteQueue` | until a close is forced `OneWriteAtATime` and `OrderedWrites`; in every case `AnswersTruthful`; `NothingStranded` unless a write fails; `HandlersInvoked` unless a write fails or a close is forced |
| `LogAdapter` | `QueueWithinMax`, `InOrderOnce`, `DropsConserved`, `ShutdownDrains`; under fairness `AcceptedDelivered`, `ShutdownCompletes` |
| `Client` | `AnsweredOnce`, `PendingExact`, `ReadWatched`: every read of an open client is timed, whatever runs between the parts of `StartRead`; under fairness `ClosedLetGo`: timers armed after a `Close` do not keep the client for ever, `RequestsAnswered` while a thread runs handlers, `SilentPeerDropped` |
| `Session` | for sends on the executor `WrittenInOrder`, `NothingStuck`, `GracefulDrains`: the socket is closed by `Close(true)` or with everything written; under fairness `GracefulEnds`: unless an exception has ended `io_context::run` for good, a graceful close leads to `shutdown_in_progress_`, `SilentPeerNoticed` |
| `Server` | `LoopsControlled`: no loop escapes the server or misses its drain mode; `KeepsAccepting`: no error, refusal or late time-out ends a loop; `OneLateSession`: a loop told to stop registers at most one more session; `RunningRegistered`: running sessions are registered or about to be; `StoppedQuiet`: a stopped loop comes to rest |
| `Framer` | `BytesCounted`: the framer never loses count of the bytes, those apart that are dropped with a replaced buffer; `LinesExact`: while reads begin with nothing left over it cuts the stream exactly at the line ends; `BuffersSound`: every block is owned or freed once, and leaks only with an empty line |

Runs that end in a counterexample, because a document, comment or test says
what the code does not do (`findings` quotes the lines):

| Run | Counterexample |
|---|---|
| `ShutdownHang` | the destructor's signal is missed by a worker about to wait |
| `SpuriousDrop` | the counter wraps below zero and a task is dropped on an almost empty pool |
| `ServerStop` | `Stop` drains the sessions while an accept is complete: its session is registered afterwards and goes on running |

Further statements of the repository that the code does not meet are defined
in the modules, without a run of their own. Each is refuted within seconds
when it is given to TLC with the constants of the component's run, changed as named here:

| Definition | Counterexample |
|---|---|
| `DrainedBeforeExit` (pool, one worker) | a worker leaves with a task queued although draining is enabled |
| `TrueMeansAccepted` (pool, `Kinds = {"timed"}`) | `SubmitWithTimeout` returns true for a dropped task |
| `DropsVisible` (pool) | a worker takes the drop count before the caller reads it |
| `ResizeSafe` (pool, the constants of `PoolSafety`) | a thief makes its vector for one worker, `UpdateConfig` installs two, and the loop that fills it writes past its end, although every `num_threads` was a number of existing workers; `channel.h:91` calls the update dynamic and the class is said to be thread-safe |
| `OneWriteAlways` (write queue) | a send after `Close(true)` starts a write, and the late completion of an earlier one starts another beside it |
| `HandlersAlways` (write queue) | a failed write or a forced close discards the waiting entries with their handlers, and after a failed write `writing_` stays set, so that later ones wait for ever |
| `FallbackWorks` (logger, `ClearFirst = FALSE`) | the first message dereferences the null `callbacks_` |
| `CallbacksIntact` (logger) | a registration overtaken by `ClearCallbacks` or another registration retries with a moved-from function |
| `ForceCloseQuiet` (client) | the read that `Close(true)` aborts calls it again, and `cancel()` throws on the closed socket |
| `ConnectEnds` (client, fair) | no timer ends an attempt to connect |
| `ConnectedReads` (client) | `shutdown_` is never reset: a client that was closed and connects again never reads |
| `NoTimerAfterClose` (client) | `Close` runs between the test of `shutdown_` in `StartRead` and the arming of its timers |
| `OneWrite` (session, `SendAnywhere = TRUE`) | two threads in `AsyncSend` both find no write in progress and start one each, although `session.h:16` says "thread-safe, dual write paths" |
| `ReadKept` (session) | `OnData` throws outside the `try`: the timers are cancelled, no read follows, and the session is not shut down |
| `ShutdownCloses` (session, fair) | `Shutdown` sets the flag that makes its own `Close(true)` return: a timed-out session keeps its socket and its read |
| `AutomaticRemoval` (server) | a session that ends before it is registered, or after a graceful drain, is never removed |
| `MessagesDispatched` (server) | the first message routed to a channel dereferences a null pointer |
| `AddedPortStarts` (server, two ports, `MaxPorts = 2`, `MaxLoops = 3`) | `Start` at run time throws at a port that already listens and does not reach the one that was added |
| `EveryLineEmitted` (framer) | the bytes of a line kept from one read are overwritten by the next |
| `InBounds` (framer) | the new bytes are counted after the kept ones and leave the buffer |

**Bounds.** Two workers, two submitters and three tasks are what the races of the
pool need: one task counted late, one stolen, one dropped. `num_threads` takes every value from zero to one more than
the workers in `PoolSafety`, which is in work-stealing mode (a round-robin worker is a thief that finds nothing);
`PoolLiveness` switches between the two modes. The runs about
futures and liveness have two tasks, because the overloads with tokens and the
temporal check multiply the states. The write queue gets four messages for a
limit of two (one in flight, two waiting, one refused or sent after a failure).
Loggers and senders come in twos, so that each can overtake the
other, and in the logger and the session a third message follows.
The client gets one request, with a handler or an empty one, two threads on its executor and three calls
(`MaxCalls`) of `Connect`, `Close` and `SendRequest` in any mixture, so that a request meets a close, and a
reconnection follows a disconnect; two requests meet only in the counter, which the proof of `PendingExact`
covers. `MaxExpired = 1` allows each timer one late handler, and with `MaxBatch = 1` a response, its duplicate and a pushed
message come in separate reads, between which everything else may happen.
The server gets one port that is added, started, removed and started again, so that
two loops follow each other on it, one connection at a time whose number is
used again, one change of the drain mode and one `Stop`; accept errors and
time-outs are not bounded. The framer gets a stream of seven bytes in reads of one
to three: `Capacity = 3` and `Reserve = 2` stand for 4096 and 1024, so that a line spans
reads, a read has several lines, the buffer is replaced with bytes in it, and reads
follow a replacement.
Symmetry is used only in safety runs of the pool, over submitters and tasks.

**Deadlock** is checked for the pool and the logger, where the only stop is the end of
the destructor (`Terminated`), and for the write queue. A client, a session, a
server or a framer may really come to rest when the application or the network
asks for nothing more, so their configurations switch the check off.

**Fairness.** Threads inside the code keep being scheduled (weak fairness of each
thread's step). A thread that asks for `mutex_` while others take turns gets it
eventually (strong fairness of `SubmitSignal` and `WaitTest`): `absl::Mutex` queues
its waiters. Timers expire. Handlers run while a thread is inside `io_context::run`; no property assumes that the application
calls `run` again after an exception. The executor serves the time-out of a request, and in `Session` an expired timer,
although other handlers come between (strong fairness of `TimingOut` and `Timeout`): `io_context` runs handlers in
the order in which they became ready. An operation on a closed socket completes. A write completes, which
is an assumption about the peer (the code has no write time-out). Nothing is
assumed of the application, of spurious wake-ups, of the name service, or of
what the peer sends.

## 4. Proofs

Every theorem is about a specification that TLC checks, and holds for every value of the constants that satisfies
the named `ASSUME` of the component's module: any number of workers, submitters,
tasks, messages, requests, ports, loops and connections, any limits, buffers and streams. Those about
behaviours follow the same plan: an inductive invariant, a lemma that each
action preserves it, and a last step that draws the property from it. Where a theorem needs more than the module's assumptions, its statement says so.

**The pool** (`TaskMultiProcessor_proofs`).

- `TypeCorrect`: `TypeOK` always holds, whatever `num_threads` is installed. It is inductive as stated because it also
  says that a thread inside a call, or holding a task, has one.
- `UndefinedOnlyAfterResize` (`IndicesInRange`): `ResizeInv` says what `resized` tells of `num_threads`, and
  that a thief's vector has one entry per worker as long as `num_threads` was never changed.
- `CounterNeverDrifts` and `QueuesStayBounded` (both properties speak of pools whose
  breaker is on): neither `CounterExact` nor `QueueBound` is
  inductive. The inductive invariant `CounterInv` says that the slots are finite,
  that the counter is the backlog modulo `SizeMod`, and that slots, popped tasks
  and admitted submitters together stay below `QueueCap + |Submitters|`. The last
  part is needed because the breaker's test is only as good as the counter: a
  submitter that passes it read a counter no smaller than what is in the queues
  less what submitters have pushed and not counted.
- `WakeupsNeverLost` (assuming `BreakerOn`): a counter that is not zero while a worker waits comes with
  a submitter that has still to signal; the proof rests on `CounterInv`, which
  excludes that a decrement wraps the counter into a value nobody signals.
  `UncappedPoolWakes` below does without the breaker.

**Tasks and promises** (`TaskAccounting_proofs`).

- `NoTaskLostOrRepeated` (`TaskAccounted`). The property counts places, and a count is
  not what a step preserves. `PlaceInv` says the same without counting: a task is at most once
  in a deque, once in a worker's hands and once in the log (`Once`), not in two of
  these (`Apart`), and in one of them exactly when its fate is "queued". It also needs
  `CallInv`: no two calls in progress submit the same task, and neither was queued before.
  `PlaceCount` then turns the places into cardinalities.
- `UncappedPoolWakes` (assuming `FewTasks`, that fewer than 2^64 tasks are submitted):
  `NoLostWakeup`, and that the counter is the backlog modulo `SizeMod`, also for pools whose breaker is off or
  has no cap. Nothing bounds the queues then but the tasks themselves: `SlotsWithinTasks` maps
  slots and popped tasks one to one into `Tasks`, which `PlaceInv` allows, so that the counter never comes round to zero
  from above. With 2^64 tasks queued it would, and a worker would sleep on them.
- `PromisesSetOnce` (`FutureSetOnce`, an action property). `WrapInv` says that one worker
  at most fulfils the promise of a task, after the callbacks have seen it; `FutureInv` that the future of a
  task which a thread of the pool may still fulfil is pending. Without them a drop or the
  destructor could follow a value.
- `FifoImplemented` (assuming that every configuration is in FIFO mode): `Spec` implies
  `FifoQueue`'s specification under the refinement mapping of the module. `FifoInv` says that only the first
  deque is used and only its own worker takes from it; with it every action of the pool
  is a step of the abstract queue or leaves it alone.

**The write queue** (`WriteQueueSG_proofs`).

- `MessagesNeverStranded` (`NothingStranded`) holds after forced closes too: `QueueInv` says that entries wait only
  while `writing_` is set, and that it is set with a write outstanding or after a failed one.
- `TypeCorrect`, and `WritesNeverOverlap` (`OneWriteAtATime`) and
  `WritesStayInOrder` (`OrderedWrites`). The inductive
  invariant `WriterInv` ties `writing` to the one operation outstanding and splits `sent` into
  what is on the wire, what is in flight and what waits; it holds until `Close(true)` is
  called, and the lemma `ForcedStays` says that this is not forgotten.
- `AnswersStayTruthful` (`AnswersTruthful`) holds after a forced close too, where `WriterInv` does
  not: `WaitingInv` says that an entry that waits is there once, with no operation and no
  answer yet, and `AnswerInv` that the state of each operation, which a late completion
  carries to the caller, agrees with the wire.

**The logger** (`LogAdapter_proofs`).

- `TypeCorrect`: `TypeOK` with `ListSeen`, that a registrar about to swap has seen a list.
- `LimitHolds` (`QueueWithinMax`), inductive with the types: the second comparison under
  `queue_mu_` is what makes it so.
- `DeliveredInOrder` (`InOrderOnce`): `OrderInv` adds that the worker takes the queue only with an empty batch.
- `ShutdownDeliversAll` (`ShutdownDrains`): `ExitInv` ties `running`, `stopped` and the places of the
  worker and the destructor together: the worker leaves its loop with an empty
  queue at a time when no logger is inside a call.
- `DropsNeverLost` (`DropsConserved`): `DropInv` adds that a message being logged was not dropped
  before and belongs to one logger.

**The client** (`TcpClient_proofs`).

- `TypeCorrect`: `TypeOK`, and a read handler about to call a response handler has one.
- `ReadsAreTimed` (`ReadWatched`): between `async_read_some` and the arming of the timers the read handler, and the
  `StartRead` it calls, may run on another thread; `ReadWatched` is inductive with `LinkInv`, that only a connected
  client reads until `shutdown_` is set and that nobody is inside `Close` before.
- `HandlersCalledOnce` (`AnsweredOnce`): `RequestInv` says that the handler of a request is in one
  place (the table, the read handler, the time-out handler) or called, and that what the
  peer answers was sent.
- `PendingCounted` (`PendingExact`): the set of counted requests grows or shrinks by one
  with the counter, which `RequestInv` shows action by action.

**The session** (`Session_proofs`). `TypeCorrect` holds for any sends. The others assume
`~SendAnywhere`, that `AsyncSend` is called on the session's executor: without it two writes can be in flight (`OneWrite` in section
3) and they are false. `WritesInOrder` (`WrittenInOrder`), `NoMessageStuck`
(`NothingStuck`) and `GracefulClosesDrained` (`GracefulDrains`, an action property) rest on
`BusyInv` (one call on the executor, and the one about to call `WriteNext` has seen no write in
progress) and `WriteInv` (`write_in_progress_` is set while, and until the shutdown only while, a
message is in flight, and nobody leaves the executor with messages waiting and none in flight).

**The server** (`Server_proofs`).

- `TypeCorrect`; `TypeInv` includes that the loops created and those `Start` has still to create
  fit in `MaxLoops`.
- `LoopsKeepAccepting` (`KeepsAccepting`) and `StoppedLoopsRest` (`StoppedQuiet`) rest on `TurnInv`: what makes a
  loop go on is in at most one place (its start, the pending accept, that accept's handler, the
  session being registered), and in one until the loop is stopped. `KeepsAccepting` alone is not inductive: two such places
  would let one be lost and the other hide it.
- `AtMostOneLateSession` (`OneLateSession`): `LateInv` says that once a loop has registered a late
  session it registers no other, because it is stopped or its stop comes on the strand before any
  completed accept. That the late one's next accept completes behind the stop follows from `TurnInv`.
- `RunningSessionsRegistered` (`RunningRegistered`): `ConnInv` says that a connection is with one
  loop at most, as an accepted or as a starting session, and that one about to be registered is not in the registry yet.
- `NoLoopEscapes` (`LoopsControlled`), inductive with `LoopInv` (a loop not yet created has no state, and the
  loop of a port is on that port). `DrainsAppend` and `DrainsTail` say how the drain mode a
  strand leads to changes when a lambda is queued and when one has run.

**The framer** (`SimpleLineFramer_proofs`).

- `TypeCorrect`: `TypeInv` has the bounds that the memory operations need: `start` within `write_pos_`, and that within the
  buffer until a read leaves it.
- `NoByteMiscounted` (`BytesCounted`): `CountInv` adds that there are no more messages than bytes, so
  that the stream bounds the messages and each has a `RawBuffer`.
- `StreamCutAtLineEnds` (`LinesExact`), inductive with `TypeInv` because it speaks of every turn of the
  loop and not only of the end of `OnData`. `CutAt` splits the bytes not looked at into the line,
  its end and the rest; `KeptFacts` and `FilledFacts` say what the memory holds after the move and after a read.
- `BuffersStaySound` (`BuffersSound`): `HeapInv` adds that the local buffer owns nothing between two steps
  and that the buffers of messages not made yet own nothing, so that a move into one loses no block.
  `HeapSound` counts the owners of a block; the invariant has `Settled`, which says the same
  without counting (`SoundIsSettled`).
- `OwnershipKept`: on any heap in which `HeapSound` holds, `Reset`, `MoveAssign` and `Make` lead to one in
  which it holds.

The lines are joined by a recursive function, and `JoinedAppend` says what one more line adds to
it. The library's induction theorems take an operator, which the provers cannot
instantiate; `LeastNat` instead gives the least number in a set of numbers, and `JoinExists` and `JoinAgrees` apply
it to the numbers at which the claim fails.

Only model-checked:

- the properties that need fairness, which are out of the prover's reach: `AcceptedTasksRun`,
  `FuturesResolve`, `HeardShutdownCompletes`, `HandlersInvoked`, `AcceptedDelivered`,
  `ShutdownCompletes`, `RequestsAnswered`, `ClosedLetGo`, `SilentPeerDropped`, `GracefulEnds`,
  `SilentPeerNoticed`.

## 5. Plan

1. `Session` with its path through `WriteQueueSG` as a composition of the two modules.
   On that path a graceful close never closes the socket (`session.h:113`).
2. The TLS reload timer, and `PluginBundle`'s overlays.

## 6. Not modelled, and why

- `Channel`, the shutdown of channels (`channel.h:85` and what calls it), `HandleProcessing`
  and `HandleOutbound` of the controller: `GetChannel` never creates a channel, so no
  reachable state runs them.
- `SetDrainCallback` of the acceptor loop, which nothing calls, and the metric hooks.
- `RegisterCallback`, `SetFinalCallback` and `SetThreadAffinity` of the pool and the logger's
  setters of delays and intervals: they change what is called, or a delay that is
  arbitrary in the model.
- `PluginBundle` is a map that one thread changes; its effect, a plugin that stops a
  message, is in `Session` and `TcpClient`. The TLS client providers build an OpenSSL
  context and keep no state.
- Exceptions of the application's callbacks in `TcpClient`, which the code does not catch: only those of
  `cancel()` and of the framer are modelled there.
- The text of messages and of what is written to stderr, and what a program does
  after undefined behaviour (a detached log worker, a null channel, a framer beyond
  its buffer, a pool index outside `queues_`), where the models stop, or stop the thread, or keep the application from going.
- The programs under `examples/` and `tests/`.
