----------------------------- MODULE LogAdapter -----------------------------
(***************************************************************************)
(* vectro::log::LogAdapter: log calls of many threads feed one queue, one  *)
(* worker takes the whole queue at a time and hands it to the registered   *)
(* callbacks; the destructor stops the worker.                             *)
(*                                                                         *)
(* Threads: the loggers inside Enqueue (lpc), the registrars inside        *)
(* RegisterCallback (rpc), the worker inside ProcessLoop (wpc) and the     *)
(* owner inside the destructor (dpc).  A critical section of queue_mu_ is  *)
(* one step; the worker's tests and its Wait are in one critical section.  *)
(*                                                                         *)
(* callbacks_ is an atomic shared_ptr that the constructor leaves null.    *)
(* Each value stored has a version of its own, which is what               *)
(* compare_exchange compares.  Left out: the back-off sleep, the text      *)
(* written to stderr, and the try blocks around code that does not throw.  *)
(***************************************************************************)
EXTENDS Naturals, Sequences, FiniteSets

CONSTANTS
    Loggers,      \* the threads that call Log
    Messages,     \* the messages; each is logged at most once
    Registrars,   \* the threads that call RegisterCallback, once each
    MaxSizes,     \* the values given to SetMaxQueueSize
    MaxClears,    \* how often ClearCallbacks is called
    ClearFirst,   \* the application calls ClearCallbacks before it logs
    Null,         \* a null callbacks_
    Empty,        \* a moved-from, empty std::function
    None          \* no message

ASSUME SizesAssumption ==
    /\ MaxSizes \subseteq Nat
    /\ IsFiniteSet(MaxSizes)
    /\ MaxSizes # {}
    /\ MaxClears \in Nat
    /\ ClearFirst \in BOOLEAN

ASSUME NamesAssumption ==
    /\ None \notin Messages
    /\ Empty \notin Registrars

VARIABLES
    queue,             \* queue_
    max_queue_size,    \* max_queue_size_
    dropped_messages,  \* dropped_messages_
    high_water_mark,   \* high_water_mark_
    running,           \* running_
    stopped,           \* stopped_
    callbacks,         \* *callbacks_: Null, or the registered callbacks
    version,           \* which object callbacks_ points to
    lpc, msg,          \* where each logger is, and its message
    rpc, old,          \* where each registrar is, and the version it read
    moved,             \* whether a registrar's cb was moved from
    wpc, batch,        \* where the worker is, and what it has to dispatch
    dpc,               \* where the owner is
    crashed,           \* a null pointer was dereferenced
    accepted,          \* messages pushed, in that order
    delivered,         \* messages dispatched, in that order
    dropped,           \* messages dropped
    reported,          \* drops returned by GetDroppedCount or notified
    unreported         \* drops that HandleDrops took too soon to notify

config  == <<max_queue_size>>
counts  == <<dropped_messages, high_water_mark, reported, unreported>>
flags   == <<running, stopped, crashed>>
list    == <<callbacks, version>>
logger  == <<lpc, msg>>
regs    == <<rpc, old, moved>>
worker  == <<wpc, batch>>
history == <<accepted, delivered, dropped>>

vars == <<queue, config, counts, flags, list, logger, regs, worker, dpc, history>>

Init ==
    /\ queue = <<>>
    /\ max_queue_size \in MaxSizes
    /\ dropped_messages = 0
    /\ high_water_mark = 0
    /\ running = TRUE
    /\ stopped = FALSE
    /\ callbacks = Null
    /\ version = 0
    /\ lpc = [l \in Loggers |-> "idle"]
    /\ msg = [l \in Loggers |-> None]
    /\ rpc = [r \in Registrars |-> "idle"]
    /\ old = [r \in Registrars |-> 0]
    /\ moved = [r \in Registrars |-> FALSE]
    /\ wpc = "test"
    /\ batch = <<>>
    /\ dpc = "alive"
    /\ crashed = FALSE
    /\ accepted = <<>>
    /\ delivered = <<>>
    /\ dropped = {}
    /\ reported = 0
    /\ unreported = 0

Alive == dpc = "alive" /\ ~crashed

-----------------------------------------------------------------------------
(* The application's configuration calls.                                  *)

SetMaxQueueSize(max) ==
    /\ Alive
    /\ max_queue_size' = max
    /\ UNCHANGED <<queue, counts, flags, list, logger, regs, worker, dpc, history>>

(* Variant: load instead of exchange(0).                                   *)
GetDroppedCountByLoad ==
    /\ Alive
    /\ dropped_messages > 0
    /\ reported' = reported + dropped_messages
    /\ UNCHANGED <<queue, config, dropped_messages, high_water_mark, unreported,
                   flags, list, logger, regs, worker, dpc, history>>

GetDroppedCount ==
    /\ Alive
    /\ dropped_messages > 0
    /\ reported' = reported + dropped_messages
    /\ dropped_messages' = 0
    /\ UNCHANGED <<queue, config, high_water_mark, unreported, flags, list,
                   logger, regs, worker, dpc, history>>

ClearsSoFar == version - Cardinality({r \in Registrars : rpc[r] = "done"})

ClearCallbacks ==
    /\ Alive
    /\ ClearsSoFar < MaxClears
    /\ callbacks' = <<>>
    /\ version' = version + 1
    /\ UNCHANGED <<queue, config, counts, flags, logger, regs, worker, dpc, history>>

(* RegisterCallback loads callbacks_ and copies what it points to.         *)
RegisterLoad(r) ==
    /\ Alive
    /\ rpc[r] = "idle"
    /\ ClearFirst => callbacks # Null
    /\ IF callbacks = Null
       THEN /\ crashed' = TRUE
            /\ UNCHANGED regs
       ELSE /\ old' = [old EXCEPT ![r] = version]
            /\ rpc' = [rpc EXCEPT ![r] = "swap"]
            /\ UNCHANGED <<moved, crashed>>
    /\ UNCHANGED <<queue, config, counts, running, stopped, list, logger, worker,
                   dpc, history>>

(* compare_exchange_weak finds the object it read: the copy with cb at its *)
(* end, from which the first attempt moved it, replaces it.                *)
RegisterSwap(r) ==
    /\ Alive
    /\ rpc[r] = "swap"
    /\ old[r] = version
    /\ callbacks' = Append(callbacks, IF moved[r] THEN Empty ELSE r)
    /\ version' = version + 1
    /\ rpc' = [rpc EXCEPT ![r] = "done"]
    /\ UNCHANGED <<queue, config, counts, flags, logger, old, moved, worker, dpc,
                   history>>

(* Somebody else was faster: copy again, and push cb again.                *)
RegisterRetry(r) ==
    /\ Alive
    /\ rpc[r] = "swap"
    /\ old[r] # version
    /\ old' = [old EXCEPT ![r] = version]
    /\ moved' = [moved EXCEPT ![r] = TRUE]
    /\ UNCHANGED <<queue, config, counts, flags, list, logger, rpc, worker, dpc,
                   history>>

-----------------------------------------------------------------------------
(* Log and Enqueue.                                                        *)

Log(l, m) ==
    /\ Alive
    /\ ClearFirst => callbacks # Null
    /\ lpc[l] = "idle"
    /\ m \notin dropped /\ \A k \in Loggers : msg[k] # m
    /\ \A i \in DOMAIN accepted : accepted[i] # m
    /\ lpc' = [lpc EXCEPT ![l] = "size"]
    /\ msg' = [msg EXCEPT ![l] = m]
    /\ UNCHANGED <<queue, config, counts, flags, list, regs, worker, dpc, history>>

Return(l) ==
    /\ lpc' = [lpc EXCEPT ![l] = "idle"]
    /\ msg' = [msg EXCEPT ![l] = None]

Drop(l) ==
    /\ dropped_messages' = dropped_messages + 1
    /\ dropped' = dropped \cup {msg[l]}
    /\ Return(l)
    /\ UNCHANGED <<queue, high_water_mark, accepted>>

(* The circuit breaker's first look at the size.                           *)
EnqueueSize(l) ==
    /\ ~crashed
    /\ lpc[l] = "size"
    /\ \/ /\ Len(queue) >= max_queue_size
          /\ Drop(l)
       \/ /\ Len(queue) < max_queue_size
          /\ lpc' = [lpc EXCEPT ![l] = "push"]
          /\ UNCHANGED <<queue, dropped_messages, high_water_mark, msg, accepted,
                         dropped>>
    /\ UNCHANGED <<config, reported, unreported, flags, list, regs, worker, dpc,
                   delivered>>

(* Variant: the size is not compared again under the lock.                 *)
AlwaysFits == TRUE

(* Double-check after backoff.                                             *)
Fits == Len(queue) < max_queue_size

(* With queue_mu_ held: compare again, push, raise the high-water mark.    *)
EnqueuePush(l) ==
    /\ ~crashed
    /\ lpc[l] = "push"
    /\ \/ /\ ~Fits
          /\ Drop(l)
       \/ /\ Fits
          /\ queue' = Append(queue, msg[l])
          /\ accepted' = Append(accepted, msg[l])
          /\ high_water_mark' = IF Len(queue) + 1 > high_water_mark
                                THEN Len(queue) + 1 ELSE high_water_mark
          /\ lpc' = [lpc EXCEPT ![l] = "signal"]
          /\ UNCHANGED <<msg, dropped_messages, dropped>>
    /\ UNCHANGED <<config, reported, unreported, flags, list, regs, worker, dpc,
                   delivered>>

(* Variant: nobody is woken.                                               *)
WokenNever == wpc

(* Signal wakes the worker, the only thread that waits.                    *)
Woken == IF wpc = "asleep" THEN "test" ELSE wpc

(* queue_cv_.Signal, after queue_mu_ was released.                         *)
EnqueueSignal(l) ==
    /\ ~crashed
    /\ lpc[l] = "signal"
    /\ wpc' = Woken
    /\ Return(l)
    /\ UNCHANGED <<queue, config, counts, flags, list, regs, batch, dpc, history>>

-----------------------------------------------------------------------------
(* ProcessLoop.                                                            *)

(* The object a detached worker goes on with is destroyed: what it does    *)
(* then is not defined, and the model stops there.                         *)
Working == ~crashed /\ dpc # "detached"

(* Variants: the queue is copied and not swapped; only its front is kept.  *)
CopyQueue == batch' = queue /\ UNCHANGED queue
TakeFront ==
    /\ batch' = IF queue = <<>> THEN <<>> ELSE <<Head(queue)>>
    /\ queue' = <<>>

(* batch.swap(queue_)                                                      *)
TakeQueue == batch' = queue /\ queue' = <<>>

LeaveLoop == ~running /\ queue = <<>>

(* One critical section: leave the loop, or wait, or take the whole queue. *)
WorkerTest ==
    /\ Working
    /\ wpc = "test"
    /\ \/ /\ LeaveLoop
          /\ wpc' = "final"
          /\ UNCHANGED <<queue, batch>>
       \/ /\ ~LeaveLoop
          /\ queue = <<>>
          /\ wpc' = "asleep"
          /\ UNCHANGED <<queue, batch>>
       \/ /\ ~LeaveLoop
          /\ queue # <<>>
          /\ TakeQueue
          /\ wpc' = "dispatch"
    /\ UNCHANGED <<config, counts, flags, list, logger, regs, dpc, history>>

SpuriousWakeup ==
    /\ Working
    /\ wpc = "asleep"
    /\ wpc' = "test"
    /\ UNCHANGED <<queue, config, counts, flags, list, logger, regs, batch, dpc,
                   history>>

(* Drain remaining: the second swap, after the loop.                       *)
WorkerFinal ==
    /\ Working
    /\ wpc = "final"
    /\ TakeQueue
    /\ wpc' = "last"
    /\ UNCHANGED <<config, counts, flags, list, logger, regs, dpc, history>>

(* Dispatch of one message, to the callbacks or to stderr.                 *)
Dispatch ==
    /\ Working
    /\ wpc \in {"dispatch", "last"}
    /\ batch # <<>>
    /\ IF callbacks = Null
       THEN /\ crashed' = TRUE
            /\ UNCHANGED <<delivered, batch>>
       ELSE /\ delivered' = Append(delivered, Head(batch))
            /\ batch' = Tail(batch)
            /\ UNCHANGED crashed
    /\ UNCHANGED <<queue, config, counts, running, stopped, list, logger, regs,
                   wpc, dpc, accepted, dropped>>

(* HandleDrops: exchange(0), and the count is written to stderr unless the *)
(* last notification is too recent.  After the second one the worker ends. *)
HandleDrops ==
    /\ Working
    /\ wpc \in {"dispatch", "last"}
    /\ batch = <<>>
    /\ \/ /\ reported' = reported + dropped_messages
          /\ UNCHANGED unreported
       \/ /\ dropped_messages > 0
          /\ unreported' = unreported + dropped_messages
          /\ UNCHANGED reported
    /\ dropped_messages' = 0
    /\ wpc' = IF wpc = "last" THEN "exited" ELSE "test"
    /\ stopped' = (wpc = "last")
    /\ UNCHANGED <<queue, config, high_water_mark, running, crashed, list, logger,
                   regs, batch, dpc, history>>

-----------------------------------------------------------------------------
(* ~LogAdapter, called when no other call is in progress.                  *)

(* Variant: the worker is not told.                                        *)
DtorStopSilent ==
    /\ Alive
    /\ \A l \in Loggers : lpc[l] = "idle"
    /\ \A r \in Registrars : rpc[r] # "swap"
    /\ running' = FALSE
    /\ dpc' = "waiting"
    /\ UNCHANGED <<queue, config, counts, stopped, crashed, list, logger, regs,
                   worker, history>>

(* With queue_mu_ held: clear running_ and signal.                         *)
DtorStop ==
    /\ Alive
    /\ \A l \in Loggers : lpc[l] = "idle"
    /\ \A r \in Registrars : rpc[r] # "swap"
    /\ running' = FALSE
    /\ wpc' = Woken
    /\ dpc' = "waiting"
    /\ UNCHANGED <<queue, config, counts, stopped, crashed, list, logger, regs,
                   batch, history>>

DtorJoin ==
    /\ dpc = "waiting"
    /\ ~crashed
    /\ stopped
    /\ dpc' = "dead"
    /\ UNCHANGED <<queue, config, counts, flags, list, logger, regs, worker,
                   history>>

(* shutdown_timeout_ms_ has passed: the worker is left behind.             *)
DtorDetach ==
    /\ dpc = "waiting"
    /\ ~crashed
    /\ ~stopped
    /\ dpc' = "detached"
    /\ UNCHANGED <<queue, config, counts, flags, list, logger, regs, worker,
                   history>>

(* Nothing is left to run.                                                 *)
Terminated ==
    /\ crashed \/ dpc \in {"dead", "detached"}
    /\ UNCHANGED vars

-----------------------------------------------------------------------------
LoggerStep(l) == EnqueueSize(l) \/ EnqueuePush(l) \/ EnqueueSignal(l)

RegistrarStep(r) == RegisterLoad(r) \/ RegisterSwap(r) \/ RegisterRetry(r)

WorkerStep == WorkerTest \/ WorkerFinal \/ Dispatch \/ HandleDrops

Next ==
    \/ \E max \in MaxSizes : SetMaxQueueSize(max)
    \/ GetDroppedCount
    \/ ClearCallbacks
    \/ \E l \in Loggers : LoggerStep(l) \/ \E m \in Messages : Log(l, m)
    \/ \E r \in Registrars : RegistrarStep(r)
    \/ WorkerStep
    \/ SpuriousWakeup
    \/ DtorStop
    \/ DtorJoin
    \/ DtorDetach
    \/ Terminated

Spec == Init /\ [][Next]_vars

(* The threads inside the adapter keep being scheduled.  Nobody has to     *)
(* log, to register, to destroy the adapter or to lose patience with it,   *)
(* and no spurious wake-up has to come.                                    *)
Fairness ==
    /\ \A l \in Loggers : WF_vars(LoggerStep(l))
    /\ WF_vars(WorkerStep)
    /\ WF_vars(DtorJoin)

FairSpec == Spec /\ Fairness

-----------------------------------------------------------------------------
(* Properties.                                                             *)

TypeOK ==
    /\ queue \in Seq(Messages)
    /\ max_queue_size \in MaxSizes
    /\ dropped_messages \in Nat /\ high_water_mark \in Nat /\ reported \in Nat
    /\ unreported \in Nat
    /\ running \in BOOLEAN /\ stopped \in BOOLEAN /\ crashed \in BOOLEAN
    /\ callbacks \in Seq(Registrars \cup {Empty}) \cup {Null}
    /\ version \in Nat
    /\ lpc \in [Loggers -> {"idle", "size", "push", "signal"}]
    /\ msg \in [Loggers -> Messages \cup {None}]
    /\ \A l \in Loggers : lpc[l] # "idle" => msg[l] \in Messages
    /\ rpc \in [Registrars -> {"idle", "swap", "done"}]
    /\ old \in [Registrars -> Nat]
    /\ moved \in [Registrars -> BOOLEAN]
    /\ wpc \in {"test", "asleep", "dispatch", "final", "last", "exited"}
    /\ batch \in Seq(Messages)
    /\ dpc \in {"alive", "waiting", "dead", "detached"}
    /\ accepted \in Seq(Messages) /\ delivered \in Seq(Messages)
    /\ dropped \subseteq Messages

(* The queue never holds more than the largest limit that was ever set:    *)
(* unlike a check before the back-off alone, the second comparison under   *)
(* queue_mu_ makes the limit strict, however many loggers race.            *)
QueueWithinMax ==
    /\ \E max \in MaxSizes : high_water_mark <= max
    /\ Len(queue) <= high_water_mark

(* Every message that was accepted is dispatched once, in the order of     *)
(* acceptance, although the worker takes whole batches while loggers fill  *)
(* a new queue.                                                            *)
InOrderOnce == delivered \o batch \o queue = accepted

(* Every dropped message is counted exactly once: it is still in the       *)
(* counter, or GetDroppedCount or a notification gave it, or HandleDrops   *)
(* suppressed it; however the two exchanges and the increments interleave. *)
DropsConserved ==
    dropped_messages + reported + unreported = Cardinality(dropped)

(* A destructor that joined its worker has delivered everything.           *)
ShutdownDrains == dpc = "dead" => delivered = accepted

(* Every accepted message is dispatched, unless the adapter is detached.   *)
AcceptedDelivered ==
    \A m \in Messages :
        (\E i \in DOMAIN accepted : accepted[i] = m)
            ~> ((\E i \in DOMAIN delivered : delivered[i] = m)
                \/ dpc = "detached" \/ crashed)

(* The worker hears of the shutdown and ends by itself: the time-out of    *)
(* the destructor is not what lets it return.                              *)
ShutdownCompletes ==
    dpc = "waiting" ~> (dpc \in {"dead", "detached"} \/ crashed)

-----------------------------------------------------------------------------
(* What the comments say and the code does not do.                         *)

(* "Dispatch to callbacks or fallback": with no callback registered a      *)
(* message goes to stderr, it does not end the program.                    *)
FallbackWorks == ~crashed

(* "thread-safe": a callback that was registered is the one that is        *)
(* called, whoever registers at the same time.                             *)
CallbacksIntact ==
    callbacks # Null => \A i \in DOMAIN callbacks : callbacks[i] # Empty
=============================================================================
