------------------------- MODULE TaskMultiProcessor -------------------------
(***************************************************************************)
(* vectro::pool::TaskMultiProcessor<T>, the thread pool under every        *)
(* Channel: a fixed set of worker threads, one deque per worker, one       *)
(* mutex_/cv_ pair on which idle workers sleep, a set of atomics, and a    *)
(* destructor that stops the workers.                                      *)
(*                                                                         *)
(* Three kinds of threads interleave:                                      *)
(*   - the submitters, application threads inside SubmitImpl (spc),        *)
(*   - the workers, each running ProcessLoop (wpc),                        *)
(*   - the owner, the one thread that runs ~TaskMultiProcessor (dpc).      *)
(* One step is one access to shared state: an atomic operation, or a       *)
(* critical section of a queue mutex.  mutex_ is held across steps only by *)
(* a worker between its test of the wait condition and cv_.Wait, that is,  *)
(* exactly while wpc[w] = "wait".                                          *)
(*                                                                         *)
(* Left out: the back-off sleep of SubmitImpl (any delay between "load"    *)
(* and "index" is already allowed), thread affinity, a steal policy of the *)
(* application's own, and the text written to stderr.  The pass over       *)
(* global_callbacks_ is one step, as cb_mu_ makes it.                      *)
(*                                                                         *)
(* UpdateConfig takes any num_threads.  A thread that divides by zero or   *)
(* indexes outside a vector because of it has undefined behaviour: it goes *)
(* on as if nothing had happened, where that is possible, or it traps or   *)
(* hangs, and its control point is "undefined" from then on.  What it may  *)
(* overwrite is not modelled.                                              *)
(*                                                                         *)
(* A definition marked "Variant" is not part of the specification: it is   *)
(* the next definition with a mistake in it, kept to show that a property  *)
(* notices the mistake.                                                    *)
(***************************************************************************)
EXTENDS Integers, Sequences, FiniteSets

CONSTANTS
    NumThreads,   \* cfg.num_threads given to the constructor
    Submitters,   \* the application threads that call Submit*
    Tasks,        \* the items; each is submitted at most once
    Kinds,        \* the Submit* overloads used, a subset of AllKinds
    Configs,      \* the values cfg_ may take, closed under mixing fields
    QueueCap,     \* the largest max_queue_size of Configs
    SizeMod,      \* 2^64, the modulus of size_t
    None          \* no task

Workers == 0 .. NumThreads - 1

Modes == {"FIFO", "RoundRobin", "WorkStealing"}

AllKinds == {"plain", "timed", "result"}

(* The fields of TaskProcessorConfig that decide the control flow.         *)
ConfigType ==
    [mode                     : Modes,
     num_threads              : Nat,
     max_queue_size           : 0 .. QueueCap,
     enable_circuit_breaker   : BOOLEAN,
     enable_drain_on_shutdown : BOOLEAN]

ASSUME NumThreadsAssumption == NumThreads \in Nat \ {0}

ASSUME SubmittersAssumption == IsFiniteSet(Submitters)

ASSUME TasksAssumption == None \notin Tasks /\ Kinds \subseteq AllKinds

ASSUME ConfigsAssumption ==
    /\ QueueCap \in Nat
    /\ Configs # {}
    /\ Configs \subseteq ConfigType

(* 2^64 is out of reach of the threads and of the queue bound.             *)
ASSUME SizeModAssumption ==
    /\ SizeMod \in Nat
    /\ SizeMod > QueueCap + 2 * Cardinality(Submitters) + NumThreads + 2

VARIABLES
    cfg,              \* cfg_
    resized,          \* whether cfg_.num_threads was ever changed
    nsizes,           \* the length of a thief's vector sizes
    running,          \* running_
    stopped,          \* stopped_
    active_workers,   \* active_workers_
    queues,           \* queues_: one deque per worker, front first
    tasks_in_queue,   \* tasks_in_queue_, a size_t
    dropped_count,    \* dropped_count_
    high_water_mark,  \* high_water_mark_
    processed_count,  \* processed_count_
    stolen_count,     \* stolen_count_
    rr_index,         \* rr_index_
    spc,              \* where each submitter is in SubmitImpl
    item,             \* the item each submitter is submitting
    idx,              \* SubmitImpl's idx
    wpc,              \* where each worker is in ProcessLoop
    ti,               \* ProcessLoop's ti: the task a worker holds
    dpc,              \* where the owner is in the destructor
    timed_out,        \* the drain loop ended because of shutdown_timeout
    kind,             \* the overload a task was submitted through
    token,            \* its cancellation token
    fate,             \* what the submit call did with the task
    ret,              \* what SubmitWithTimeout returned for it
    fut,              \* the state of its std::future
    ran,              \* tasks handed to the callbacks, in that order
    collected,        \* drops returned by GetDroppedCount so far
    notified          \* drops taken by HandleDrops so far

config == <<cfg, resized, nsizes>>
pool   == <<queues, tasks_in_queue, high_water_mark, rr_index>>
stats  == <<dropped_count, processed_count, stolen_count, collected, notified>>
flags  == <<running, stopped, active_workers>>
caller == <<spc, item, idx>>
worker == <<wpc, ti>>
owner  == <<dpc, timed_out>>
app    == <<kind, token, fate, ret, fut, ran>>

vars == <<config, flags, pool, stats, caller, worker, owner, app>>

-----------------------------------------------------------------------------
(* size_t arithmetic: fetch_add(1) and fetch_sub(1) wrap around.           *)

Inc(n) == IF n = SizeMod - 1 THEN 0 ELSE n + 1

(* Variant: a decrement that stops at zero.                                *)
DecSaturating(n) == IF n = 0 THEN 0 ELSE n - 1

Dec(n) == IF n = 0 THEN SizeMod - 1 ELSE n - 1

(* The constructor: every worker is about to test running_.                *)
Init ==
    /\ cfg \in {c \in Configs : c.num_threads = NumThreads}
    /\ resized = "never"
    /\ nsizes = [w \in Workers |-> 0]
    /\ running = TRUE
    /\ stopped = FALSE
    /\ active_workers = NumThreads
    /\ queues = [w \in Workers |-> <<>>]
    /\ tasks_in_queue = 0
    /\ dropped_count = 0
    /\ high_water_mark = 0
    /\ processed_count = 0
    /\ stolen_count = 0
    /\ rr_index = 0
    /\ spc = [s \in Submitters |-> "idle"]
    /\ item = [s \in Submitters |-> None]
    /\ idx = [s \in Submitters |-> 0]
    /\ wpc = [w \in Workers |-> "loop"]
    /\ ti = [w \in Workers |-> None]
    /\ dpc = "alive"
    /\ timed_out = FALSE
    /\ kind = [t \in Tasks |-> "none"]
    /\ token = [t \in Tasks |-> FALSE]
    /\ fate = [t \in Tasks |-> "new"]
    /\ ret = [t \in Tasks |-> "none"]
    /\ fut = [t \in Tasks |-> "none"]
    /\ ran = <<>>
    /\ collected = 0
    /\ notified = 0

-----------------------------------------------------------------------------
(* The application.  Its threads use the pool only while it is alive: the  *)
(* destructor starts when no call is in progress, and none starts later.   *)

(* The entry of Submit, SubmitWithTimeout and SubmitWithResult, up to the  *)
(* call of SubmitImpl.  A set token, or a deadline that has passed, ends   *)
(* the call at once.                                                       *)
Call(s, t, k, cancelled, expired) ==
    LET rejected == \/ k = "timed" /\ (cancelled \/ expired)
                    \/ k = "result" /\ cancelled
    IN  /\ dpc = "alive"
        /\ spc[s] = "idle"
        /\ fate[t] = "new"
        /\ k = "plain" => ~cancelled
        /\ k # "timed" => ~expired
        /\ kind' = [kind EXCEPT ![t] = k]
        /\ token' = [token EXCEPT ![t] = cancelled]
        /\ IF rejected
           THEN /\ fate' = [fate EXCEPT ![t] = "rejected"]
                /\ ret' = [ret EXCEPT ![t] = IF k = "timed" THEN "false" ELSE @]
                /\ fut' = [fut EXCEPT ![t] =
                              IF k = "result" THEN "cancelled" ELSE @]
                /\ UNCHANGED caller
           ELSE /\ fate' = [fate EXCEPT ![t] = "calling"]
                /\ fut' = [fut EXCEPT ![t] =
                              IF k = "result" THEN "pending" ELSE @]
                /\ spc' = [spc EXCEPT ![s] = "load"]
                /\ item' = [item EXCEPT ![s] = t]
                /\ UNCHANGED <<ret, idx>>
        /\ UNCHANGED <<config, flags, pool, stats, worker, owner, ran>>

(* The caller stores TRUE into the token of a SubmitWithResult.            *)
Cancel(t) ==
    /\ kind[t] = "result"
    /\ fut[t] = "pending"
    /\ ~token[t]
    /\ token' = [token EXCEPT ![t] = TRUE]
    /\ UNCHANGED <<config, flags, pool, stats, caller, worker, owner,
                   kind, fate, ret, fut, ran>>

(* Whether num_threads stayed what the constructor was given, was changed  *)
(* to another number of workers that exist, or went beyond these.          *)
Resize(n) ==
    IF n \notin 1 .. NumThreads THEN "beyond"
    ELSE IF n # NumThreads /\ resized = "never" THEN "within"
    ELSE resized

(* cfg_ = cfg, without a lock, and without a look at its values.  The copy *)
(* is not atomic: because Configs is closed under mixing fields, a         *)
(* half-made copy is a value of Configs too, reached by a sequence of      *)
(* these steps.                                                            *)
UpdateConfig(c) ==
    /\ dpc = "alive"
    /\ cfg' = c
    /\ resized' = Resize(c.num_threads)
    /\ UNCHANGED <<nsizes, flags, pool, stats, caller, worker, owner, app>>

(* dropped_count_.exchange(0), the value going to the caller.              *)
GetDroppedCount ==
    /\ dpc = "alive"
    /\ dropped_count > 0
    /\ collected' = collected + dropped_count
    /\ dropped_count' = 0
    /\ UNCHANGED <<config, flags, pool, processed_count, stolen_count, notified,
                   caller, worker, owner, app>>

-----------------------------------------------------------------------------
(* SubmitImpl, one submitter.                                              *)

Return(s) ==
    /\ spc' = [spc EXCEPT ![s] = "idle"]
    /\ item' = [item EXCEPT ![s] = None]

Returned(t) == [ret EXCEPT ![t] = IF kind[t] = "timed" THEN "true" ELSE @]

(* Variant: the cap itself is let through.                                 *)
FullAboveCap(curr) ==
    /\ cfg.enable_circuit_breaker
    /\ cfg.max_queue_size # 0
    /\ curr > cfg.max_queue_size

(* The circuit breaker's test of the counter it read.                      *)
Full(curr) ==
    /\ cfg.enable_circuit_breaker
    /\ cfg.max_queue_size # 0
    /\ curr >= cfg.max_queue_size

(* The counter is read and found too high: the task is dropped.  Its       *)
(* wrapper dies with the call, which breaks the promise in it.             *)
SubmitDrop(s) ==
    /\ spc[s] = "load"
    /\ Full(tasks_in_queue)
    /\ dropped_count' = dropped_count + 1
    /\ fate' = [fate EXCEPT ![item[s]] = "dropped"]
    /\ fut' = [fut EXCEPT ![item[s]] = IF @ = "pending" THEN "broken" ELSE @]
    /\ ret' = Returned(item[s])
    /\ Return(s)
    /\ UNCHANGED <<config, flags, pool, processed_count, stolen_count, collected,
                   notified, idx, worker, owner, kind, token, ran>>

(* The counter is read and found low enough.                               *)
SubmitLoad(s) ==
    /\ spc[s] = "load"
    /\ ~Full(tasks_in_queue)
    /\ spc' = [spc EXCEPT ![s] = "index"]
    /\ UNCHANGED <<config, flags, pool, stats, item, idx, worker, owner, app>>

(* Variant: one index too many.                                            *)
RoundRobinPastEnd(n) == n % (cfg.num_threads + 1)

RoundRobin(n) == n % cfg.num_threads

(* The index computed from cfg_ is not one of a queue.                     *)
OutOfRange ==
    /\ cfg.mode # "FIFO"
    /\ cfg.num_threads # 0 => RoundRobin(rr_index) \notin Workers

(* Choose the queue: always the first in FIFO mode.                        *)
SubmitIndex(s) ==
    /\ spc[s] = "index"
    /\ ~OutOfRange
    /\ IF cfg.mode = "FIFO"
       THEN /\ idx' = [idx EXCEPT ![s] = 0]
            /\ UNCHANGED rr_index
       ELSE /\ idx' = [idx EXCEPT ![s] = RoundRobin(rr_index)]
            /\ rr_index' = rr_index + 1
    /\ spc' = [spc EXCEPT ![s] = "push"]
    /\ UNCHANGED <<config, flags, queues, tasks_in_queue, high_water_mark, stats,
                   item, worker, owner, app>>

(* A division by zero, or a mutex beyond the end of qmutexes_.             *)
SubmitUndefined(s) ==
    /\ spc[s] = "index"
    /\ OutOfRange
    /\ rr_index' = rr_index + 1
    /\ spc' = [spc EXCEPT ![s] = "undefined"]
    /\ UNCHANGED <<config, flags, queues, tasks_in_queue, high_water_mark, stats,
                   item, idx, worker, owner, app>>

(* Variant: the newest task overtakes the others.                          *)
PushFront(q, t) == <<t>> \o q

PushBack(q, t) == Append(q, t)

(* Under the queue's mutex: push_back, and raise the high-water mark.      *)
SubmitPush(s) ==
    LET q == PushBack(queues[idx[s]], item[s])
    IN  /\ spc[s] = "push"
        /\ queues' = [queues EXCEPT ![idx[s]] = q]
        /\ high_water_mark' =
              IF Len(q) > high_water_mark THEN Len(q) ELSE high_water_mark
        /\ fate' = [fate EXCEPT ![item[s]] = "queued"]
        /\ spc' = [spc EXCEPT ![s] = "count"]
        /\ UNCHANGED <<config, flags, tasks_in_queue, rr_index, stats, item, idx,
                       worker, owner, kind, token, ret, fut, ran>>

(* The counter follows the push, outside the queue's mutex.                *)
SubmitCount(s) ==
    /\ spc[s] = "count"
    /\ tasks_in_queue' = Inc(tasks_in_queue)
    /\ spc' = [spc EXCEPT ![s] = "signal"]
    /\ UNCHANGED <<config, flags, queues, high_water_mark, rr_index, stats, item,
                   idx, worker, owner, app>>

(* Variant: mutex_ is not taken at all.                                    *)
MutexIgnored == TRUE

MutexFree == \A w \in Workers : wpc[w] # "wait"

(* Variant: cv_.Signal, which wakes one sleeper.                           *)
WokenOne ==
    [w \in Workers |->
        IF wpc[w] = "asleep" /\ \A v \in 0 .. w - 1 : wpc[v] # "asleep"
        THEN "check" ELSE wpc[w]]

(* cv_.SignalAll: every sleeper goes back to testing the wait condition.   *)
Woken == [w \in Workers |-> IF wpc[w] = "asleep" THEN "check" ELSE wpc[w]]

(* Lock mutex_, signal, unlock, return.                                    *)
SubmitSignal(s) ==
    /\ spc[s] = "signal"
    /\ MutexFree
    /\ wpc' = Woken
    /\ ret' = Returned(item[s])
    /\ Return(s)
    /\ UNCHANGED <<config, flags, pool, stats, idx, ti, owner, kind, token, fate,
                   fut, ran>>

-----------------------------------------------------------------------------
(* ProcessLoop, one worker.                                                *)

(* while (running_.load()).                                                *)
LoopTest(w) ==
    /\ wpc[w] = "loop"
    /\ wpc' = [wpc EXCEPT ![w] = IF running THEN "check" ELSE "leaving"]
    /\ UNCHANGED <<config, flags, pool, stats, caller, ti, owner, app>>

(* Variant: the wait condition forgets running_.                           *)
MustWaitForTask == tasks_in_queue = 0

MustWait == running /\ tasks_in_queue = 0

(* With mutex_ held, test the wait condition; keep mutex_ only if the test *)
(* says to wait.                                                           *)
WaitTest(w) ==
    /\ wpc[w] = "check"
    /\ MutexFree
    /\ wpc' = [wpc EXCEPT ![w] =
                  IF MustWait THEN "wait" ELSE "pop"]
    /\ UNCHANGED <<config, flags, pool, stats, caller, ti, owner, app>>

(* cv_.Wait: start to sleep and release mutex_, atomically.                *)
Wait(w) ==
    /\ wpc[w] = "wait"
    /\ wpc' = [wpc EXCEPT ![w] = "asleep"]
    /\ UNCHANGED <<config, flags, pool, stats, caller, ti, owner, app>>

(* A condition variable may wake a sleeper for no reason.                  *)
SpuriousWakeup(w) ==
    /\ wpc[w] = "asleep"
    /\ wpc' = [wpc EXCEPT ![w] = "check"]
    /\ UNCHANGED <<config, flags, pool, stats, caller, ti, owner, app>>

(* Under the mutex of the worker's own queue: take the front task.         *)
PopOwn(w) ==
    /\ wpc[w] = "pop"
    /\ queues[w] # <<>>
    /\ ti' = [ti EXCEPT ![w] = Head(queues[w])]
    /\ queues' = [queues EXCEPT ![w] = Tail(@)]
    /\ wpc' = [wpc EXCEPT ![w] = "uncount"]
    /\ UNCHANGED <<config, flags, tasks_in_queue, high_water_mark, rr_index, stats,
                   caller, owner, app>>

PopEmpty(w) ==
    /\ wpc[w] = "pop"
    /\ queues[w] = <<>>
    /\ wpc' = [wpc EXCEPT ![w] = "sizes"]
    /\ UNCHANGED <<config, flags, pool, stats, caller, ti, owner, app>>

(* Only with work stealing: make the vector of the sizes.                  *)
StealSizes(w) ==
    /\ wpc[w] = "sizes"
    /\ IF cfg.mode = "WorkStealing"
       THEN /\ nsizes' = [nsizes EXCEPT ![w] = cfg.num_threads]
            /\ wpc' = [wpc EXCEPT ![w] = "steal"]
       ELSE /\ wpc' = [wpc EXCEPT ![w] = "drops"]
            /\ UNCHANGED nsizes
    /\ UNCHANGED <<cfg, resized, flags, pool, stats, caller, ti, owner, app>>

(* The first index of a largest size; the end of an empty vector is 0.     *)
DefaultStealPolicy(sizes) ==
    IF DOMAIN sizes = {} THEN 0
    ELSE CHOOSE i \in DOMAIN sizes :
             /\ \A j \in DOMAIN sizes : sizes[j] <= sizes[i]
             /\ \A j \in DOMAIN sizes : sizes[j] = sizes[i] => i <= j

(* The loop that fills the vector reads num_threads again.  The sizes are  *)
(* read without the queue mutexes, one deque after another, while other    *)
(* threads change them: each may be any number.  What the loop does not    *)
(* reach stays zero.                                                       *)
SizeReads(n) ==
    {sizes \in [0 .. n - 1 -> 0 .. 1] :
        \A i \in 0 .. n - 1 : i >= cfg.num_threads => sizes[i] = 0}

Victims(n) == {DefaultStealPolicy(sizes) : sizes \in SizeReads(n)}

(* The loop runs beyond the end of the vector or of queues_, and may make  *)
(* the policy choose a victim there.                                       *)
StealUndefined(w) ==
    /\ wpc[w] = "steal"
    /\ cfg.num_threads > nsizes[w] \/ cfg.num_threads > NumThreads
    /\ wpc' = [wpc EXCEPT ![w] = "undefined"]
    /\ UNCHANGED <<config, flags, pool, stats, caller, ti, owner, app>>

(* Variants: the wrong end is removed; the task is copied and stays.       *)
PopFront(q) == Tail(q)

KeepBack(q) == q

PopBack(q) == SubSeq(q, 1, Len(q) - 1)

(* Under the victim's mutex: take the back task.                           *)
StealBack(w, vic) ==
    /\ wpc[w] = "steal"
    /\ vic \in Victims(nsizes[w])
    /\ queues[vic] # <<>>
    /\ ti' = [ti EXCEPT ![w] = queues[vic][Len(queues[vic])]]
    /\ queues' = [queues EXCEPT ![vic] = PopBack(@)]
    /\ stolen_count' = stolen_count + 1
    /\ wpc' = [wpc EXCEPT ![w] = "uncount"]
    /\ nsizes' = [nsizes EXCEPT ![w] = 0]
    /\ UNCHANGED <<cfg, resized, flags, tasks_in_queue, high_water_mark, rr_index,
                   dropped_count, processed_count, collected, notified,
                   caller, owner, app>>

StealNothing(w, vic) ==
    /\ wpc[w] = "steal"
    /\ vic \in Victims(nsizes[w])
    /\ queues[vic] = <<>>
    /\ wpc' = [wpc EXCEPT ![w] = "drops"]
    /\ nsizes' = [nsizes EXCEPT ![w] = 0]
    /\ UNCHANGED <<cfg, resized, flags, pool, stats, caller, ti, owner, app>>

(* The counters follow the pop, outside the queue's mutex.                 *)
Uncount(w) ==
    /\ wpc[w] = "uncount"
    /\ tasks_in_queue' = Dec(tasks_in_queue)
    /\ processed_count' = processed_count + 1
    /\ wpc' = [wpc EXCEPT ![w] = "callbacks"]
    /\ UNCHANGED <<config, flags, queues, high_water_mark, rr_index,
                   dropped_count, stolen_count, collected, notified,
                   caller, ti, owner, app>>

(* Under cb_mu_: every global callback sees the task, exceptions swallowed.*)
GlobalCallbacks(w) ==
    /\ wpc[w] = "callbacks"
    /\ ran' = Append(ran, ti[w])
    /\ wpc' = [wpc EXCEPT ![w] = "wrappers"]
    /\ UNCHANGED <<config, flags, pool, stats, caller, ti, owner,
                   kind, token, fate, ret, fut>>

(* The task's own wrapper fulfils its promise: fn's value, fn's exception, *)
(* or the cancellation found in the token.                                 *)
Wrappers(w, outcome) ==
    /\ wpc[w] = "wrappers"
    /\ kind[ti[w]] # "result" => outcome = "none"
    /\ kind[ti[w]] = "result" =>
          outcome \in IF token[ti[w]] THEN {"cancelled"} ELSE {"value", "exception"}
    /\ fut' = [fut EXCEPT ![ti[w]] = outcome]
    /\ ti' = [ti EXCEPT ![w] = None]
    /\ wpc' = [wpc EXCEPT ![w] = "drops"]
    /\ UNCHANGED <<config, flags, pool, stats, caller, owner,
                   kind, token, fate, ret, ran>>

(* dropped_count_.exchange(0); the count is printed or discarded.          *)
HandleDrops(w) ==
    /\ wpc[w] = "drops"
    /\ notified' = notified + dropped_count
    /\ dropped_count' = 0
    /\ wpc' = [wpc EXCEPT ![w] = "loop"]
    /\ UNCHANGED <<config, flags, pool, processed_count, stolen_count, collected,
                   caller, ti, owner, app>>

(* Variant: the worker leaves without being counted out.                   *)
LeaveUncounted(w) ==
    /\ wpc[w] = "leaving"
    /\ stopped' = TRUE
    /\ wpc' = [wpc EXCEPT ![w] = "exited"]
    /\ UNCHANGED <<config, running, active_workers, pool, stats, caller, ti, owner,
                   app>>

(* The end of ProcessLoop.                                                 *)
Leave(w) ==
    /\ wpc[w] = "leaving"
    /\ active_workers' = active_workers - 1
    /\ stopped' = TRUE
    /\ wpc' = [wpc EXCEPT ![w] = "exited"]
    /\ UNCHANGED <<config, running, pool, stats, caller, ti, owner, app>>

-----------------------------------------------------------------------------
(* ~TaskMultiProcessor.                                                    *)

DtorStop ==
    /\ dpc = "alive"
    /\ \A s \in Submitters : spc[s] = "idle"
    /\ running' = FALSE
    /\ dpc' = "wake"
    /\ UNCHANGED <<config, stopped, active_workers, pool, stats, caller, worker,
                   timed_out, app>>

(* cv_.SignalAll without mutex_: a worker about to wait does not hear it.  *)
DtorWake ==
    /\ dpc = "wake"
    /\ wpc' = Woken
    /\ dpc' = IF cfg.enable_drain_on_shutdown THEN "drain" ELSE "join"
    /\ UNCHANGED <<config, flags, pool, stats, caller, ti, timed_out, app>>

DtorDrained ==
    /\ dpc = "drain"
    /\ tasks_in_queue = 0
    /\ dpc' = "join"
    /\ UNCHANGED <<config, flags, pool, stats, caller, worker, timed_out, app>>

DtorTimeout ==
    /\ dpc = "drain"
    /\ tasks_in_queue > 0
    /\ timed_out' = TRUE
    /\ dpc' = "join"
    /\ UNCHANGED <<config, flags, pool, stats, caller, worker, app>>

(* Join every thread, wait for active_workers_ to reach zero, run the      *)
(* final callback and destroy the members: a task left in a queue takes    *)
(* its promise with it.                                                    *)
DtorJoin ==
    /\ dpc = "join"
    /\ \A w \in Workers : wpc[w] = "exited"
    /\ active_workers = 0
    /\ stopped' = TRUE
    /\ fut' = [t \in Tasks |-> IF fut[t] = "pending" THEN "broken" ELSE fut[t]]
    /\ dpc' = "dead"
    /\ UNCHANGED <<config, running, active_workers, pool, stats, caller, worker,
                   timed_out, kind, token, fate, ret, ran>>

(* No thread has met undefined behaviour so far.                           *)
Defined ==
    /\ \A s \in Submitters : spc[s] # "undefined"
    /\ \A w \in Workers : wpc[w] # "undefined"

(* The object is gone, or the process; only this keeps that from counting  *)
(* as a deadlock.                                                          *)
Terminated ==
    /\ dpc = "dead" \/ ~Defined
    /\ UNCHANGED vars

-----------------------------------------------------------------------------
SubmitStep(s) ==
    \/ SubmitDrop(s)
    \/ SubmitLoad(s)
    \/ SubmitIndex(s)
    \/ SubmitUndefined(s)
    \/ SubmitPush(s)
    \/ SubmitCount(s)
    \/ SubmitSignal(s)

WorkerStep(w) ==
    \/ LoopTest(w)
    \/ WaitTest(w)
    \/ Wait(w)
    \/ PopOwn(w)
    \/ PopEmpty(w)
    \/ StealSizes(w)
    \/ StealUndefined(w)
    \/ \E vic \in Workers : StealBack(w, vic) \/ StealNothing(w, vic)
    \/ Uncount(w)
    \/ GlobalCallbacks(w)
    \/ \E outcome \in {"none", "cancelled", "value", "exception"} :
          Wrappers(w, outcome)
    \/ HandleDrops(w)
    \/ Leave(w)

DtorStep ==
    \/ DtorWake
    \/ DtorDrained
    \/ DtorTimeout
    \/ DtorJoin

AppStep ==
    \/ \E s \in Submitters, t \in Tasks, k \in Kinds,
          cancelled, expired \in BOOLEAN : Call(s, t, k, cancelled, expired)
    \/ \E t \in Tasks : Cancel(t)
    \/ \E c \in Configs : UpdateConfig(c)
    \/ GetDroppedCount
    \/ DtorStop

Next ==
    \/ AppStep
    \/ \E s \in Submitters : SubmitStep(s)
    \/ \E w \in Workers : WorkerStep(w) \/ SpuriousWakeup(w)
    \/ DtorStep
    \/ Terminated

Spec == Init /\ [][Next]_vars

(* Every thread inside the pool keeps being scheduled, and a thread that   *)
(* asks for mutex_ again and again while others take turns gets it.  The   *)
(* application owes nothing: calls, cancellation, reconfiguration, the     *)
(* destructor and spurious wake-ups may never happen.                      *)
Fairness ==
    /\ \A s \in Submitters : WF_vars(SubmitStep(s)) /\ SF_vars(SubmitSignal(s))
    /\ \A w \in Workers : WF_vars(WorkerStep(w)) /\ SF_vars(WaitTest(w))
    /\ WF_vars(DtorStep)

FairSpec == Spec /\ Fairness

-----------------------------------------------------------------------------
(* Properties.                                                             *)

SubmitPcs == {"idle", "load", "index", "push", "count", "signal",
              "undefined"}

WorkerPcs == {"loop", "check", "wait", "asleep", "pop", "sizes", "steal",
              "uncount", "callbacks", "wrappers", "drops", "leaving", "exited",
              "undefined"}

DtorPcs == {"alive", "wake", "drain", "join", "dead"}

(* Every variable keeps its type, and a thread inside a call or holding a  *)
(* task has one.                                                           *)
TypeOK ==
    /\ cfg \in Configs
    /\ resized \in {"never", "within", "beyond"} /\ nsizes \in [Workers -> Nat]
    /\ running \in BOOLEAN /\ stopped \in BOOLEAN
    /\ active_workers \in Int
    /\ queues \in [Workers -> Seq(Tasks)]
    /\ tasks_in_queue \in 0 .. SizeMod - 1
    /\ dropped_count \in Nat /\ high_water_mark \in Nat
    /\ processed_count \in Nat /\ stolen_count \in Nat /\ rr_index \in Nat
    /\ spc \in [Submitters -> SubmitPcs]
    /\ item \in [Submitters -> Tasks \cup {None}]
    /\ \A s \in Submitters : spc[s] # "idle" => item[s] \in Tasks
    /\ idx \in [Submitters -> Workers]
    /\ wpc \in [Workers -> WorkerPcs]
    /\ ti \in [Workers -> Tasks \cup {None}]
    /\ \A w \in Workers :
          wpc[w] \in {"uncount", "callbacks", "wrappers"} => ti[w] \in Tasks
    /\ dpc \in DtorPcs /\ timed_out \in BOOLEAN
    /\ kind \in [Tasks -> AllKinds \cup {"none"}]
    /\ token \in [Tasks -> BOOLEAN]
    /\ fate \in [Tasks -> {"new", "rejected", "calling", "dropped", "queued"}]
    /\ ret \in [Tasks -> {"none", "true", "false"}]
    /\ fut \in [Tasks -> {"none", "pending", "value", "exception", "cancelled",
                          "broken"}]
    /\ ran \in Seq(Tasks)
    /\ collected \in Nat /\ notified \in Nat

(* Where undefined behaviour comes from.  SubmitImpl computes an index     *)
(* outside queues_, or divides by zero, only when some num_threads it was  *)
(* given is zero or larger than at construction; a thief, who reads        *)
(* num_threads twice, only when it was changed at all.                     *)
IndicesInRange ==
    /\ (\E s \in Submitters : spc[s] = "undefined") => resized = "beyond"
    /\ (\E w \in Workers : wpc[w] = "undefined") => resized # "never"

(* The occupied positions of the queues.                                   *)
Slots == UNION {{w} \X (1 .. Len(queues[w])) : w \in Workers}

(* Submitters past the breaker's test whose task is not in a queue yet.    *)
Admitted == {s \in Submitters : spc[s] \in {"index", "push", "undefined"}}

(* Submitters whose task is in a queue and not counted yet.                *)
Pushed == {s \in Submitters : spc[s] = "count"}

(* Workers holding a task that is still counted.                           *)
Popped == {w \in Workers : wpc[w] = "uncount"}

(* What tasks_in_queue_ would be without wrapping around.                  *)
Backlog == Cardinality(Slots) - Cardinality(Pushed) + Cardinality(Popped)

(* A configuration whose circuit breaker is on, with a cap within QueueCap.*)
BreakerOn ==
    \A c \in Configs : c.enable_circuit_breaker /\ c.max_queue_size # 0

(* tasks_in_queue_ always accounts exactly for what is in the queues, up   *)
(* to the pushes not counted yet and the pops not discounted yet: although *)
(* the counter and the deques are updated apart, no interleaving of        *)
(* submitters, owners and thieves makes it drift.  When the discounts      *)
(* overtake the counts it wraps around below zero.                         *)
CounterExact ==
    BreakerOn =>
        tasks_in_queue = IF Backlog < 0 THEN Backlog + SizeMod ELSE Backlog

(* The circuit breaker is a check-then-act on a counter that lags behind   *)
(* the queues.  It still bounds them: however the calls race, all queues   *)
(* together hold less than max_queue_size plus one task per submitter.     *)
QueueBound ==
    BreakerOn =>
        /\ Cardinality(Slots) < QueueCap + Cardinality(Submitters)
        /\ high_water_mark < QueueCap + Cardinality(Submitters)

(* No worker goes to sleep, or stays asleep, on work it is not going to be *)
(* told about: while the counter is not zero, a submitter that has still   *)
(* to signal is on its way.                                                *)
NoLostWakeup ==
    (tasks_in_queue # 0 /\ \E w \in Workers : wpc[w] \in {"wait", "asleep"})
        => \E s \in Submitters : spc[s] \in {"count", "signal"}

(* A task accepted by a submit call is in exactly one place, one time: in  *)
(* one slot of one queue, in the hands of one worker, or in the log of the *)
(* callbacks.  A task that was rejected or dropped is in none.  Owners pop *)
(* one end and thieves the other without losing or repeating a task.       *)
TaskAccounted ==
    \A t \in Tasks :
        LET queued == {p \in Slots : queues[p[1]][p[2]] = t}
            held   == {w \in Workers : /\ ti[w] = t
                                       /\ wpc[w] \in {"uncount", "callbacks"}}
            done   == {i \in DOMAIN ran : ran[i] = t}
        IN  Cardinality(queued) + Cardinality(held) + Cardinality(done)
                = IF fate[t] = "queued" THEN 1 ELSE 0

(* Once a future is ready its state never changes again: the promise is    *)
(* satisfied once, whichever of the breaker, the token, the worker and the *)
(* destructor gets there.                                                  *)
FutureSetOnce ==
    [][\A t \in Tasks : fut[t] \notin {"none", "pending"} => fut'[t] = fut[t]]_vars

(* Every accepted task reaches the callbacks, unless the pool is destroyed *)
(* first: in each scheduling mode some worker that is awake serves each    *)
(* queue.                                                                  *)
AcceptedTasksRun ==
    \A t \in Tasks :
        fate[t] = "queued"
            ~> ((\E i \in DOMAIN ran : ran[i] = t) \/ dpc # "alive")

(* Every future SubmitWithResult returned becomes ready, also when the     *)
(* task is dropped, cancelled, or still queued when the pool is destroyed. *)
FuturesResolve ==
    \A t \in Tasks : fut[t] = "pending" ~> fut[t] # "pending"

(* If the destructor's signal reached every worker, so that none of them   *)
(* waits, all workers leave and the destructor returns.                    *)
HeardShutdownCompletes ==
    (/\ dpc \in {"drain", "join"}
     /\ \A w \in Workers : wpc[w] \notin {"wait", "asleep"})
        ~> dpc = "dead"

-----------------------------------------------------------------------------
(* FIFO mode: the pool implements a queue with one server.  The abstract   *)
(* queue holds the task worker 0 took and has not shown to the callbacks   *)
(* yet, followed by the first deque.                                       *)
FifoPending ==
    (IF wpc[0] \in {"uncount", "callbacks"} THEN <<ti[0]>> ELSE <<>>)
        \o queues[0]

Fifo == INSTANCE FifoQueue WITH pending <- FifoPending, done <- ran

(* "FIFO: strict arrival order (single or multi-consumer)": the callbacks  *)
(* see the tasks one by one in the order in which they entered the queue,  *)
(* however many workers run.                                               *)
ImplementsFifo == Fifo!Spec

-----------------------------------------------------------------------------
(* What the documentation and the tests say and the code does not do.      *)

(* "Barrier to ensure all workers exit before destructor returns": the     *)
(* destructor, once entered, returns.                                      *)
ShutdownTerminates == dpc = "wake" ~> dpc = "dead"

(* "Destructor drains and joins threads": with draining enabled and the    *)
(* timeout not reached, the workers leave no task behind.                  *)
DrainedBeforeExit ==
    (/\ cfg.enable_drain_on_shutdown
     /\ ~timed_out
     /\ \A w \in Workers : wpc[w] = "exited")
        => \A w \in Workers : queues[w] = <<>>

(* SubmitWithTimeout returns false for a task that was "Dropped or         *)
(* canceled", so true means that the task is in a queue.                   *)
TrueMeansAccepted ==
    \A t \in Tasks : ret[t] = "true" => fate[t] = "queued"

(* "Thread-safe": UpdateConfig may replace num_threads by another number   *)
(* of constructed workers while the pool runs.                             *)
ResizeSafe == resized # "beyond" => Defined

(* "max_queue_size drops excess tasks": a task is dropped only if that     *)
(* many others were accepted.                                              *)
OnlyExcessDropped ==
    (\E t \in Tasks : fate[t] = "dropped")
        => Cardinality({t \in Tasks : fate[t] = "queued"}) >= cfg.max_queue_size

(* The drops a caller has not collected yet are what GetDroppedCount will  *)
(* return, as the test of the circuit breaker requires.                    *)
DropsVisible ==
    collected + dropped_count = Cardinality({t \in Tasks : fate[t] = "dropped"})
=============================================================================
