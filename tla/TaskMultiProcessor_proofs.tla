--------------------- MODULE TaskMultiProcessor_proofs ---------------------
(***************************************************************************)
(* Theorems about TaskMultiProcessor, for any number of workers,           *)
(* submitters and tasks.                                                   *)
(***************************************************************************)
EXTENDS TaskMultiProcessor, SequenceTheorems, FiniteSetTheorems, TLAPS

-----------------------------------------------------------------------------
(* Facts about the operators.                                              *)

(* fetch_add and fetch_sub stay within size_t.                             *)
LEMMA CounterRange ==
    ASSUME NEW n \in 0 .. SizeMod - 1
    PROVE  Inc(n) \in 0 .. SizeMod - 1 /\ Dec(n) \in 0 .. SizeMod - 1
BY SizeModAssumption DEF Inc, Dec

(* The index SubmitImpl uses is the index of a queue.                      *)
LEMMA IndexRange ==
    ASSUME ~OutOfRange, cfg.mode # "FIFO" PROVE RoundRobin(rr_index) \in Workers
BY DEF OutOfRange

(* The index it computes is one, when num_threads is a number of workers.  *)
LEMMA RoundRobinRange ==
    ASSUME NEW n \in Nat, cfg.num_threads \in 1 .. NumThreads
    PROVE  RoundRobin(n) \in Workers
<1>1. n % cfg.num_threads \in 0 .. cfg.num_threads - 1
  BY NumThreadsAssumption
<1> QED
  BY <1>1, NumThreadsAssumption DEF RoundRobin, Workers

(* num_threads is a natural number, and nothing else is known of it.       *)
LEMMA ThreadsType == ASSUME NEW c \in Configs PROVE c.num_threads \in Nat
BY ConfigsAssumption DEF ConfigType

(* Removing the last task of a queue leaves a shorter queue.               *)
LEMMA PopBackType ==
    ASSUME NEW S, NEW q \in Seq(S), q # <<>>
    PROVE  /\ PopBack(q) \in Seq(S)
           /\ Len(PopBack(q)) = Len(q) - 1
           /\ q[Len(q)] \in S
<1>1. Len(q) \in Nat \ {0}
  BY EmptySeq
<1>2. \A i \in 1 .. Len(q) : q[i] \in S
  BY ElementOfSeq
<1>3. PopBack(q) \in Seq(S) /\ Len(PopBack(q)) = IF 1 <= Len(q) - 1 THEN Len(q) - 1 ELSE 0
  <2>1. /\ 1 \in Int /\ Len(q) - 1 \in Int
        /\ \A i \in 1 .. Len(q) - 1 : q[i] \in S
    BY <1>1, <1>2
  <2>2. /\ SubSeq(q, 1, Len(q) - 1) \in Seq(S)
        /\ Len(SubSeq(q, 1, Len(q) - 1))
              = IF 1 <= Len(q) - 1 THEN (Len(q) - 1) - 1 + 1 ELSE 0
    BY ONLY <2>1, SubSeqProperties
  <2> QED
    BY <1>1, <2>2 DEF PopBack
<1>4. q[Len(q)] \in S
  BY <1>1, <1>2
<1>5. Len(PopBack(q)) = Len(q) - 1
  <2> DEFINE n == Len(q)
             m == Len(PopBack(q))
  <2>1. n \in Nat \ {0} /\ m = IF 1 <= n - 1 THEN n - 1 ELSE 0
    BY <1>1, <1>3
  <2> HIDE DEF n, m
  <2>2. m = n - 1
    BY ONLY <2>1
  <2> QED
    BY <2>2 DEF n, m
<1> QED
  BY <1>3, <1>4, <1>5

-----------------------------------------------------------------------------
(* Type correctness.                                                       *)

LEMMA TypeInit == Init => TypeOK
<1> SUFFICES ASSUME Init PROVE TypeOK
  OBVIOUS
<1>1. /\ cfg \in Configs /\ NumThreads \in Nat \ {0}
      /\ resized \in {"never", "within", "beyond"} /\ nsizes \in [Workers -> Nat]
  BY NumThreadsAssumption DEF Init
<1>2. 0 \in 0 .. SizeMod - 1 /\ 0 \in Workers
  BY SizeModAssumption, NumThreadsAssumption, ConfigsAssumption, SubmittersAssumption,
     FS_CardinalityType DEF Workers
<1>3. <<>> \in Seq(Tasks)
  BY EmptySeq
<1>4. /\ queues \in [Workers -> Seq(Tasks)]
      /\ ran \in Seq(Tasks)
  BY <1>3 DEF Init
<1>5. /\ spc \in [Submitters -> SubmitPcs]
      /\ item \in [Submitters -> Tasks \cup {None}]
      /\ \A s \in Submitters : spc[s] # "idle" => item[s] \in Tasks
      /\ idx \in [Submitters -> Workers]
  BY <1>2 DEF Init, SubmitPcs
<1>6. /\ wpc \in [Workers -> WorkerPcs]
      /\ ti \in [Workers -> Tasks \cup {None}]
      /\ \A w \in Workers :
            wpc[w] \in {"uncount", "callbacks", "wrappers"} => ti[w] \in Tasks
  BY DEF Init, WorkerPcs
<1>7. /\ kind \in [Tasks -> AllKinds \cup {"none"}]
      /\ token \in [Tasks -> BOOLEAN]
      /\ fate \in [Tasks -> {"new", "rejected", "calling", "dropped", "queued"}]
      /\ ret \in [Tasks -> {"none", "true", "false"}]
      /\ fut \in [Tasks -> {"none", "pending", "value", "exception", "cancelled",
                            "broken"}]
  BY DEF Init, AllKinds
<1>8. /\ active_workers \in Int /\ tasks_in_queue \in 0 .. SizeMod - 1
      /\ dropped_count \in Nat /\ high_water_mark \in Nat
      /\ processed_count \in Nat /\ stolen_count \in Nat /\ rr_index \in Nat
      /\ collected \in Nat /\ notified \in Nat
  BY <1>1, <1>2 DEF Init
<1>9. /\ running \in BOOLEAN /\ stopped \in BOOLEAN /\ timed_out \in BOOLEAN
      /\ dpc \in DtorPcs
  BY Zenon DEF Init, DtorPcs
<1> QED
  BY ONLY <1>1, <1>4, <1>5, <1>6, <1>7, <1>8, <1>9 DEF TypeOK

LEMMA TypeNext == TypeOK /\ [Next]_vars => TypeOK'
<1> SUFFICES ASSUME TypeOK, [Next]_vars PROVE TypeOK'
  OBVIOUS
<1> USE DEF config, pool, stats, flags, caller, worker, owner, app
<1>1. ASSUME NEW s \in Submitters, NEW t \in Tasks, NEW k \in Kinds,
             NEW cancelled \in BOOLEAN, NEW expired \in BOOLEAN,
             Call(s, t, k, cancelled, expired)
      PROVE  TypeOK'
  <2>1. k \in AllKinds
    BY TasksAssumption
  <2>2. kind' \in [Tasks -> AllKinds \cup {"none"}] /\ token' \in [Tasks -> BOOLEAN]
    BY <1>1, <2>1 DEF Call, TypeOK
  <2> DEFINE rejected == \/ k = "timed" /\ (cancelled \/ expired)
                         \/ k = "result" /\ cancelled
  <2>3. CASE rejected
    <3>1. /\ fate' = [fate EXCEPT ![t] = "rejected"]
          /\ ret' = [ret EXCEPT ![t] = IF k = "timed" THEN "false" ELSE @]
          /\ fut' = [fut EXCEPT ![t] = IF k = "result" THEN "cancelled" ELSE @]
          /\ UNCHANGED caller
      BY <1>1, <2>3 DEF Call
    <3>2. UNCHANGED <<config, flags, pool, stats, worker, owner, ran>>
      BY <1>1 DEF Call
    <3> QED
      BY <2>2, <3>1, <3>2 DEF TypeOK
  <2>4. CASE ~rejected
    <3>1. /\ fate' = [fate EXCEPT ![t] = "calling"]
          /\ fut' = [fut EXCEPT ![t] = IF k = "result" THEN "pending" ELSE @]
          /\ spc' = [spc EXCEPT ![s] = "load"]
          /\ item' = [item EXCEPT ![s] = t]
          /\ UNCHANGED <<ret, idx>>
      BY <1>1, <2>4 DEF Call
    <3>2. UNCHANGED <<config, flags, pool, stats, worker, owner, ran>>
      BY <1>1 DEF Call
    <3> QED
      BY <2>2, <3>1, <3>2 DEF TypeOK, SubmitPcs
  <2> QED
    BY <2>3, <2>4
<1>2. ASSUME NEW t \in Tasks, Cancel(t) PROVE TypeOK'
  BY <1>2 DEF Cancel, TypeOK
<1>3. ASSUME NEW c \in Configs, UpdateConfig(c) PROVE TypeOK'
  <2>1. resized' \in {"never", "within", "beyond"}
    BY <1>3 DEF UpdateConfig, Resize, TypeOK
  <2> QED
    BY <1>3, <2>1 DEF UpdateConfig, TypeOK
<1>4. CASE GetDroppedCount
  BY <1>4 DEF GetDroppedCount, TypeOK
<1>5. CASE DtorStop
  BY <1>5 DEF DtorStop, TypeOK, DtorPcs
<1>6. ASSUME NEW s \in Submitters, SubmitDrop(s) PROVE TypeOK'
  BY <1>6 DEF SubmitDrop, Return, Returned, TypeOK, SubmitPcs
<1>7. ASSUME NEW s \in Submitters, SubmitLoad(s) PROVE TypeOK'
  BY <1>7 DEF SubmitLoad, TypeOK, SubmitPcs
<1>8. ASSUME NEW s \in Submitters, SubmitIndex(s) PROVE TypeOK'
  <2>1. cfg.mode # "FIFO" => RoundRobin(rr_index) \in Workers
    BY <1>8, IndexRange DEF SubmitIndex
  <2>2. 0 \in Workers
    BY NumThreadsAssumption DEF Workers
  <2>3. idx' \in [Submitters -> Workers] /\ rr_index' \in Nat
    <3>1. CASE cfg.mode = "FIFO"
      BY <1>8, <2>2, <3>1 DEF SubmitIndex, TypeOK
    <3>2. CASE cfg.mode # "FIFO"
      <4>1. /\ idx' = [idx EXCEPT ![s] = RoundRobin(rr_index)]
            /\ rr_index' = rr_index + 1
        BY <1>8, <3>2 DEF SubmitIndex
      <4> QED
        BY <2>1, <3>2, <4>1 DEF TypeOK
    <3> QED
      BY <3>1, <3>2
  <2>4. spc' = [spc EXCEPT ![s] = "push"] /\ spc[s] = "index"
    BY <1>8 DEF SubmitIndex
  <2>5. UNCHANGED <<config, flags, queues, tasks_in_queue, high_water_mark, stats,
                    item, worker, owner, app>>
    BY <1>8 DEF SubmitIndex
  <2> QED
    BY <2>3, <2>4, <2>5 DEF TypeOK, SubmitPcs
<1>30. ASSUME NEW s \in Submitters, SubmitUndefined(s) PROVE TypeOK'
  BY <1>30 DEF SubmitUndefined, TypeOK, SubmitPcs
<1>9. ASSUME NEW s \in Submitters, SubmitPush(s) PROVE TypeOK'
  <2> DEFINE q == PushBack(queues[idx[s]], item[s])
  <2>1. q \in Seq(Tasks) /\ Len(q) \in Nat
    BY <1>9 DEF SubmitPush, PushBack, TypeOK
  <2>2. queues' = [queues EXCEPT ![idx[s]] = q]
    BY <1>9 DEF SubmitPush
  <2>3. high_water_mark' \in Nat
    BY <1>9, <2>1 DEF SubmitPush, TypeOK
  <2> HIDE DEF q
  <2> QED
    BY <1>9, <2>1, <2>2, <2>3 DEF SubmitPush, TypeOK, SubmitPcs
<1>10. ASSUME NEW s \in Submitters, SubmitCount(s) PROVE TypeOK'
  BY <1>10, CounterRange DEF SubmitCount, TypeOK, SubmitPcs
<1>11. ASSUME NEW s \in Submitters, SubmitSignal(s) PROVE TypeOK'
  BY <1>11 DEF SubmitSignal, Woken, Return, Returned, TypeOK, SubmitPcs, WorkerPcs
<1>12. ASSUME NEW w \in Workers, LoopTest(w) PROVE TypeOK'
  BY <1>12 DEF LoopTest, TypeOK, WorkerPcs
<1>13. ASSUME NEW w \in Workers, WaitTest(w) PROVE TypeOK'
  BY <1>13 DEF WaitTest, TypeOK, WorkerPcs
<1>14. ASSUME NEW w \in Workers, Wait(w) PROVE TypeOK'
  BY <1>14 DEF Wait, TypeOK, WorkerPcs
<1>15. ASSUME NEW w \in Workers, SpuriousWakeup(w) PROVE TypeOK'
  BY <1>15 DEF SpuriousWakeup, TypeOK, WorkerPcs
<1>16. ASSUME NEW w \in Workers, PopOwn(w) PROVE TypeOK'
  <2>1. Head(queues[w]) \in Tasks /\ Tail(queues[w]) \in Seq(Tasks)
    BY <1>16, HeadTailProperties DEF PopOwn, TypeOK
  <2> QED
    BY <1>16, <2>1 DEF PopOwn, TypeOK, WorkerPcs
<1>17. ASSUME NEW w \in Workers, PopEmpty(w) PROVE TypeOK'
  BY <1>17 DEF PopEmpty, TypeOK, WorkerPcs
<1>31. ASSUME NEW w \in Workers, StealSizes(w) PROVE TypeOK'
  <2>1. cfg.num_threads \in Nat
    BY ThreadsType DEF TypeOK
  <2>2. nsizes' \in [Workers -> Nat] /\ wpc' \in [Workers -> WorkerPcs]
    BY <1>31, <2>1 DEF StealSizes, TypeOK, WorkerPcs
  <2> QED
    BY <1>31, <2>2 DEF StealSizes, TypeOK
<1>32. ASSUME NEW w \in Workers, StealUndefined(w) PROVE TypeOK'
  BY <1>32 DEF StealUndefined, TypeOK, WorkerPcs
<1>18. ASSUME NEW w \in Workers, NEW vic \in Workers, StealBack(w, vic) PROVE TypeOK'
  <2>1. PopBack(queues[vic]) \in Seq(Tasks) /\ queues[vic][Len(queues[vic])] \in Tasks
    BY <1>18, PopBackType DEF StealBack, TypeOK
  <2> QED
    BY <1>18, <2>1 DEF StealBack, TypeOK, WorkerPcs
<1>19. ASSUME NEW w \in Workers, NEW vic \in Workers, StealNothing(w, vic) PROVE TypeOK'
  BY <1>19 DEF StealNothing, TypeOK, WorkerPcs
<1>20. ASSUME NEW w \in Workers, Uncount(w) PROVE TypeOK'
  <2>1. tasks_in_queue' \in 0 .. SizeMod - 1 /\ processed_count' \in Nat
    BY <1>20, CounterRange DEF Uncount, TypeOK
  <2> QED
    BY <1>20, <2>1 DEF Uncount, TypeOK, WorkerPcs
<1>21. ASSUME NEW w \in Workers, GlobalCallbacks(w) PROVE TypeOK'
  BY <1>21 DEF GlobalCallbacks, TypeOK, WorkerPcs
<1>22. ASSUME NEW w \in Workers,
              NEW outcome \in {"none", "cancelled", "value", "exception"},
              Wrappers(w, outcome)
       PROVE  TypeOK'
  BY <1>22 DEF Wrappers, TypeOK, WorkerPcs
<1>23. ASSUME NEW w \in Workers, HandleDrops(w) PROVE TypeOK'
  BY <1>23 DEF HandleDrops, TypeOK, WorkerPcs
<1>24. ASSUME NEW w \in Workers, Leave(w) PROVE TypeOK'
  BY <1>24 DEF Leave, TypeOK, WorkerPcs
<1>25. CASE DtorWake
  BY <1>25 DEF DtorWake, Woken, TypeOK, WorkerPcs, DtorPcs
<1>26. CASE DtorDrained
  BY <1>26 DEF DtorDrained, TypeOK, DtorPcs
<1>27. CASE DtorTimeout
  BY <1>27 DEF DtorTimeout, TypeOK, DtorPcs
<1>28. CASE DtorJoin
  BY <1>28 DEF DtorJoin, TypeOK, DtorPcs
<1>29. CASE UNCHANGED vars
  BY <1>29 DEF vars, TypeOK
<1> QED
  BY <1>1, <1>2, <1>3, <1>4, <1>5, <1>6, <1>7, <1>8, <1>9, <1>10, <1>11, <1>12,
     <1>13, <1>14, <1>15, <1>16, <1>17, <1>18, <1>19, <1>20, <1>21, <1>22, <1>23,
     <1>24, <1>25, <1>26, <1>27, <1>28, <1>29, <1>30, <1>31, <1>32
  DEF Next, AppStep, SubmitStep, WorkerStep, DtorStep, Terminated

(* No interleaving of submitters, workers, thieves, reconfiguration and    *)
(* destructor makes a variable leave its type, whatever num_threads        *)
(* UpdateConfig installs, and a worker past its pop always has a task.     *)
THEOREM TypeCorrect == Spec => []TypeOK
BY TypeInit, TypeNext, PTL DEF Spec

-----------------------------------------------------------------------------
(* Undefined behaviour.                                                    *)

(* The inductive invariant: what resized says of num_threads, and of the   *)
(* vector a thief made from it.                                            *)
ResizeInv ==
    /\ IndicesInRange
    /\ resized # "beyond" => cfg.num_threads \in 1 .. NumThreads
    /\ resized = "never" =>
          /\ cfg.num_threads = NumThreads
          /\ \A w \in Workers : wpc[w] = "steal" => nsizes[w] = NumThreads

LEMMA ResizeNext ==
    ASSUME TypeOK, ResizeInv, [Next]_vars
    PROVE  ResizeInv'
<1> USE DEF config, caller, worker
<1>1. ASSUME UNCHANGED <<cfg, resized>>,
             \A s \in Submitters : spc'[s] = "undefined" => spc[s] = "undefined",
             \A w \in Workers :
                 /\ wpc'[w] = "undefined" => wpc[w] = "undefined"
                 /\ wpc'[w] = "steal" => wpc[w] = "steal" /\ nsizes'[w] = nsizes[w]
      PROVE  ResizeInv'
  BY <1>1 DEF ResizeInv, IndicesInRange
<1>2. ASSUME NEW c \in Configs, UpdateConfig(c) PROVE ResizeInv'
  <2>1. /\ cfg' = c /\ resized' = Resize(c.num_threads)
        /\ UNCHANGED <<spc, wpc, nsizes>> /\ c.num_threads \in Nat
    BY <1>2, ThreadsType DEF UpdateConfig
  <2>2. CASE c.num_threads \notin 1 .. NumThreads
    <3>1. resized' = "beyond"
      BY <2>1, <2>2 DEF Resize
    <3> QED
      BY <3>1 DEF ResizeInv, IndicesInRange
  <2>3. CASE c.num_threads \in 1 .. NumThreads - 1 /\ resized = "never"
    <3>1. resized' = "within" /\ c.num_threads \in 1 .. NumThreads
      BY <2>1, <2>3, NumThreadsAssumption DEF Resize
    <3> QED
      BY <2>1, <2>3, <3>1 DEF ResizeInv, IndicesInRange
  <2>4. CASE /\ c.num_threads \in 1 .. NumThreads
             /\ c.num_threads = NumThreads \/ resized # "never"
    <3>1. resized' = resized
      BY <2>1, <2>4, NumThreadsAssumption DEF Resize
    <3> QED
      BY <2>1, <2>4, <3>1 DEF ResizeInv, IndicesInRange
  <2> QED
    BY <2>1, <2>2, <2>3, <2>4, NumThreadsAssumption
<1>3. ASSUME NEW s \in Submitters, SubmitUndefined(s) PROVE ResizeInv'
  <2>1. OutOfRange /\ UNCHANGED <<cfg, resized, wpc, nsizes>>
    BY <1>3 DEF SubmitUndefined
  <2>2. resized = "beyond"
    <3> SUFFICES ASSUME resized # "beyond" PROVE FALSE
      OBVIOUS
    <3>1. cfg.num_threads \in 1 .. NumThreads
      BY DEF ResizeInv
    <3>2. rr_index \in Nat /\ cfg.num_threads # 0
      BY <3>1, NumThreadsAssumption DEF TypeOK
    <3>3. RoundRobin(rr_index) \in Workers
      BY <3>1, <3>2, RoundRobinRange
    <3> QED
      BY <2>1, <3>2, <3>3 DEF OutOfRange
  <2> QED
    BY <2>1, <2>2 DEF ResizeInv, IndicesInRange
<1>4. ASSUME NEW w \in Workers, StealSizes(w) PROVE ResizeInv'
  <2>1. UNCHANGED <<cfg, resized, spc>>
    BY <1>4 DEF StealSizes
  <2>2. \A v \in Workers :
           /\ wpc'[v] = "undefined" => wpc[v] = "undefined"
           /\ wpc'[v] = "steal" => \/ nsizes'[v] = cfg.num_threads
                                   \/ wpc[v] = "steal" /\ nsizes'[v] = nsizes[v]
    <3>1. CASE cfg.mode = "WorkStealing"
      <4>1. /\ wpc' = [wpc EXCEPT ![w] = "steal"]
            /\ nsizes' = [nsizes EXCEPT ![w] = cfg.num_threads]
        BY <1>4, <3>1 DEF StealSizes
      <4> QED
        BY <4>1 DEF TypeOK
    <3>2. CASE cfg.mode # "WorkStealing"
      <4>1. wpc' = [wpc EXCEPT ![w] = "drops"] /\ nsizes' = nsizes
        BY <1>4, <3>2 DEF StealSizes
      <4> QED
        BY <4>1 DEF TypeOK
    <3> QED
      BY <3>1, <3>2
  <2> QED
    BY <2>1, <2>2 DEF ResizeInv, IndicesInRange
<1>5. ASSUME NEW w \in Workers, StealUndefined(w) PROVE ResizeInv'
  <2>1. /\ wpc[w] = "steal" /\ UNCHANGED <<cfg, resized, spc, nsizes>>
        /\ cfg.num_threads > nsizes[w] \/ cfg.num_threads > NumThreads
        /\ wpc' = [wpc EXCEPT ![w] = "undefined"]
    BY <1>5 DEF StealUndefined
  <2>2. resized # "never"
    BY <2>1, NumThreadsAssumption DEF ResizeInv
  <2> QED
    BY <2>1, <2>2 DEF ResizeInv, IndicesInRange
<1>6. CASE \/ \E s \in Submitters, t \in Tasks, k \in Kinds,
                 cancelled, expired \in BOOLEAN : Call(s, t, k, cancelled, expired)
           \/ \E s \in Submitters :
                 \/ SubmitDrop(s) \/ SubmitLoad(s) \/ SubmitIndex(s) \/ SubmitPush(s)
                 \/ SubmitCount(s)
  <2>1. UNCHANGED <<cfg, resized, wpc, nsizes>>
    BY <1>6 DEF Call, SubmitDrop, SubmitLoad, SubmitIndex, SubmitPush, SubmitCount
  <2>2. \A s \in Submitters : spc'[s] = "undefined" => spc[s] = "undefined"
    BY <1>6 DEF Call, SubmitDrop, SubmitLoad, SubmitIndex, SubmitPush, SubmitCount,
       Return, TypeOK
  <2> QED
    BY <1>1, <2>1, <2>2
<1>7. CASE DtorWake \/ \E s \in Submitters : SubmitSignal(s)
  <2>1. UNCHANGED <<cfg, resized, nsizes>> /\ wpc' = Woken
    BY <1>7 DEF DtorWake, SubmitSignal
  <2>2. \A s \in Submitters : spc'[s] = "undefined" => spc[s] = "undefined"
    BY <1>7 DEF DtorWake, SubmitSignal, Return, TypeOK
  <2> QED
    BY <1>1, <2>1, <2>2 DEF Woken
<1>8. CASE \E w \in Workers :
              \/ LoopTest(w) \/ WaitTest(w) \/ Wait(w) \/ SpuriousWakeup(w)
              \/ PopOwn(w) \/ PopEmpty(w) \/ Uncount(w)
              \/ GlobalCallbacks(w) \/ HandleDrops(w) \/ Leave(w)
              \/ \E outcome \in {"none", "cancelled", "value", "exception"} :
                    Wrappers(w, outcome)
  <2>1. UNCHANGED <<cfg, resized, spc, nsizes>>
    BY <1>8 DEF LoopTest, WaitTest, Wait, SpuriousWakeup, PopOwn, PopEmpty, Uncount,
       GlobalCallbacks, HandleDrops, Leave, Wrappers
  <2>2. \E w \in Workers : \E pc \in WorkerPcs \ {"undefined", "steal"} :
           wpc' = [wpc EXCEPT ![w] = pc]
    BY <1>8 DEF LoopTest, WaitTest, Wait, SpuriousWakeup, PopOwn, PopEmpty, Uncount,
       GlobalCallbacks, HandleDrops, Leave, Wrappers, WorkerPcs
  <2> QED
    BY <1>1, <2>1, <2>2 DEF TypeOK
<1>9. ASSUME NEW w \in Workers, NEW vic \in Workers,
             StealBack(w, vic) \/ StealNothing(w, vic)
      PROVE  ResizeInv'
  <2>1. /\ UNCHANGED <<cfg, resized, spc>> /\ nsizes' = [nsizes EXCEPT ![w] = 0]
        /\ \/ wpc' = [wpc EXCEPT ![w] = "uncount"]
           \/ wpc' = [wpc EXCEPT ![w] = "drops"]
    BY <1>9 DEF StealBack, StealNothing
  <2> QED
    BY <1>1, <2>1 DEF TypeOK
<1>10. CASE \/ \E t \in Tasks : Cancel(t)
            \/ GetDroppedCount \/ DtorStop \/ DtorDrained \/ DtorTimeout \/ DtorJoin
            \/ UNCHANGED vars
  <2>1. UNCHANGED <<cfg, resized, spc, wpc, nsizes>>
    BY <1>10 DEF Cancel, GetDroppedCount, DtorStop, DtorDrained, DtorTimeout, DtorJoin,
       vars
  <2> QED
    BY <1>1, <2>1
<1> QED
  BY <1>2, <1>3, <1>4, <1>5, <1>6, <1>7, <1>8, <1>9, <1>10
  DEF Next, AppStep, SubmitStep, WorkerStep, DtorStep, Terminated

(* Whatever is installed meanwhile, SubmitImpl divides by zero or leaves   *)
(* queues_ only after a num_threads that is zero or larger than at         *)
(* construction, and a thief only after num_threads was changed.           *)
THEOREM UndefinedOnlyAfterResize == Spec => []IndicesInRange
<1>1. Init => ResizeInv
  BY NumThreadsAssumption DEF Init, ResizeInv, IndicesInRange
<1>2. TypeOK /\ ResizeInv /\ [Next]_vars => ResizeInv'
  BY ResizeNext
<1>3. ResizeInv => IndicesInRange
  BY DEF ResizeInv
<1> QED
  BY <1>1, <1>2, <1>3, TypeInit, TypeNext, PTL DEF Spec

-----------------------------------------------------------------------------
(* The counter and the bound on the queues.                                *)

(* A size_t that holds n, for n not far below zero.                        *)
Wrap(n) == IF n < 0 THEN n + SizeMod ELSE n

Cap == QueueCap + Cardinality(Submitters)

(* The counter is what the queues say, whether the breaker is on or not.   *)
CounterFits == IsFiniteSet(Slots) /\ tasks_in_queue = Wrap(Backlog)

(* The inductive invariant when it is on.  The bound counts the tasks of   *)
(* the queues, the ones a worker took and has not discounted yet, and the  *)
(* ones whose submitter passed the breaker: each moves from one group to   *)
(* the next.                                                               *)
CounterInv ==
    /\ CounterFits
    /\ Cardinality(Slots) + Cardinality(Popped) + Cardinality(Admitted) < Cap
    /\ high_water_mark < Cap

LEMMA SlotsMember ==
    \A p : p \in Slots
        <=> \E w \in Workers : \E i \in 1 .. Len(queues[w]) : p = <<w, i>>
BY DEF Slots

(* The groups of submitters and workers are finite and disjoint.           *)
LEMMA GroupSizes ==
    /\ IsFiniteSet(Pushed) /\ IsFiniteSet(Admitted) /\ IsFiniteSet(Popped)
    /\ Cardinality(Pushed) \in Nat
    /\ Cardinality(Admitted) \in Nat
    /\ Cardinality(Popped) \in Nat
    /\ Cardinality(Submitters) \in Nat
    /\ Cardinality(Pushed) + Cardinality(Admitted) <= Cardinality(Submitters)
    /\ Cardinality(Popped) <= NumThreads
<1>1. Pushed \in SUBSET Submitters /\ Admitted \in SUBSET Submitters
  BY DEF Pushed, Admitted
<1>2. IsFiniteSet(Workers) /\ Cardinality(Workers) = NumThreads
  BY NumThreadsAssumption, FS_Interval DEF Workers
<1>3. Popped \in SUBSET Workers
  BY DEF Popped
<1>4. IsFiniteSet(Pushed) /\ IsFiniteSet(Admitted) /\ IsFiniteSet(Popped)
  BY <1>1, <1>2, <1>3, SubmittersAssumption, FS_Subset
<1>5. Cardinality(Popped) <= NumThreads
  BY <1>2, <1>3, FS_Subset
<1>6. /\ Cardinality(Pushed) \in Nat
      /\ Cardinality(Admitted) \in Nat
      /\ Cardinality(Popped) \in Nat
      /\ Cardinality(Submitters) \in Nat
  BY <1>4, SubmittersAssumption, FS_CardinalityType
<1>7. Cardinality(Pushed \cup Admitted) = Cardinality(Pushed) + Cardinality(Admitted)
  <2>1. Pushed \cap Admitted = {}
    BY DEF Pushed, Admitted
  <2>2. Cardinality(Pushed \cup Admitted)
           = Cardinality(Pushed) + Cardinality(Admitted) - Cardinality(Pushed \cap Admitted)
    BY <1>4, FS_Union
  <2>3. Cardinality(Pushed \cap Admitted) = 0
    BY <2>1, FS_EmptySet
  <2> QED
    BY <1>6, <2>2, <2>3
<1>8. Cardinality(Pushed \cup Admitted) <= Cardinality(Submitters)
  <2>1. Pushed \cup Admitted \in SUBSET Submitters
    BY <1>1
  <2> QED
    BY <2>1, SubmittersAssumption, FS_Subset
<1> QED
  BY <1>4, <1>5, <1>6, <1>7, <1>8

(* A step that changes neither the queues nor the groups.                  *)
LEMMA CounterStutter ==
    ASSUME CounterInv,
           UNCHANGED <<queues, tasks_in_queue, high_water_mark>>,
           Pushed' = Pushed, Admitted' = Admitted, Popped' = Popped
    PROVE  CounterInv'
<1>1. Slots' = Slots
  BY DEF Slots
<1> QED
  BY <1>1 DEF CounterInv, CounterFits, Backlog

(* fetch_add and fetch_sub on a size_t that holds n.                       *)
LEMMA WrapStep ==
    ASSUME NEW n \in Int, n >= -Cardinality(Submitters), n < Cap + NumThreads
    PROVE  /\ n + 1 <= Cap + NumThreads => Inc(Wrap(n)) = Wrap(n + 1)
           /\ n - 1 >= -Cardinality(Submitters) => Dec(Wrap(n)) = Wrap(n - 1)
<1>1. Cardinality(Submitters) \in Nat
  BY GroupSizes
<1> QED
  BY <1>1, SizeModAssumption, ConfigsAssumption, NumThreadsAssumption
  DEF Inc, Dec, Wrap, Cap

(* One more task in one queue is one more slot.                            *)
LEMMA SlotAdded ==
    ASSUME TypeOK, IsFiniteSet(Slots),
           NEW w \in Workers, NEW q \in Seq(Tasks),
           queues' = [queues EXCEPT ![w] = q],
           Len(q) = Len(queues[w]) + 1
    PROVE  IsFiniteSet(Slots') /\ Cardinality(Slots') = Cardinality(Slots) + 1
<1>1. /\ Len(queues[w]) \in Nat
      /\ queues'[w] = q
      /\ \A v \in Workers : v # w => queues'[v] = queues[v]
  BY DEF TypeOK
<1>2. 1 .. Len(q) = (1 .. Len(queues[w])) \cup {Len(q)}
  BY <1>1
<1>3. Slots' = Slots \cup {<<w, Len(q)>>}
  BY <1>1, <1>2 DEF Slots
<1>4. <<w, Len(q)>> \notin Slots
  BY <1>1, SlotsMember
<1> QED
  BY <1>3, <1>4, FS_AddElement

(* One task less in one queue is one slot less.                            *)
LEMMA SlotRemoved ==
    ASSUME TypeOK, IsFiniteSet(Slots),
           NEW w \in Workers, NEW q \in Seq(Tasks),
           queues' = [queues EXCEPT ![w] = q],
           queues[w] # <<>>,
           Len(q) = Len(queues[w]) - 1
    PROVE  IsFiniteSet(Slots') /\ Cardinality(Slots') = Cardinality(Slots) - 1
<1>1. /\ Len(queues[w]) \in Nat
      /\ queues'[w] = q
      /\ \A v \in Workers : v # w => queues'[v] = queues[v]
  BY DEF TypeOK
<1>2. Len(queues[w]) \in Nat \ {0}
  BY EmptySeq DEF TypeOK
<1>3. 1 .. Len(q) = (1 .. Len(queues[w])) \ {Len(queues[w])}
  BY <1>2
<1>4. <<w, Len(queues[w])>> \in Slots
  BY <1>2, SlotsMember
<1>5. Slots' = Slots \ {<<w, Len(queues[w])>>}
  BY <1>1, <1>3 DEF Slots
<1> QED
  BY <1>4, <1>5, FS_RemoveElement

(* No queue is longer than all of them.                                    *)
LEMMA QueueWithinSlots ==
    ASSUME TypeOK, IsFiniteSet(Slots), NEW w \in Workers
    PROVE  Len(queues[w]) <= Cardinality(Slots)
<1>1. Len(queues[w]) \in Nat
  BY DEF TypeOK
<1>2. {w} \X (1 .. Len(queues[w])) \in SUBSET Slots
  BY DEF Slots
<1>3. Cardinality({w} \X (1 .. Len(queues[w]))) <= Cardinality(Slots)
  BY <1>2, FS_Subset
<1>4. IsFiniteSet(1 .. Len(queues[w])) /\ Cardinality(1 .. Len(queues[w])) = Len(queues[w])
  BY <1>1, FS_Interval
<1>5. IsFiniteSet({w}) /\ Cardinality({w}) = 1
  BY FS_Singleton
<1>6. Cardinality({w} \X (1 .. Len(queues[w]))) = 1 * Len(queues[w])
  BY <1>4, <1>5, FS_Product
<1> QED
  BY <1>1, <1>3, <1>6

LEMMA CounterInit ==
    ASSUME BreakerOn, Init
    PROVE  CounterInv
<1>1. QueueCap \in Nat /\ QueueCap > 0
  <2>1. PICK c \in Configs : TRUE
    BY ConfigsAssumption
  <2>2. c.max_queue_size \in 0 .. QueueCap /\ c.max_queue_size # 0
    BY ConfigsAssumption DEF BreakerOn, ConfigType
  <2> QED
    BY <2>2, ConfigsAssumption
<1>2. Slots = {} /\ Pushed = {} /\ Admitted = {} /\ Popped = {}
  BY DEF Init, Slots, Pushed, Admitted, Popped
<1>3. IsFiniteSet({}) /\ Cardinality({}) = 0
  BY FS_EmptySet
<1>4. Cardinality(Submitters) \in Nat
  BY GroupSizes
<1> QED
  BY <1>1, <1>2, <1>3, <1>4 DEF Init, CounterInv, CounterFits, Backlog, Wrap, Cap

(* The breaker lets a submitter through only while there is room for its   *)
(* task, whatever the other submitters have in flight.                     *)
LEMMA LoadCounter ==
    ASSUME BreakerOn, TypeOK, CounterInv, NEW s \in Submitters, SubmitLoad(s)
    PROVE  CounterInv'
<1> USE DEF config, pool, worker
<1>1. /\ spc[s] = "load"
      /\ ~Full(tasks_in_queue)
      /\ spc' = [spc EXCEPT ![s] = "index"]
      /\ UNCHANGED <<queues, tasks_in_queue, high_water_mark, wpc>>
  BY DEF SubmitLoad
<1>2. /\ cfg.enable_circuit_breaker
      /\ cfg.max_queue_size # 0
      /\ cfg.max_queue_size \in 0 .. QueueCap
  BY ConfigsAssumption DEF TypeOK, BreakerOn, ConfigType
<1>3. tasks_in_queue < QueueCap /\ tasks_in_queue \in Nat
  BY <1>1, <1>2, ConfigsAssumption, SizeModAssumption DEF Full, TypeOK
<1>4. Slots' = Slots /\ Popped' = Popped
  BY <1>1 DEF Slots, Popped
<1>5. Pushed' = Pushed
  BY <1>1 DEF Pushed, TypeOK
<1>6. Admitted' = Admitted \cup {s} /\ s \notin Admitted
  BY <1>1 DEF Admitted, TypeOK
<1>7. Cardinality(Admitted') = Cardinality(Admitted) + 1
  BY <1>6, GroupSizes, FS_AddElement
<1>8. Cardinality(Pushed) + Cardinality(Admitted') <= Cardinality(Submitters)
  <2>1. (Pushed \cup Admitted') \in SUBSET Submitters
    BY DEF Pushed, Admitted
  <2>2. IsFiniteSet(Admitted')
    BY <1>6, GroupSizes, FS_AddElement
  <2>3. Pushed \cap Admitted' = {}
    BY <1>5 DEF Pushed, Admitted
  <2>4. Cardinality(Pushed \cup Admitted')
           = Cardinality(Pushed) + Cardinality(Admitted') - Cardinality(Pushed \cap Admitted')
    BY <2>2, GroupSizes, FS_Union
  <2>5. Cardinality(Pushed \cap Admitted') = 0
    BY <2>3, FS_EmptySet
  <2>6. Cardinality(Pushed \cup Admitted') <= Cardinality(Submitters)
    BY <2>1, SubmittersAssumption, FS_Subset
  <2>7. Cardinality(Admitted') \in Nat
    BY <2>2, FS_CardinalityType
  <2> QED
    BY <2>4, <2>5, <2>6, <2>7, GroupSizes
<1>9. Cardinality(Slots) \in Nat
  BY FS_CardinalityType DEF CounterInv, CounterFits
<1>10. Backlog < QueueCap
  <2>1. Backlog \in Int /\ Backlog >= -Cardinality(Submitters)
    BY <1>9, GroupSizes DEF Backlog
  <2>2. tasks_in_queue = Wrap(Backlog)
    BY DEF CounterInv, CounterFits
  <2> QED
    BY <1>3, <2>1, <2>2, GroupSizes, SizeModAssumption, ConfigsAssumption,
       NumThreadsAssumption
    DEF Wrap
<1>11. Cardinality(Slots) + Cardinality(Popped) + Cardinality(Admitted') < Cap
  BY <1>8, <1>9, <1>10, <1>7, GroupSizes, ConfigsAssumption DEF Backlog, Cap
<1> QED
  BY <1>1, <1>4, <1>5, <1>11 DEF CounterInv, CounterFits, Backlog

LEMMA PushCounter ==
    ASSUME BreakerOn, TypeOK, CounterInv, NEW s \in Submitters, SubmitPush(s)
    PROVE  CounterInv'
<1> USE DEF config, pool, worker
<1> DEFINE q == PushBack(queues[idx[s]], item[s])
<1>1. /\ spc[s] = "push"
      /\ queues' = [queues EXCEPT ![idx[s]] = q]
      /\ high_water_mark' = IF Len(q) > high_water_mark THEN Len(q) ELSE high_water_mark
      /\ spc' = [spc EXCEPT ![s] = "count"]
      /\ UNCHANGED <<tasks_in_queue, wpc>>
  BY DEF SubmitPush
<1>2. q \in Seq(Tasks) /\ Len(q) = Len(queues[idx[s]]) + 1 /\ idx[s] \in Workers
  BY <1>1 DEF PushBack, TypeOK
<1> HIDE DEF q
<1>3. IsFiniteSet(Slots') /\ Cardinality(Slots') = Cardinality(Slots) + 1
  BY <1>1, <1>2, SlotAdded DEF CounterInv, CounterFits
<1>4. Popped' = Popped
  BY <1>1 DEF Popped
<1>5. Pushed' = Pushed \cup {s} /\ s \notin Pushed
  BY <1>1 DEF Pushed, TypeOK
<1>6. Admitted' = Admitted \ {s} /\ s \in Admitted
  BY <1>1 DEF Admitted, TypeOK
<1>7. Cardinality(Pushed') = Cardinality(Pushed) + 1
  BY <1>5, GroupSizes, FS_AddElement
<1>8. Cardinality(Admitted') = Cardinality(Admitted) - 1
  BY <1>6, GroupSizes, FS_RemoveElement
<1>9. Cardinality(Slots) \in Nat
  BY FS_CardinalityType DEF CounterInv, CounterFits
<1>10. Backlog' = Backlog
  BY <1>3, <1>4, <1>7, <1>9, GroupSizes DEF Backlog
<1>11. Cardinality(Slots') + Cardinality(Popped') + Cardinality(Admitted') < Cap
  BY <1>3, <1>4, <1>8, <1>9, GroupSizes, ConfigsAssumption DEF CounterInv, CounterFits, Cap
<1>12. Len(q) <= Cardinality(Slots')
  <2>1. Len(queues[idx[s]]) <= Cardinality(Slots) /\ Len(queues[idx[s]]) \in Nat
    BY <1>2, QueueWithinSlots DEF CounterInv, CounterFits, TypeOK
  <2> QED
    BY <1>2, <1>3, <1>9, <2>1
<1>13. Cardinality(Admitted') \in Nat /\ Cardinality(Popped') \in Nat
  BY <1>4, <1>6, GroupSizes, FS_RemoveElement, FS_CardinalityType
<1>14. high_water_mark' < Cap
  <2>1. Cap \in Nat
    BY GroupSizes, ConfigsAssumption DEF Cap
  <2>2. Len(q) \in Nat /\ Cardinality(Slots') \in Nat
    BY <1>2, <1>3, <1>9
  <2>3. Len(q) < Cap
    BY <1>11, <1>12, <1>13, <2>1, <2>2
  <2> QED
    BY <1>1, <2>3 DEF CounterInv, CounterFits
<1> QED
  BY <1>1, <1>3, <1>10, <1>11, <1>14 DEF CounterInv, CounterFits

LEMMA CountCounter ==
    ASSUME BreakerOn, TypeOK, CounterInv, NEW s \in Submitters, SubmitCount(s)
    PROVE  CounterInv'
<1> USE DEF config, pool, worker
<1>1. /\ spc[s] = "count"
      /\ tasks_in_queue' = Inc(tasks_in_queue)
      /\ spc' = [spc EXCEPT ![s] = "signal"]
      /\ UNCHANGED <<queues, high_water_mark, wpc>>
  BY DEF SubmitCount
<1>2. Slots' = Slots /\ Popped' = Popped
  BY <1>1 DEF Slots, Popped
<1>3. Pushed' = Pushed \ {s} /\ s \in Pushed
  BY <1>1 DEF Pushed, TypeOK
<1>4. Admitted' = Admitted
  BY <1>1 DEF Admitted, TypeOK
<1>5. Cardinality(Pushed') = Cardinality(Pushed) - 1
  BY <1>3, GroupSizes, FS_RemoveElement
<1>6. Cardinality(Slots) \in Nat
  BY FS_CardinalityType DEF CounterInv, CounterFits
<1>7. /\ Backlog \in Int
      /\ Backlog' = Backlog + 1
      /\ Backlog >= -Cardinality(Submitters)
      /\ Backlog < Cap
  BY <1>2, <1>5, <1>6, GroupSizes, ConfigsAssumption DEF Backlog, CounterInv, CounterFits, Cap
<1>8. Cap \in Nat
  BY GroupSizes, ConfigsAssumption DEF Cap
<1>9. Inc(Wrap(Backlog)) = Wrap(Backlog + 1)
  BY <1>7, <1>8, NumThreadsAssumption, WrapStep
<1> QED
  BY <1>1, <1>2, <1>4, <1>7, <1>9 DEF CounterInv, CounterFits

(* A worker takes a task from its own queue or from a victim's, and q is   *)
(* what it leaves.                                                         *)
Takes(w, v, q) ==
    /\ wpc[w] # "uncount"
    /\ wpc' = [wpc EXCEPT ![w] = "uncount"]
    /\ queues' = [queues EXCEPT ![v] = q]
    /\ queues[v] # <<>>
    /\ Len(q) = Len(queues[v]) - 1
    /\ UNCHANGED <<tasks_in_queue, high_water_mark, spc>>

LEMMA TakeCounter ==
    ASSUME BreakerOn, TypeOK, CounterInv,
           NEW w \in Workers, NEW v \in Workers, NEW q \in Seq(Tasks), Takes(w, v, q)
    PROVE  CounterInv'
<1> USE DEF Takes
<1>1. IsFiniteSet(Slots') /\ Cardinality(Slots') = Cardinality(Slots) - 1
  BY SlotRemoved DEF CounterInv, CounterFits
<1>2. Pushed' = Pushed /\ Admitted' = Admitted
  BY DEF Pushed, Admitted
<1>3. Popped' = Popped \cup {w} /\ w \notin Popped
  BY DEF Popped, TypeOK
<1>4. Cardinality(Popped') = Cardinality(Popped) + 1
  BY <1>3, GroupSizes, FS_AddElement
<1>5. Cardinality(Slots) \in Nat
  BY FS_CardinalityType DEF CounterInv, CounterFits
<1>6. Backlog' = Backlog
  BY <1>1, <1>2, <1>4, <1>5, GroupSizes DEF Backlog
<1>7. Cardinality(Slots') + Cardinality(Popped') + Cardinality(Admitted') < Cap
  BY <1>1, <1>2, <1>4, <1>5, GroupSizes DEF CounterInv, CounterFits
<1> QED
  BY <1>1, <1>6, <1>7 DEF CounterInv, CounterFits

LEMMA UncountCounter ==
    ASSUME BreakerOn, TypeOK, CounterInv, NEW w \in Workers, Uncount(w)
    PROVE  CounterInv'
<1> USE DEF caller
<1>1. /\ wpc[w] = "uncount"
      /\ tasks_in_queue' = Dec(tasks_in_queue)
      /\ wpc' = [wpc EXCEPT ![w] = "callbacks"]
      /\ UNCHANGED <<queues, high_water_mark, spc>>
  BY DEF Uncount
<1>2. Slots' = Slots /\ Pushed' = Pushed /\ Admitted' = Admitted
  BY <1>1 DEF Slots, Pushed, Admitted
<1>3. Popped' = Popped \ {w} /\ w \in Popped
  BY <1>1 DEF Popped, TypeOK
<1>4. Cardinality(Popped') = Cardinality(Popped) - 1 /\ Cardinality(Popped') \in Nat
  BY <1>3, GroupSizes, FS_RemoveElement, FS_CardinalityType
<1>5. Cardinality(Slots) \in Nat
  BY FS_CardinalityType DEF CounterInv, CounterFits
<1>6. Cap \in Nat
  BY GroupSizes, ConfigsAssumption DEF Cap
<1>7. /\ Backlog \in Int
      /\ Backlog' = Backlog - 1
      /\ Backlog - 1 >= -Cardinality(Submitters)
      /\ Backlog < Cap
  BY <1>2, <1>4, <1>5, <1>6, GroupSizes DEF Backlog, CounterInv, CounterFits
<1>8. Dec(Wrap(Backlog)) = Wrap(Backlog - 1)
  BY <1>6, <1>7, GroupSizes, NumThreadsAssumption, WrapStep
<1>9. Cardinality(Slots') + Cardinality(Popped') + Cardinality(Admitted') < Cap
  BY <1>2, <1>4, <1>5, <1>6, GroupSizes DEF CounterInv, CounterFits
<1> QED
  BY <1>1, <1>2, <1>7, <1>8, <1>9 DEF CounterInv, CounterFits

(* The steps that touch the counter, a queue or one of the groups; the     *)
(* others leave all of them alone.                                         *)
Same ==
    /\ UNCHANGED <<queues, tasks_in_queue, high_water_mark>>
    /\ Pushed' = Pushed /\ Admitted' = Admitted /\ Popped' = Popped

Counting ==
    \/ \E s \in Submitters : SubmitLoad(s) \/ SubmitPush(s) \/ SubmitCount(s)
    \/ \E w \in Workers : Uncount(w)
    \/ \E w, v \in Workers : \E q \in Seq(Tasks) : Takes(w, v, q)

LEMMA CounterSplit ==
    ASSUME TypeOK, [Next]_vars
    PROVE  Same \/ Counting
<1> USE DEF config, pool, caller, worker
<1>1. ASSUME NEW s \in Submitters, NEW t \in Tasks, NEW k \in Kinds,
             NEW cancelled \in BOOLEAN, NEW expired \in BOOLEAN,
             Call(s, t, k, cancelled, expired)
      PROVE  Same
  <2>1. /\ UNCHANGED <<queues, tasks_in_queue, high_water_mark, wpc>>
        /\ spc[s] = "idle"
        /\ UNCHANGED spc \/ spc' = [spc EXCEPT ![s] = "load"]
    BY <1>1 DEF Call
  <2> QED
    BY <2>1 DEF Same, Pushed, Admitted, Popped, TypeOK
<1>2. ASSUME NEW t \in Tasks, Cancel(t) PROVE Same
  BY <1>2 DEF Cancel, Same, Pushed, Admitted, Popped
<1>3. ASSUME NEW c \in Configs, UpdateConfig(c) PROVE Same
  BY <1>3 DEF UpdateConfig, Same, Pushed, Admitted, Popped
<1>4. CASE GetDroppedCount
  BY <1>4 DEF GetDroppedCount, Same, Pushed, Admitted, Popped
<1>5. CASE DtorStop \/ DtorDrained \/ DtorTimeout \/ DtorJoin
  BY <1>5 DEF DtorStop, DtorDrained, DtorTimeout, DtorJoin,
              Same, Pushed, Admitted, Popped
<1>6. CASE DtorWake
  BY <1>6 DEF DtorWake, Woken, Same, Pushed, Admitted, Popped, TypeOK
<1>7. ASSUME NEW s \in Submitters,
             SubmitDrop(s) \/ SubmitIndex(s) \/ SubmitUndefined(s)
      PROVE  Same
  BY <1>7 DEF SubmitDrop, SubmitIndex, SubmitUndefined, Return,
              Same, Pushed, Admitted, Popped, TypeOK
<1>8. ASSUME NEW s \in Submitters, SubmitSignal(s) PROVE Same
  BY <1>8 DEF SubmitSignal, Return, Woken, Same, Pushed, Admitted, Popped, TypeOK
<1>9. ASSUME NEW w \in Workers,
             \/ LoopTest(w) \/ WaitTest(w) \/ Wait(w) \/ SpuriousWakeup(w)
             \/ PopEmpty(w) \/ StealSizes(w) \/ StealUndefined(w)
      PROVE  Same
  BY <1>9 DEF LoopTest, WaitTest, Wait, SpuriousWakeup, PopEmpty, StealSizes, StealUndefined,
              Same, Pushed, Admitted, Popped, TypeOK
<1>10. ASSUME NEW w \in Workers, NEW vic \in Workers, StealNothing(w, vic) PROVE Same
  BY <1>10 DEF StealNothing, Same, Pushed, Admitted, Popped, TypeOK
<1>11. ASSUME NEW w \in Workers, GlobalCallbacks(w) \/ HandleDrops(w) \/ Leave(w)
       PROVE  Same
  BY <1>11 DEF GlobalCallbacks, HandleDrops, Leave, Same, Pushed, Admitted, Popped, TypeOK
<1>12. ASSUME NEW w \in Workers,
              NEW outcome \in {"none", "cancelled", "value", "exception"},
              Wrappers(w, outcome)
       PROVE  Same
  BY <1>12 DEF Wrappers, Same, Pushed, Admitted, Popped, TypeOK
<1>13. CASE UNCHANGED vars
  BY <1>13 DEF vars, Same, Pushed, Admitted, Popped
<1>14. ASSUME NEW w \in Workers, PopOwn(w) PROVE Counting
  <2>1. Tail(queues[w]) \in Seq(Tasks) /\ Len(Tail(queues[w])) = Len(queues[w]) - 1
    BY <1>14, HeadTailProperties DEF PopOwn, TypeOK
  <2>2. /\ wpc[w] # "uncount"
        /\ wpc' = [wpc EXCEPT ![w] = "uncount"]
        /\ queues' = [queues EXCEPT ![w] = Tail(queues[w])]
        /\ queues[w] # <<>>
        /\ UNCHANGED <<tasks_in_queue, high_water_mark, spc>>
    BY <1>14 DEF PopOwn
  <2> QED
    BY <2>1, <2>2 DEF Takes, Counting
<1>15. ASSUME NEW w \in Workers, NEW vic \in Workers, StealBack(w, vic)
       PROVE  Counting
  <2>1. /\ PopBack(queues[vic]) \in Seq(Tasks)
        /\ Len(PopBack(queues[vic])) = Len(queues[vic]) - 1
    BY <1>15, PopBackType DEF StealBack, TypeOK
  <2>2. /\ wpc[w] # "uncount"
        /\ wpc' = [wpc EXCEPT ![w] = "uncount"]
        /\ queues' = [queues EXCEPT ![vic] = PopBack(queues[vic])]
        /\ queues[vic] # <<>>
        /\ UNCHANGED <<tasks_in_queue, high_water_mark, spc>>
    BY <1>15 DEF StealBack
  <2> QED
    BY <2>1, <2>2 DEF Takes, Counting
<1>16. CASE AppStep
  BY <1>1, <1>2, <1>3, <1>4, <1>5, <1>16 DEF AppStep
<1>17. ASSUME NEW s \in Submitters, SubmitStep(s) PROVE Same \/ Counting
  BY <1>7, <1>8, <1>17 DEF SubmitStep, Counting
<1>18. ASSUME NEW w \in Workers, WorkerStep(w) PROVE Same \/ Counting
  BY <1>9, <1>10, <1>11, <1>12, <1>14, <1>15, <1>18 DEF WorkerStep, Counting
<1> QED
  BY <1>5, <1>6, <1>9, <1>13, <1>16, <1>17, <1>18 DEF Next, DtorStep, Terminated

LEMMA CounterNext ==
    ASSUME BreakerOn, TypeOK, CounterInv, [Next]_vars
    PROVE  CounterInv'
<1>1. CASE Same
  BY <1>1, CounterStutter DEF Same
<1>2. CASE Counting
  BY <1>2, LoadCounter, PushCounter, CountCounter, UncountCounter, TakeCounter DEF Counting
<1> QED
  BY <1>1, <1>2, CounterSplit

LEMMA CounterInvariant ==
    ASSUME BreakerOn
    PROVE  Spec => [](TypeOK /\ CounterInv)
<1>1. Init => TypeOK /\ CounterInv
  BY TypeInit, CounterInit
<1>2. TypeOK /\ CounterInv /\ [Next]_vars => (TypeOK /\ CounterInv)'
  BY TypeNext, CounterNext
<1> QED
  BY <1>1, <1>2, PTL DEF Spec

(* tasks_in_queue_ never drifts from the queues, whatever the number of    *)
(* workers, submitters and tasks and whatever order the deque operations   *)
(* and the separate counter updates interleave in.                         *)
THEOREM CounterNeverDrifts == Spec => []CounterExact
<1>1. CASE ~BreakerOn
  <2>1. CounterExact
    BY <1>1 DEF CounterExact
  <2> QED
    BY <2>1, PTL
<1>2. CASE BreakerOn
  <2>1. CounterInv => CounterExact
    BY DEF CounterInv, CounterFits, CounterExact, Wrap
  <2> QED
    BY <1>2, <2>1, CounterInvariant, PTL
<1> QED
  BY <1>1, <1>2

(* The check-then-act circuit breaker of SubmitImpl overshoots             *)
(* max_queue_size by less than the number of submitting threads.           *)
THEOREM QueuesStayBounded == Spec => []QueueBound
<1>1. CASE ~BreakerOn
  <2>1. QueueBound
    BY <1>1 DEF QueueBound
  <2> QED
    BY <2>1, PTL
<1>2. CASE BreakerOn
  <2>1. CounterInv => QueueBound
    <3> SUFFICES ASSUME CounterInv PROVE QueueBound
      OBVIOUS
    <3>1. Cardinality(Slots) \in Nat /\ Cap \in Nat
      BY FS_CardinalityType, GroupSizes, ConfigsAssumption DEF CounterInv, CounterFits, Cap
    <3>2. Cardinality(Slots) < Cap /\ high_water_mark < Cap
      BY <3>1, GroupSizes DEF CounterInv, CounterFits
    <3> QED
      BY <3>2 DEF QueueBound, Cap
  <2> QED
    BY <1>2, <2>1, CounterInvariant, PTL
<1> QED
  BY <1>1, <1>2

-----------------------------------------------------------------------------
(* Sleeping workers.                                                       *)

(* When the counter is zero and a worker is about to discount a task, some *)
(* submitter has pushed a task and not counted it: the wrap-around below   *)
(* zero always has a signal to come.                                       *)
LEMMA WrapHasSignal ==
    ASSUME CounterFits, TypeOK, tasks_in_queue = 0, NEW w \in Workers,
           wpc[w] = "uncount"
    PROVE  \E s \in Submitters : spc[s] = "count"
<1>1. Cardinality(Slots) \in Nat
  BY FS_CardinalityType DEF CounterFits
<1>2. Backlog \in Int /\ Backlog >= -Cardinality(Submitters)
  BY <1>1, GroupSizes DEF Backlog
<1>3. Backlog = 0
  BY <1>2, GroupSizes, SizeModAssumption, ConfigsAssumption, NumThreadsAssumption
  DEF CounterFits, Wrap
<1>4. Cardinality(Popped) # 0
  <2>1. Popped # {}
    BY DEF Popped
  <2> QED
    BY <2>1, GroupSizes, FS_EmptySet
<1>5. Cardinality(Pushed) # 0
  BY <1>1, <1>3, <1>4, GroupSizes DEF Backlog
<1>6. Pushed # {}
  BY <1>5, FS_EmptySet
<1> QED
  BY <1>6 DEF Pushed

LEMMA WakeupNext ==
    ASSUME TypeOK, CounterFits, NoLostWakeup, [Next]_vars
    PROVE  NoLostWakeup'
<1> USE DEF config, pool, caller, worker
<1> DEFINE Sleeping == \E w \in Workers : wpc[w] \in {"wait", "asleep"}
           Coming == \E s \in Submitters : spc[s] \in {"count", "signal"}
<1>1. ASSUME NEW s \in Submitters, NEW t \in Tasks, NEW k \in Kinds,
             NEW cancelled \in BOOLEAN, NEW expired \in BOOLEAN,
             Call(s, t, k, cancelled, expired)
      PROVE  NoLostWakeup'
  <2>1. /\ UNCHANGED <<tasks_in_queue, wpc>>
        /\ spc[s] = "idle"
        /\ UNCHANGED spc \/ spc' = [spc EXCEPT ![s] = "load"]
    BY <1>1 DEF Call
  <2> QED
    BY <2>1 DEF NoLostWakeup, TypeOK
<1>2. ASSUME NEW t \in Tasks, Cancel(t) PROVE NoLostWakeup'
  BY <1>2 DEF Cancel, NoLostWakeup
<1>3. ASSUME NEW c \in Configs, UpdateConfig(c) PROVE NoLostWakeup'
  BY <1>3 DEF UpdateConfig, NoLostWakeup
<1>4. CASE GetDroppedCount
  BY <1>4 DEF GetDroppedCount, NoLostWakeup
<1>5. CASE DtorStop \/ DtorDrained \/ DtorTimeout \/ DtorJoin
  BY <1>5 DEF DtorStop, DtorDrained, DtorTimeout, DtorJoin, NoLostWakeup
<1>6. CASE DtorWake
  BY <1>6 DEF DtorWake, Woken, NoLostWakeup, TypeOK
<1>7. ASSUME NEW s \in Submitters,
             SubmitDrop(s) \/ SubmitLoad(s) \/ SubmitIndex(s) \/ SubmitUndefined(s)
      PROVE  NoLostWakeup'
  <2>1. UNCHANGED <<tasks_in_queue, wpc>>
    BY <1>7 DEF SubmitDrop, SubmitLoad, SubmitIndex, SubmitUndefined
  <2>2. Coming => Coming'
    BY <1>7 DEF SubmitDrop, SubmitLoad, SubmitIndex, SubmitUndefined, Return, TypeOK
  <2> QED
    BY <2>1, <2>2 DEF NoLostWakeup
<1>8. ASSUME NEW s \in Submitters, SubmitPush(s) \/ SubmitCount(s) PROVE NoLostWakeup'
  <2>1. spc'[s] \in {"count", "signal"}
    BY <1>8 DEF SubmitPush, SubmitCount, TypeOK
  <2> QED
    BY <2>1 DEF NoLostWakeup
<1>9. ASSUME NEW s \in Submitters, SubmitSignal(s) PROVE NoLostWakeup'
  <2>1. ~Sleeping'
    BY <1>9 DEF SubmitSignal, MutexFree, Woken, TypeOK
  <2> QED
    BY <2>1 DEF NoLostWakeup
<1>10. ASSUME NEW w \in Workers, WaitTest(w) PROVE NoLostWakeup'
  <2>1. UNCHANGED <<tasks_in_queue, spc>>
    BY <1>10 DEF WaitTest
  <2>2. CASE tasks_in_queue = 0
    BY <2>1, <2>2 DEF NoLostWakeup
  <2>3. CASE tasks_in_queue # 0
    <3>1. wpc' = [wpc EXCEPT ![w] = "pop"]
      BY <1>10, <2>3 DEF WaitTest, MustWait
    <3>2. Sleeping' => Sleeping
      BY <3>1 DEF TypeOK
    <3> QED
      BY <2>1, <3>2 DEF NoLostWakeup
  <2> QED
    BY <2>2, <2>3
<1>11. ASSUME NEW w \in Workers, Uncount(w) PROVE NoLostWakeup'
  <2>1. Sleeping' => Sleeping
    BY <1>11 DEF Uncount, TypeOK
  <2>2. UNCHANGED spc
    BY <1>11 DEF Uncount
  <2>3. CASE tasks_in_queue = 0
    BY <1>11, <2>2, <2>3, WrapHasSignal DEF Uncount, NoLostWakeup
  <2>4. CASE tasks_in_queue # 0
    BY <2>1, <2>2, <2>4 DEF NoLostWakeup
  <2> QED
    BY <2>3, <2>4
<1>12. ASSUME NEW w \in Workers,
              \/ LoopTest(w) \/ Wait(w) \/ SpuriousWakeup(w) \/ PopOwn(w)
              \/ PopEmpty(w) \/ GlobalCallbacks(w) \/ HandleDrops(w) \/ Leave(w)
              \/ StealSizes(w) \/ StealUndefined(w)
              \/ \E vic \in Workers : StealBack(w, vic) \/ StealNothing(w, vic)
              \/ \E outcome \in {"none", "cancelled", "value", "exception"} :
                    Wrappers(w, outcome)
       PROVE  NoLostWakeup'
  <2>1. UNCHANGED <<tasks_in_queue, spc>>
    BY <1>12 DEF LoopTest, Wait, SpuriousWakeup, PopOwn, PopEmpty, GlobalCallbacks,
                 HandleDrops, Leave, StealSizes, StealUndefined, StealBack,
                 StealNothing, Wrappers
  <2>2. Sleeping' => Sleeping
    BY <1>12 DEF LoopTest, Wait, SpuriousWakeup, PopOwn, PopEmpty, GlobalCallbacks,
                 HandleDrops, Leave, StealSizes, StealUndefined, StealBack,
                 StealNothing, Wrappers, TypeOK
  <2> QED
    BY <2>1, <2>2 DEF NoLostWakeup
<1>13. CASE UNCHANGED vars
  BY <1>13 DEF vars, NoLostWakeup
<1>14. ASSUME NEW w \in Workers, WorkerStep(w) \/ SpuriousWakeup(w) PROVE NoLostWakeup'
  BY <1>10, <1>11, <1>12, <1>14 DEF WorkerStep
<1>15. ASSUME NEW s \in Submitters, SubmitStep(s) PROVE NoLostWakeup'
  BY <1>7, <1>8, <1>9, <1>15 DEF SubmitStep
<1>16. CASE AppStep
  BY <1>1, <1>2, <1>3, <1>4, <1>5, <1>16 DEF AppStep
<1> QED
  BY <1>5, <1>6, <1>13, <1>14, <1>15, <1>16 DEF Next, DtorStep, Terminated

(* A worker sleeps on a counter that is not zero only while a submitter    *)
(* that will signal is on its way, for any number of threads.              *)
THEOREM WakeupsNeverLost ==
    ASSUME BreakerOn
    PROVE  Spec => []NoLostWakeup
<1>1. Init => NoLostWakeup
  BY DEF Init, NoLostWakeup
<1>2. TypeOK /\ CounterInv /\ NoLostWakeup /\ [Next]_vars => NoLostWakeup'
  BY WakeupNext DEF CounterInv
<1> QED
  BY <1>1, <1>2, CounterInvariant, PTL DEF Spec
=============================================================================
