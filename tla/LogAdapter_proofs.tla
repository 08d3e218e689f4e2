------------------------- MODULE LogAdapter_proofs -------------------------
(***************************************************************************)
(* Theorems about LogAdapter, for any loggers, messages, registrars and    *)
(* limits.                                                                 *)
(***************************************************************************)
EXTENDS LogAdapter, Integers, SequenceTheorems, FiniteSetTheorems, TLAPS

(* A registrar that is about to swap has seen a list, and callbacks_ never *)
(* becomes null again.                                                     *)
ListSeen ==
    \A r \in Registrars : rpc[r] = "swap" => callbacks \in Seq(Registrars \cup {Empty})

TypeInv == TypeOK /\ ListSeen

LEMMA TypeInit == Init => TypeInv
<1> SUFFICES ASSUME Init PROVE TypeInv
  OBVIOUS
<1>1. <<>> \in Seq(Messages)
  BY EmptySeq
<1>2. /\ lpc \in [Loggers -> {"idle", "size", "push", "signal"}]
      /\ msg \in [Loggers -> Messages \cup {None}]
      /\ \A l \in Loggers : lpc[l] = "idle"
  BY DEF Init
<1>3. /\ rpc \in [Registrars -> {"idle", "swap", "done"}]
      /\ old \in [Registrars -> Nat]
      /\ \A r \in Registrars : rpc[r] = "idle"
  BY DEF Init
<1>4. moved \in [Registrars -> BOOLEAN]
  BY DEF Init
<1>5. TypeOK
  BY <1>1, <1>2, <1>3, <1>4 DEF Init, TypeOK
<1> QED
  BY <1>3, <1>5 DEF TypeInv, ListSeen

LEMMA TypeNext == TypeInv /\ [Next]_vars => TypeInv'
<1> SUFFICES ASSUME TypeInv, [Next]_vars PROVE TypeInv'
  OBVIOUS
<1> USE DEF config, counts, flags, list, logger, regs, worker, history
<1>0. TypeOK /\ ListSeen
  BY DEF TypeInv
<1>1. ASSUME NEW max \in MaxSizes, SetMaxQueueSize(max) PROVE TypeInv'
  BY <1>0, <1>1 DEF SetMaxQueueSize, TypeOK, ListSeen, TypeInv
<1>2. CASE GetDroppedCount
  BY <1>0, <1>2 DEF GetDroppedCount, TypeOK, ListSeen, TypeInv
<1>3. CASE ClearCallbacks
  <2>1. callbacks' \in Seq(Registrars \cup {Empty})
    BY <1>3, EmptySeq DEF ClearCallbacks
  <2> QED
    BY <1>0, <1>3, <2>1 DEF ClearCallbacks, TypeOK, ListSeen, TypeInv
<1>4. ASSUME NEW l \in Loggers, NEW m \in Messages, Log(l, m) PROVE TypeInv'
  BY <1>0, <1>4 DEF Log, TypeOK, ListSeen, TypeInv
<1>5. ASSUME NEW l \in Loggers, EnqueueSize(l) PROVE TypeInv'
  <2>1. UNCHANGED <<config, reported, unreported, flags, list, regs, worker, dpc,
                    delivered>>
    BY <1>5 DEF EnqueueSize
  <2>2. CASE Drop(l)
    BY <1>0, <1>5, <2>1, <2>2 DEF EnqueueSize, Drop, Return, TypeOK, ListSeen, TypeInv
  <2>3. CASE ~Drop(l)
    BY <1>0, <1>5, <2>1, <2>3 DEF EnqueueSize, TypeOK, ListSeen, TypeInv
  <2> QED
    BY <2>2, <2>3
<1>6. ASSUME NEW l \in Loggers, EnqueuePush(l) PROVE TypeInv'
  <2>1. CASE Drop(l)
    BY <1>0, <1>6, <2>1 DEF EnqueuePush, Drop, Return, TypeOK, ListSeen, TypeInv
  <2>2. CASE Fits /\ ~Drop(l)
    <3>1. /\ queue' = Append(queue, msg[l]) /\ accepted' = Append(accepted, msg[l])
          /\ high_water_mark' = IF Len(queue) + 1 > high_water_mark
                                THEN Len(queue) + 1 ELSE high_water_mark
          /\ lpc' = [lpc EXCEPT ![l] = "signal"]
          /\ UNCHANGED <<msg, dropped_messages, dropped>>
          /\ lpc[l] = "push"
      BY <1>6, <2>2 DEF EnqueuePush
    <3>2. msg[l] \in Messages
      BY <1>0, <3>1 DEF TypeOK
    <3>3. queue' \in Seq(Messages) /\ accepted' \in Seq(Messages) /\ Len(queue) \in Nat
      BY <1>0, <3>1, <3>2, AppendProperties, LenProperties DEF TypeOK
    <3> QED
      BY <1>0, <1>6, <3>1, <3>3 DEF EnqueuePush, TypeOK, ListSeen, TypeInv
  <2> QED
    BY <1>6, <2>1, <2>2 DEF EnqueuePush
<1>7. ASSUME NEW l \in Loggers, EnqueueSignal(l) PROVE TypeInv'
  BY <1>0, <1>7 DEF EnqueueSignal, Woken, Return, TypeOK, ListSeen, TypeInv
<1>8. ASSUME NEW r \in Registrars, RegisterLoad(r) PROVE TypeInv'
  BY <1>0, <1>8 DEF RegisterLoad, TypeOK, ListSeen, TypeInv
<1>9. ASSUME NEW r \in Registrars, RegisterSwap(r) PROVE TypeInv'
  <2>1. callbacks \in Seq(Registrars \cup {Empty})
    BY <1>0, <1>9 DEF RegisterSwap, ListSeen
  <2>2. callbacks' \in Seq(Registrars \cup {Empty})
    BY <1>9, <2>1, AppendProperties DEF RegisterSwap
  <2> QED
    BY <1>0, <1>9, <2>2 DEF RegisterSwap, TypeOK, ListSeen, TypeInv
<1>10. ASSUME NEW r \in Registrars, RegisterRetry(r) PROVE TypeInv'
  BY <1>0, <1>10 DEF RegisterRetry, TypeOK, ListSeen, TypeInv
<1>11. CASE WorkerTest \/ WorkerFinal
  <2>1. queue' \in Seq(Messages) /\ batch' \in Seq(Messages)
    BY <1>0, <1>11, EmptySeq DEF WorkerTest, WorkerFinal, TakeQueue, TypeOK
  <2> QED
    BY <1>0, <1>11, <2>1 DEF WorkerTest, WorkerFinal, TypeOK, ListSeen, TypeInv
<1>12. CASE Dispatch
  <2>1. Head(batch) \in Messages /\ Tail(batch) \in Seq(Messages)
    BY <1>0, <1>12, HeadTailProperties DEF Dispatch, TypeOK
  <2>2. Append(delivered, Head(batch)) \in Seq(Messages)
    BY <1>0, <2>1, AppendProperties DEF TypeOK
  <2> QED
    BY <1>0, <1>12, <2>1, <2>2 DEF Dispatch, TypeOK, ListSeen, TypeInv
<1>13. CASE HandleDrops
  BY <1>0, <1>13 DEF HandleDrops, TypeOK, ListSeen, TypeInv
<1>14. CASE SpuriousWakeup
  BY <1>0, <1>14 DEF SpuriousWakeup, TypeOK, ListSeen, TypeInv
<1>15. CASE DtorStop
  BY <1>0, <1>15 DEF DtorStop, Woken, TypeOK, ListSeen, TypeInv
<1>16. CASE DtorJoin \/ DtorDetach
  BY <1>0, <1>16 DEF DtorJoin, DtorDetach, TypeOK, ListSeen, TypeInv
<1>17. CASE UNCHANGED vars
  BY <1>0, <1>17 DEF vars, TypeOK, ListSeen, TypeInv
<1> QED
  BY <1>1, <1>2, <1>3, <1>4, <1>5, <1>6, <1>7, <1>8, <1>9, <1>10, <1>11, <1>12,
     <1>13, <1>14, <1>15, <1>16, <1>17
  DEF Next, LoggerStep, RegistrarStep, WorkerStep, Terminated

(* Every variable of the logger keeps its type, and a registrar never      *)
(* appends to a null list, for any number of threads.                      *)
THEOREM TypeCorrect == Spec => []TypeInv
BY TypeInit, TypeNext, PTL DEF Spec

-----------------------------------------------------------------------------
(* The limit.                                                              *)

LEMMA LimitNext == TypeOK /\ QueueWithinMax /\ [Next]_vars => QueueWithinMax'
<1> SUFFICES ASSUME TypeOK, QueueWithinMax, [Next]_vars PROVE QueueWithinMax'
  OBVIOUS
<1> USE DEF config, counts, flags, list, logger, regs, worker, history
<1>1. Len(queue) \in Nat /\ high_water_mark \in Nat /\ max_queue_size \in MaxSizes
      /\ MaxSizes \subseteq Nat
  BY LenProperties, SizesAssumption DEF TypeOK
<1>2. CASE UNCHANGED <<queue, high_water_mark>>
  BY <1>2 DEF QueueWithinMax
<1>3. ASSUME NEW l \in Loggers, EnqueuePush(l) PROVE QueueWithinMax'
  <2>1. CASE ~Fits
    BY <1>2, <1>3, <2>1 DEF EnqueuePush, Drop
  <2>2. CASE Fits
    <3>1. /\ queue' = Append(queue, msg[l])
          /\ high_water_mark' = IF Len(queue) + 1 > high_water_mark
                                THEN Len(queue) + 1 ELSE high_water_mark
          /\ lpc[l] = "push"
      BY <1>3, <2>2 DEF EnqueuePush
    <3>2. Len(queue') = Len(queue) + 1
      BY <3>1, AppendProperties DEF TypeOK
    <3>3. Len(queue) + 1 <= max_queue_size
      BY <1>1, <2>2 DEF Fits
    <3> QED
      BY <1>1, <3>1, <3>2, <3>3 DEF QueueWithinMax
  <2> QED
    BY <2>1, <2>2
<1>4. CASE WorkerTest \/ WorkerFinal
  <2>1. high_water_mark' = high_water_mark /\ (queue' = <<>> \/ queue' = queue)
    BY <1>4 DEF WorkerTest, WorkerFinal, TakeQueue
  <2> QED
    BY <1>1, <2>1, EmptySeq DEF QueueWithinMax
<1>5. ASSUME NEW l \in Loggers,
             EnqueueSize(l) \/ EnqueueSignal(l) \/ \E m \in Messages : Log(l, m)
      PROVE  QueueWithinMax'
  BY <1>2, <1>5 DEF EnqueueSize, Drop, EnqueueSignal, Log
<1>6. ASSUME NEW r \in Registrars, RegistrarStep(r) PROVE QueueWithinMax'
  BY <1>2, <1>6 DEF RegistrarStep, RegisterLoad, RegisterSwap, RegisterRetry
<1>7. CASE \/ \E max \in MaxSizes : SetMaxQueueSize(max)
           \/ GetDroppedCount \/ ClearCallbacks
           \/ Dispatch \/ HandleDrops \/ SpuriousWakeup
           \/ DtorStop \/ DtorJoin \/ DtorDetach \/ UNCHANGED vars
  BY <1>2, <1>7 DEF SetMaxQueueSize, GetDroppedCount, ClearCallbacks, Dispatch,
     HandleDrops, SpuriousWakeup, DtorStop, DtorJoin, DtorDetach, vars
<1> QED
  BY <1>3, <1>4, <1>5, <1>6, <1>7
  DEF Next, LoggerStep, WorkerStep, Terminated

(* However many loggers pass the first test of the size together, the      *)
(* second one under queue_mu_ keeps the queue within the largest limit.    *)
THEOREM LimitHolds == Spec => []QueueWithinMax
<1>1. Init => QueueWithinMax
  <2> SUFFICES ASSUME Init PROVE QueueWithinMax
    OBVIOUS
  <2>1. PICK max \in MaxSizes : max \in Nat
    BY SizesAssumption
  <2> QED
    BY <2>1, EmptySeq DEF Init, QueueWithinMax
<1>2. TypeInv => TypeOK
  BY DEF TypeInv
<1> QED
  BY <1>1, <1>2, TypeCorrect, LimitNext, PTL DEF Spec

-----------------------------------------------------------------------------
(* The order.                                                              *)

(* The worker takes the queue only when it has dispatched its batch.       *)
OrderInv ==
    /\ wpc \notin {"dispatch", "last"} => batch = <<>>
    /\ InOrderOnce

LEMMA ConcatAppend ==
    ASSUME NEW S, NEW s \in Seq(S), NEW t \in Seq(S), NEW x \in S
    PROVE  s \o Append(t, x) = Append(s \o t, x)
<1>1. Append(t, x) = t \o <<x>> /\ <<x>> \in Seq(S)
  OBVIOUS
<1>2. s \o t \in Seq(S)
  BY ConcatProperties
<1>3. Append(s \o t, x) = (s \o t) \o <<x>>
  BY <1>2
<1> QED
  BY <1>1, <1>3, ConcatAssociative

LEMMA ConcatMove ==
    ASSUME NEW S, NEW s \in Seq(S), NEW t \in Seq(S), t # <<>>
    PROVE  Append(s, Head(t)) \o Tail(t) = s \o t
<1>1. Head(t) \in S /\ Tail(t) \in Seq(S) /\ Len(Tail(t)) = Len(t) - 1
      /\ \A i \in 1 .. Len(Tail(t)) : Tail(t)[i] = t[i + 1]
  BY HeadTailProperties
<1>2. Append(s, Head(t)) = s \o <<Head(t)>> /\ <<Head(t)>> \in Seq(S)
  BY <1>1
<1>3. (s \o <<Head(t)>>) \o Tail(t) = s \o (<<Head(t)>> \o Tail(t))
  BY <1>1, <1>2, ConcatAssociative
<1>4. <<Head(t)>> \o Tail(t) = t
  <2>1. <<Head(t)>> \o Tail(t) \in Seq(S)
        /\ Len(<<Head(t)>> \o Tail(t)) = 1 + Len(Tail(t))
        /\ \A i \in 1 .. 1 + Len(Tail(t)) :
              (<<Head(t)>> \o Tail(t))[i] =
                  IF i <= 1 THEN <<Head(t)>>[i] ELSE Tail(t)[i - 1]
    BY <1>1, <1>2, ConcatProperties
  <2>2. Len(t) \in Nat \ {0} /\ Head(t) = t[1]
    BY EmptySeq
  <2>3. Len(<<Head(t)>> \o Tail(t)) = Len(t)
    BY <1>1, <2>1, <2>2
  <2>4. ASSUME NEW i \in 1 .. Len(t) PROVE (<<Head(t)>> \o Tail(t))[i] = t[i]
    <3>1. CASE i = 1
      BY <1>1, <2>1, <2>2, <3>1
    <3>2. CASE i # 1
      <4>1. i - 1 \in 1 .. Len(Tail(t)) /\ (i - 1) + 1 = i
        BY <1>1, <2>2, <3>2
      <4> QED
        BY <1>1, <2>1, <2>2, <3>2, <4>1
    <3> QED
      BY <3>1, <3>2
  <2> QED
    BY <2>1, <2>3, <2>4, SeqEqual
<1> QED
  BY <1>2, <1>3, <1>4

LEMMA OrderNext == TypeOK /\ OrderInv /\ [Next]_vars => OrderInv'
<1> SUFFICES ASSUME TypeOK, OrderInv, [Next]_vars PROVE OrderInv'
  OBVIOUS
<1> USE DEF config, counts, flags, list, logger, regs, worker, history
<1>1. /\ queue \in Seq(Messages) /\ batch \in Seq(Messages)
      /\ delivered \in Seq(Messages) /\ delivered \o batch \in Seq(Messages)
      /\ delivered \o batch \o queue = accepted
  BY ConcatProperties DEF TypeOK, OrderInv, InOrderOnce
<1>2. ASSUME UNCHANGED <<queue, batch, delivered, accepted>>,
             wpc' \in {"dispatch", "last"} => wpc \in {"dispatch", "last"},
             wpc \in {"dispatch", "last"} => wpc' \in {"dispatch", "last"} \/ batch = <<>>
      PROVE  OrderInv'
  BY <1>2 DEF OrderInv, InOrderOnce
<1>3. ASSUME NEW l \in Loggers, EnqueuePush(l) PROVE OrderInv'
  <2>1. CASE ~Fits
    BY <1>2, <1>3, <2>1 DEF EnqueuePush, Drop
  <2>2. CASE Fits
    <3>1. /\ queue' = Append(queue, msg[l]) /\ accepted' = Append(accepted, msg[l])
          /\ UNCHANGED <<batch, wpc, delivered>>
          /\ msg[l] \in Messages
      BY <1>3, <2>2 DEF EnqueuePush, TypeOK
    <3>2. InOrderOnce'
      BY <1>1, <3>1, ConcatAppend DEF InOrderOnce
    <3> QED
      BY <3>1, <3>2 DEF OrderInv
  <2> QED
    BY <2>1, <2>2
<1>4. CASE WorkerTest \/ WorkerFinal
  <2>1. CASE wpc' \in {"dispatch", "last"}
    <3>1. batch = <<>> /\ batch' = queue /\ queue' = <<>>
          /\ wpc' \in {"dispatch", "last"}
          /\ UNCHANGED <<delivered, accepted>>
      BY <1>4, <2>1 DEF WorkerTest, WorkerFinal, TakeQueue, OrderInv
    <3>2. delivered \o queue = accepted /\ delivered \o queue \in Seq(Messages)
      BY <1>1, <3>1, ConcatEmptySeq, ConcatProperties
    <3>3. InOrderOnce'
      BY <3>1, <3>2, ConcatEmptySeq DEF InOrderOnce
    <3> QED
      BY <3>1, <3>3 DEF OrderInv
  <2>2. CASE wpc' \notin {"dispatch", "last"}
    BY <1>2, <1>4, <2>2 DEF WorkerTest, WorkerFinal
  <2> QED
    BY <2>1, <2>2
<1>5. CASE Dispatch
  <2>1. CASE callbacks = Null
    BY <1>2, <1>5, <2>1 DEF Dispatch
  <2>2. CASE callbacks # Null
    <3>1. /\ batch # <<>> /\ wpc \in {"dispatch", "last"}
          /\ delivered' = Append(delivered, Head(batch)) /\ batch' = Tail(batch)
          /\ UNCHANGED <<queue, wpc, accepted>>
      BY <1>5, <2>2 DEF Dispatch
    <3>2. delivered' \o batch' = delivered \o batch
      BY <1>1, <3>1, ConcatMove
    <3> QED
      BY <1>1, <3>1, <3>2 DEF OrderInv, InOrderOnce
  <2> QED
    BY <2>1, <2>2
<1>6. ASSUME NEW l \in Loggers,
             EnqueueSize(l) \/ EnqueueSignal(l) \/ \E m \in Messages : Log(l, m)
      PROVE  OrderInv'
  BY <1>2, <1>6 DEF EnqueueSize, Drop, EnqueueSignal, Woken, Log
<1>7. ASSUME NEW r \in Registrars, RegistrarStep(r) PROVE OrderInv'
  BY <1>2, <1>7 DEF RegistrarStep, RegisterLoad, RegisterSwap, RegisterRetry
<1>8. CASE \/ \E max \in MaxSizes : SetMaxQueueSize(max)
           \/ GetDroppedCount \/ ClearCallbacks
           \/ HandleDrops \/ SpuriousWakeup
           \/ DtorStop \/ DtorJoin \/ DtorDetach \/ UNCHANGED vars
  BY <1>2, <1>8 DEF SetMaxQueueSize, GetDroppedCount, ClearCallbacks,
     HandleDrops, SpuriousWakeup, DtorStop, Woken, DtorJoin, DtorDetach, vars
<1> QED
  BY <1>3, <1>4, <1>5, <1>6, <1>7, <1>8
  DEF Next, LoggerStep, WorkerStep, Terminated

LEMMA OrderInvariant == Spec => []OrderInv
<1>1. Init => OrderInv
  BY EmptySeq, ConcatEmptySeq DEF Init, OrderInv, InOrderOnce
<1>2. TypeInv => TypeOK
  BY DEF TypeInv
<1> QED
  BY <1>1, <1>2, TypeCorrect, OrderNext, PTL DEF Spec

(* What the loggers pushed is what the worker has dispatched, holds, and   *)
(* will find in the queue: nothing is lost, doubled or reordered by the    *)
(* swaps, for any number of loggers.                                       *)
THEOREM DeliveredInOrder == Spec => []InOrderOnce
<1>1. OrderInv => InOrderOnce
  BY DEF OrderInv
<1> QED
  BY <1>1, OrderInvariant, PTL

-----------------------------------------------------------------------------
(* The shutdown.                                                           *)

(* The destructor runs when no logger is inside a call, the worker leaves  *)
(* its loop only after that and with an empty queue, and stopped_ is set   *)
(* by its last step.                                                       *)
ExitInv ==
    /\ running <=> dpc = "alive"
    /\ dpc # "alive" => \A l \in Loggers : lpc[l] = "idle"
    /\ stopped <=> wpc = "exited"
    /\ wpc \in {"final", "last", "exited"} => ~running /\ queue = <<>>
    /\ dpc = "dead" => stopped

LEMMA ExitNext == TypeOK /\ ExitInv /\ [Next]_vars => ExitInv'
<1> SUFFICES ASSUME TypeOK, ExitInv, [Next]_vars PROVE ExitInv'
  OBVIOUS
<1> USE DEF config, counts, flags, list, logger, regs, worker, history
<1>1. ASSUME NEW l \in Loggers, EnqueueSize(l) \/ EnqueuePush(l) PROVE ExitInv'
  <2>1. lpc[l] # "idle" /\ UNCHANGED <<running, stopped, wpc, dpc>>
    BY <1>1 DEF EnqueueSize, EnqueuePush
  <2>2. dpc = "alive" /\ running /\ wpc \notin {"final", "last", "exited"}
    BY <2>1 DEF ExitInv
  <2> QED
    BY <2>1, <2>2 DEF ExitInv
<1>2. ASSUME NEW l \in Loggers, EnqueueSignal(l) PROVE ExitInv'
  <2>1. /\ lpc[l] # "idle" /\ UNCHANGED <<running, stopped, dpc, queue>>
        /\ wpc' = Woken
    BY <1>2 DEF EnqueueSignal
  <2>2. dpc = "alive" /\ running /\ wpc \notin {"final", "last", "exited"}
    BY <2>1 DEF ExitInv
  <2> QED
    BY <2>1, <2>2 DEF ExitInv, Woken
<1>3. ASSUME NEW l \in Loggers, NEW m \in Messages, Log(l, m) PROVE ExitInv'
  BY <1>3 DEF Log, Alive, ExitInv
<1>4. CASE WorkerTest
  BY <1>4 DEF WorkerTest, LeaveLoop, TakeQueue, ExitInv
<1>5. CASE WorkerFinal
  BY <1>5 DEF WorkerFinal, TakeQueue, ExitInv
<1>6. CASE HandleDrops
  <2>1. /\ UNCHANGED <<running, dpc, queue, lpc>>
        /\ wpc' = IF wpc = "last" THEN "exited" ELSE "test"
        /\ stopped' <=> wpc = "last"
        /\ wpc \in {"dispatch", "last"}
    BY <1>6 DEF HandleDrops
  <2> QED
    BY <2>1 DEF ExitInv
<1>7. CASE DtorStop
  <2>1. /\ dpc = "alive" /\ dpc' = "waiting" /\ ~running'
        /\ \A l \in Loggers : lpc[l] = "idle"
        /\ wpc' = Woken /\ UNCHANGED <<queue, stopped, lpc>>
    BY <1>7 DEF DtorStop, Alive
  <2> QED
    BY <2>1 DEF ExitInv, Woken
<1>8. CASE DtorJoin
  BY <1>8 DEF DtorJoin, ExitInv
<1>9. CASE DtorDetach
  BY <1>9 DEF DtorDetach, ExitInv
<1>10. CASE SpuriousWakeup
  BY <1>10 DEF SpuriousWakeup, ExitInv
<1>11. CASE UNCHANGED <<running, stopped, wpc, dpc, queue, lpc>>
  BY <1>11 DEF ExitInv
<1>12. ASSUME NEW r \in Registrars, RegistrarStep(r) PROVE ExitInv'
  BY <1>11, <1>12 DEF RegistrarStep, RegisterLoad, RegisterSwap, RegisterRetry
<1>13. CASE \/ \E max \in MaxSizes : SetMaxQueueSize(max)
            \/ GetDroppedCount \/ ClearCallbacks \/ Dispatch \/ UNCHANGED vars
  BY <1>11, <1>13 DEF SetMaxQueueSize, GetDroppedCount, ClearCallbacks, Dispatch, vars
<1> QED
  BY <1>1, <1>2, <1>3, <1>4, <1>5, <1>6, <1>7, <1>8, <1>9, <1>10, <1>12, <1>13
  DEF Next, LoggerStep, WorkerStep, Terminated

LEMMA ExitInvariant == Spec => []ExitInv
<1>1. Init => ExitInv
  BY DEF Init, ExitInv
<1>2. TypeInv => TypeOK
  BY DEF TypeInv
<1> QED
  BY <1>1, <1>2, TypeCorrect, ExitNext, PTL DEF Spec

(* When the destructor has joined its worker, every message that any       *)
(* logger pushed was dispatched, the ones pushed just before it included.  *)
THEOREM ShutdownDeliversAll == Spec => []ShutdownDrains
<1>1. TypeInv /\ OrderInv /\ ExitInv => ShutdownDrains
  <2> SUFFICES ASSUME TypeOK, OrderInv, ExitInv, dpc = "dead"
               PROVE  delivered = accepted
    BY DEF TypeInv, ShutdownDrains
  <2>1. wpc = "exited" /\ queue = <<>> /\ batch = <<>>
    BY DEF ExitInv, OrderInv
  <2>2. delivered \o <<>> \o <<>> = accepted /\ delivered \in Seq(Messages)
    BY <2>1 DEF OrderInv, InOrderOnce, TypeOK
  <2> QED
    BY <2>2, ConcatEmptySeq
<1> QED
  BY <1>1, TypeCorrect, OrderInvariant, ExitInvariant, PTL

-----------------------------------------------------------------------------
(* The drops.                                                              *)

(* A message that is being logged was not dropped before, and no two       *)
(* loggers have the same one.                                              *)
DropInv ==
    /\ IsFiniteSet(dropped)
    /\ DropsConserved
    /\ \A l \in Loggers : msg[l] # None => msg[l] \notin dropped
    /\ \A k, l \in Loggers : msg[k] = msg[l] /\ msg[k] # None => k = l

LEMMA DropKeeps ==
    ASSUME TypeOK, DropInv, NEW l \in Loggers, lpc[l] # "idle", Drop(l),
           UNCHANGED <<reported, unreported>>
    PROVE  DropInv'
<1>1. /\ msg[l] \in Messages /\ msg[l] # None /\ msg[l] \notin dropped
  BY NamesAssumption DEF TypeOK, DropInv
<1>2. /\ dropped_messages' = dropped_messages + 1
      /\ dropped' = dropped \cup {msg[l]}
      /\ msg' = [msg EXCEPT ![l] = None]
  BY DEF Drop, Return
<1>3. /\ IsFiniteSet(dropped')
      /\ Cardinality(dropped') = Cardinality(dropped) + 1
      /\ Cardinality(dropped) \in Nat
  BY <1>1, <1>2, FS_AddElement, FS_CardinalityType DEF DropInv
<1>4. DropsConserved'
  BY <1>2, <1>3 DEF DropInv, DropsConserved, TypeOK
<1>5. ASSUME NEW k \in Loggers, msg'[k] # None
      PROVE  k # l /\ msg'[k] = msg[k] /\ msg[k] \notin dropped'
  <2>1. k # l /\ msg'[k] = msg[k] /\ msg[k] # None
    BY <1>2, <1>5 DEF TypeOK
  <2>2. msg[k] # msg[l]
    BY <2>1 DEF DropInv
  <2> QED
    BY <1>2, <2>1, <2>2 DEF DropInv
<1>6. \A k \in Loggers : msg'[k] # None => msg'[k] \notin dropped'
  BY <1>5
<1>7. ASSUME NEW j \in Loggers, NEW k \in Loggers, msg'[j] = msg'[k], msg'[j] # None
      PROVE  j = k
  BY <1>5, <1>7 DEF DropInv
<1> QED
  BY <1>3, <1>4, <1>6, <1>7 DEF DropInv

LEMMA DropNext == TypeOK /\ DropInv /\ [Next]_vars => DropInv'
<1> SUFFICES ASSUME TypeOK, DropInv, [Next]_vars PROVE DropInv'
  OBVIOUS
<1> USE DEF config, counts, flags, list, logger, regs, worker, history
<1>1. CASE UNCHANGED <<dropped_messages, reported, unreported, dropped, msg>>
  BY <1>1 DEF DropInv, DropsConserved
<1>2. ASSUME NEW l \in Loggers, EnqueueSize(l) \/ EnqueuePush(l) PROVE DropInv'
  <2>1. lpc[l] # "idle" /\ UNCHANGED <<reported, unreported>>
    BY <1>2 DEF EnqueueSize, EnqueuePush
  <2>2. Drop(l) \/ UNCHANGED <<dropped_messages, msg, dropped>>
    BY <1>2 DEF EnqueueSize, EnqueuePush
  <2> QED
    BY <1>1, <2>1, <2>2, DropKeeps
<1>3. ASSUME NEW l \in Loggers, EnqueueSignal(l) PROVE DropInv'
  <2>1. /\ msg' = [msg EXCEPT ![l] = None]
        /\ UNCHANGED <<dropped_messages, reported, unreported, dropped>>
    BY <1>3 DEF EnqueueSignal, Return
  <2>2. \A k \in Loggers : msg'[k] # None => msg'[k] = msg[k]
    BY <2>1 DEF TypeOK
  <2> QED
    BY <2>1, <2>2 DEF DropInv, DropsConserved
<1>4. ASSUME NEW l \in Loggers, NEW m \in Messages, Log(l, m) PROVE DropInv'
  <2>1. /\ msg' = [msg EXCEPT ![l] = m]
        /\ m \notin dropped /\ \A k \in Loggers : msg[k] # m
        /\ UNCHANGED <<dropped_messages, reported, unreported, dropped>>
    BY <1>4 DEF Log
  <2>2. \A k \in Loggers : msg'[k] = IF k = l THEN m ELSE msg[k]
    BY <2>1 DEF TypeOK
  <2> QED
    BY <2>1, <2>2 DEF DropInv, DropsConserved
<1>5. CASE GetDroppedCount \/ HandleDrops
  <2>1. /\ UNCHANGED <<dropped, msg>>
        /\ dropped_messages' = 0
        /\ \/ reported' = reported + dropped_messages /\ unreported' = unreported
           \/ unreported' = unreported + dropped_messages /\ reported' = reported
    BY <1>5 DEF GetDroppedCount, HandleDrops
  <2>2. Cardinality(dropped) \in Nat
    BY FS_CardinalityType DEF DropInv
  <2>3. DropsConserved'
    BY <2>1, <2>2 DEF DropInv, DropsConserved, TypeOK
  <2> QED
    BY <2>1, <2>3 DEF DropInv
<1>6. ASSUME NEW r \in Registrars, RegistrarStep(r) PROVE DropInv'
  BY <1>1, <1>6 DEF RegistrarStep, RegisterLoad, RegisterSwap, RegisterRetry
<1>7. CASE \/ \E max \in MaxSizes : SetMaxQueueSize(max)
           \/ ClearCallbacks \/ WorkerTest \/ WorkerFinal \/ Dispatch
           \/ SpuriousWakeup \/ DtorStop \/ DtorJoin \/ DtorDetach
           \/ UNCHANGED vars
  BY <1>1, <1>7 DEF SetMaxQueueSize, ClearCallbacks, WorkerTest, WorkerFinal,
     Dispatch, SpuriousWakeup, DtorStop, DtorJoin, DtorDetach, vars
<1> QED
  BY <1>2, <1>3, <1>4, <1>5, <1>6, <1>7
  DEF Next, LoggerStep, WorkerStep, Terminated

(* Every dropped message is in the counter, was reported, or was           *)
(* suppressed by the rate limit, exactly once: no exchange(0) of the       *)
(* worker or of a caller loses or doubles an increment.                    *)
THEOREM DropsNeverLost == Spec => []DropsConserved
<1>1. Init => DropInv
  BY FS_EmptySet DEF Init, DropInv, DropsConserved
<1>2. TypeInv => TypeOK
  BY DEF TypeInv
<1>3. DropInv => DropsConserved
  BY DEF DropInv
<1> QED
  BY <1>1, <1>2, <1>3, TypeCorrect, DropNext, PTL DEF Spec
=============================================================================
