------------------------ MODULE WriteQueueSG_proofs ------------------------
(***************************************************************************)
(* Theorems about WriteQueueSG, for any number of messages and any limit.  *)
(***************************************************************************)
EXTENDS WriteQueueSG, Integers, SequenceTheorems, TLAPS

(* What is left of the accepted messages after the first n of them is what *)
(* waits in the queue.                                                     *)
Rest(n) ==
    /\ Len(sent) = n + Len(write_queue)
    /\ \A i \in 1 .. Len(write_queue) : write_queue[i] = sent[n + i]

(* The inductive invariant, until a close is forced: writing_ tells        *)
(* whether a write is outstanding or the queue is stuck behind a failed    *)
(* one, and the wire, the write in flight and the queue together are what  *)
(* was accepted.                                                           *)
WriterInv ==
    /\ \A m, n \in Outstanding : m = n
    /\ ~writing => Outstanding = {} /\ write_queue = <<>> /\ Len(sent) = Len(wire)
    /\ \A m \in Messages :
          /\ op[m] = "running" =>
                Len(wire) + 1 <= Len(sent) /\ sent[Len(wire) + 1] = m
                /\ Rest(Len(wire) + 1)
          /\ op[m] = "ok" => Rest(Len(wire))
    /\ InOrder

LEMMA TypeInit == Init => TypeOK
<1>1. <<>> \in Seq(Messages)
  BY EmptySeq
<1> QED
  BY <1>1 DEF Init, TypeOK

(* DoWrite keeps the types.                                                *)
LEMMA DoWriteType ==
    ASSUME NEW q \in Seq(Messages),
           NEW ops \in [Messages -> {"none", "running", "ok", "failed", "done"}],
           DoWrite(q, ops)
    PROVE  /\ write_queue' \in Seq(Messages)
           /\ writing' \in BOOLEAN
           /\ op' \in [Messages -> {"none", "running", "ok", "failed", "done"}]
<1>1. CASE q = <<>>
  BY <1>1, EmptySeq DEF DoWrite
<1>2. CASE q # <<>>
  <2>1. Head(q) \in Messages /\ Tail(q) \in Seq(Messages)
    BY <1>2, HeadTailProperties
  <2> QED
    BY <1>2, <2>1 DEF DoWrite
<1> QED
  BY <1>1, <1>2

LEMMA TypeNext == TypeOK /\ [Next]_vars => TypeOK'
<1> SUFFICES ASSUME TypeOK, [Next]_vars PROVE TypeOK'
  OBVIOUS
<1> USE DEF queue, modes, past
<1>1. ASSUME NEW m \in Messages, AsyncSend(m) PROVE TypeOK'
  <2>1. /\ Append(write_queue, m) \in Seq(Messages)
        /\ sent' \in Seq(Messages)
    BY <1>1 DEF AsyncSend, TypeOK
  <2>2. UNCHANGED <<graceful_shutdown, max_queue_enabled, wire, answer,
                  forced, failed>>
    BY <1>1 DEF AsyncSend
  <2>3. /\ write_queue' \in Seq(Messages)
        /\ writing' \in BOOLEAN
        /\ op' \in [Messages -> {"none", "running", "ok", "failed", "done"}]
    <3>1. CASE writing
      BY <1>1, <2>1, <3>1 DEF AsyncSend, StartIfIdle, TypeOK
    <3>2. CASE ~writing
      BY <1>1, <2>1, <3>2, DoWriteType DEF AsyncSend, StartIfIdle, TypeOK
    <3> QED
      BY <3>1, <3>2
  <2> QED
    BY <2>1, <2>2, <2>3 DEF TypeOK
<1>2. ASSUME NEW m \in Messages, AsyncSendRejected(m) PROVE TypeOK'
  BY <1>2 DEF AsyncSendRejected, TypeOK
<1>3. ASSUME NEW m \in Messages, StreamWrites(m) PROVE TypeOK'
  BY <1>3 DEF StreamWrites, TypeOK
<1>4. ASSUME NEW m \in Messages, StreamFails(m) PROVE TypeOK'
  BY <1>4 DEF StreamFails, TypeOK
<1>5. ASSUME NEW m \in Messages, CompleteOk(m) PROVE TypeOK'
  <2>1. [op EXCEPT ![m] = "done"]
           \in [Messages -> {"none", "running", "ok", "failed", "done"}]
    BY DEF TypeOK
  <2>2. /\ write_queue' \in Seq(Messages)
        /\ writing' \in BOOLEAN
        /\ op' \in [Messages -> {"none", "running", "ok", "failed", "done"}]
    BY <1>5, <2>1, DoWriteType DEF CompleteOk, TypeOK
  <2> QED
    BY <1>5, <2>2 DEF CompleteOk, TypeOK
<1>6. ASSUME NEW m \in Messages, CompleteFailed(m) PROVE TypeOK'
  BY <1>6, EmptySeq DEF CompleteFailed, TypeOK
<1>7. ASSUME NEW enable \in BOOLEAN, EnableMaxQueue(enable) PROVE TypeOK'
  BY <1>7 DEF EnableMaxQueue, TypeOK
<1>8. CASE CloseForce
  BY <1>8, EmptySeq DEF CloseForce, TypeOK
<1>9. CASE CloseGraceful
  BY <1>9 DEF CloseGraceful, TypeOK
<1>10. CASE UNCHANGED vars
  BY <1>10 DEF vars, TypeOK
<1> QED
  BY <1>1, <1>2, <1>3, <1>4, <1>5, <1>6, <1>7, <1>8, <1>9, <1>10
  DEF Next, StreamStep, Complete

(* The queue, the operations and the logs keep their types, whatever the   *)
(* order in which the strand runs the lambdas.                             *)
THEOREM TypeCorrect == Spec => []TypeOK
BY TypeInit, TypeNext, PTL DEF Spec

-----------------------------------------------------------------------------
(* Nothing waits for nobody, whoever closes.                               *)

(* The inductive invariant: entries wait only while writing_ is set, and   *)
(* that comes with an outstanding write or from a failed one.              *)
QueueInv ==
    /\ write_queue # <<>> => writing
    /\ writing => Outstanding # {} \/ failed

(* DoWrite leaves a queue behind only with the write it started.           *)
LEMMA DoWriteQueue ==
    ASSUME NEW q \in Seq(Messages),
           NEW ops \in [Messages -> {"none", "running", "ok", "failed", "done"}],
           DoWrite(q, ops)
    PROVE  QueueInv'
<1>1. CASE q = <<>>
  BY <1>1 DEF DoWrite, QueueInv
<1>2. CASE q # <<>>
  <2>1. Head(q) \in Messages
    BY <1>2, HeadTailProperties
  <2>2. writing' = TRUE /\ op'[Head(q)] = "running"
    BY <1>2, <2>1 DEF DoWrite
  <2> QED
    BY <2>1, <2>2 DEF QueueInv, Outstanding
<1> QED
  BY <1>1, <1>2

LEMMA QueueNext == TypeOK /\ QueueInv /\ [Next]_vars => QueueInv'
<1> SUFFICES ASSUME TypeOK, QueueInv, [Next]_vars PROVE QueueInv'
  OBVIOUS
<1> USE DEF queue, modes, past
<1>1. ASSUME NEW m \in Messages, AsyncSend(m) PROVE QueueInv'
  <2>1. CASE writing
    BY <1>1, <2>1 DEF AsyncSend, StartIfIdle, QueueInv, Outstanding
  <2>2. CASE ~writing
    <3>1. DoWrite(Append(write_queue, m), op)
      BY <1>1, <2>2 DEF AsyncSend, StartIfIdle
    <3>2. Append(write_queue, m) \in Seq(Messages)
      BY DEF TypeOK
    <3> QED
      BY <3>1, <3>2, DoWriteQueue DEF TypeOK
  <2> QED
    BY <2>1, <2>2
<1>2. ASSUME NEW m \in Messages, CompleteOk(m) PROVE QueueInv'
  <2>1. /\ DoWrite(write_queue, [op EXCEPT ![m] = "done"])
        /\ [op EXCEPT ![m] = "done"]
              \in [Messages -> {"none", "running", "ok", "failed", "done"}]
    BY <1>2 DEF CompleteOk, TypeOK
  <2> QED
    BY <2>1, DoWriteQueue DEF TypeOK
<1>3. ASSUME NEW m \in Messages, CompleteFailed(m) PROVE QueueInv'
  BY <1>3 DEF CompleteFailed, QueueInv
<1>4. ASSUME NEW m \in Messages, StreamStep(m) PROVE QueueInv'
  <2>1. /\ UNCHANGED <<write_queue, writing, failed>>
        /\ op' = [op EXCEPT ![m] = "ok"] \/ op' = [op EXCEPT ![m] = "failed"]
    BY <1>4 DEF StreamStep, StreamWrites, StreamFails
  <2>2. m \in Outstanding'
    BY <2>1 DEF Outstanding, TypeOK
  <2> QED
    BY <2>1, <2>2 DEF QueueInv
<1>5. CASE CloseForce
  BY <1>5 DEF CloseForce, QueueInv
<1>6. CASE \/ \E m \in Messages : AsyncSendRejected(m)
           \/ \E enable \in BOOLEAN : EnableMaxQueue(enable)
           \/ CloseGraceful
           \/ UNCHANGED vars
  <2>1. UNCHANGED <<write_queue, writing, op, failed>>
    BY <1>6 DEF AsyncSendRejected, EnableMaxQueue, CloseGraceful, vars
  <2> QED
    BY <2>1 DEF QueueInv, Outstanding
<1> QED
  BY <1>1, <1>2, <1>3, <1>4, <1>5, <1>6 DEF Next, Complete

(* No order of sends, completions and closes leaves a message in the queue *)
(* with no completion handler to go on with it, unless a write failed.     *)
THEOREM MessagesNeverStranded == Spec => []NothingStranded
<1>1. Init => QueueInv
  BY DEF Init, QueueInv
<1>2. QueueInv => NothingStranded
  BY DEF QueueInv, NothingStranded
<1> QED
  BY <1>1, <1>2, TypeInit, TypeNext, QueueNext, PTL DEF Spec

-----------------------------------------------------------------------------
(* One write at a time, in order, as long as nobody forces a close.        *)

LEMMA WriterInit == Init => WriterInv
<1> SUFFICES ASSUME Init PROVE WriterInv
  OBVIOUS
<1>1. Len(<<>>) = 0
  BY EmptySeq
<1> QED
  BY <1>1 DEF Init, WriterInv, Outstanding, InOrder

(* Starting the first of the waiting entries, when no write is             *)
(* outstanding any more.                                                   *)
LEMMA DoWriteKeeps ==
    ASSUME TypeOK, InOrder, InOrder',
           NEW q \in Seq(Messages),
           NEW ops \in [Messages -> {"none", "running", "ok", "failed", "done"}],
           \A m \in Messages : ops[m] \notin {"running", "ok", "failed"},
           DoWrite(q, ops),
           wire' = wire, sent' \in Seq(Messages),
           Len(sent') = Len(wire) + Len(q),
           \A i \in 1 .. Len(q) : q[i] = sent'[Len(wire) + i]
    PROVE  WriterInv'
<1>1. Len(wire) \in Nat /\ Len(q) \in Nat
  BY DEF TypeOK
<1>2. CASE q = <<>>
  <2>1. writing' = FALSE /\ write_queue' = <<>> /\ op' = ops
    BY <1>2 DEF DoWrite
  <2>2. Outstanding' = {}
    BY <2>1 DEF Outstanding
  <2>3. Len(sent') = Len(wire')
    BY <1>1, <1>2, EmptySeq
  <2>4. \A m \in Messages : op'[m] # "running" /\ op'[m] # "ok"
    BY <2>1
  <2> QED
    BY <2>1, <2>2, <2>3, <2>4 DEF WriterInv
<1>3. CASE q # <<>>
  <2>1. /\ writing' = TRUE
        /\ write_queue' = Tail(q)
        /\ op' = [ops EXCEPT ![Head(q)] = "running"]
    BY <1>3 DEF DoWrite
  <2>2. /\ Head(q) \in Messages
        /\ Len(Tail(q)) = Len(q) - 1
        /\ \A i \in 1 .. Len(Tail(q)) : Tail(q)[i] = q[i + 1]
        /\ Tail(q) \in Seq(Messages)
    BY <1>3, HeadTailProperties
  <2>3. Len(q) \in Nat \ {0} /\ Head(q) = q[1]
    BY <1>3, EmptySeq
  <2>4. Outstanding' = {Head(q)}
    BY <2>1, <2>2 DEF Outstanding
  <2>5. \A m \in Messages : /\ op'[m] = "running" => m = Head(q)
                            /\ op'[m] # "ok"
    BY <2>1, <2>2
  <2>6. Len(wire') + 1 <= Len(sent') /\ sent'[Len(wire') + 1] = Head(q)
    BY <1>1, <2>3
  <2>7. Rest(Len(wire) + 1)'
    <3>1. Len(sent') = Len(wire') + 1 + Len(write_queue')
      BY <1>1, <2>1, <2>2, <2>3
    <3>2. \A i \in 1 .. Len(write_queue') :
             write_queue'[i] = sent'[Len(wire') + 1 + i]
      <4> SUFFICES ASSUME NEW i \in 1 .. Len(Tail(q))
                   PROVE  Tail(q)[i] = sent'[Len(wire) + 1 + i]
        BY <2>1
      <4>1. i + 1 \in 1 .. Len(q) /\ Len(wire) + (i + 1) = Len(wire) + 1 + i
        BY <1>1, <2>2, <2>3
      <4>2. Tail(q)[i] = q[i + 1] /\ q[i + 1] = sent'[Len(wire) + (i + 1)]
        BY <2>2, <4>1
      <4> QED
        BY <4>1, <4>2
    <3> QED
      BY <3>1, <3>2 DEF Rest
  <2> QED
    BY <2>1, <2>4, <2>5, <2>6, <2>7 DEF WriterInv
<1> QED
  BY <1>2, <1>3

(* An accepted message joins the rest.                                     *)
LEMMA RestAppend ==
    ASSUME TypeOK, NEW m \in Messages, NEW n \in Nat, Rest(n),
           write_queue' = Append(write_queue, m), sent' = Append(sent, m)
    PROVE  Rest(n)'
<1>1. Len(write_queue) \in Nat /\ Len(sent) \in Nat
  BY DEF TypeOK
<1>2. /\ Len(write_queue') = Len(write_queue) + 1
      /\ \A i \in 1 .. Len(write_queue) : write_queue'[i] = write_queue[i]
      /\ write_queue'[Len(write_queue) + 1] = m
  BY AppendProperties DEF TypeOK
<1>3. /\ Len(sent') = Len(sent) + 1
      /\ \A i \in 1 .. Len(sent) : sent'[i] = sent[i]
      /\ sent'[Len(sent) + 1] = m
  BY AppendProperties DEF TypeOK
<1>4. Len(sent') = n + Len(write_queue')
  BY <1>1, <1>2, <1>3 DEF Rest
<1>5. ASSUME NEW i \in 1 .. Len(write_queue')
      PROVE  write_queue'[i] = sent'[n + i]
  <2>1. CASE i = Len(write_queue) + 1
    <3>1. n + i = Len(sent) + 1
      BY <1>1, <2>1 DEF Rest
    <3> QED
      BY <1>2, <1>3, <2>1, <3>1
  <2>2. CASE i # Len(write_queue) + 1
    <3>1. i \in 1 .. Len(write_queue) /\ n + i \in 1 .. Len(sent)
      BY <1>1, <1>2, <2>2 DEF Rest
    <3> QED
      BY <1>2, <1>3, <3>1 DEF Rest
  <2> QED
    BY <2>1, <2>2
<1> QED
  BY <1>4, <1>5 DEF Rest

LEMMA WriterNext ==
    ASSUME ~forced', TypeOK, WriterInv, [Next]_vars
    PROVE  WriterInv'
<1> USE DEF queue, modes, past
<1>1. Len(wire) \in Nat /\ Len(sent) \in Nat /\ Len(write_queue) \in Nat
  BY DEF TypeOK
<1>2. ASSUME NEW m \in Messages, AsyncSend(m) PROVE WriterInv'
  <2>1. sent' = Append(sent, m) /\ wire' = wire
    BY <1>2 DEF AsyncSend
  <2>2. /\ sent' \in Seq(Messages)
        /\ Len(sent') = Len(sent) + 1
        /\ \A i \in 1 .. Len(sent) : sent'[i] = sent[i]
        /\ sent'[Len(sent) + 1] = m
    BY <2>1, AppendProperties DEF TypeOK
  <2>3. InOrder'
    BY <1>1, <2>1, <2>2 DEF WriterInv, InOrder
  <2>4. CASE writing
    <3>1. write_queue' = Append(write_queue, m) /\ UNCHANGED <<writing, op>>
      BY <1>2, <2>4 DEF AsyncSend, StartIfIdle
    <3>2. Outstanding' = Outstanding
      BY <3>1 DEF Outstanding
    <3>3. ASSUME NEW k \in Messages, op'[k] = "running"
          PROVE  /\ Len(wire') + 1 <= Len(sent') /\ sent'[Len(wire') + 1] = k
                 /\ Rest(Len(wire) + 1)'
      <4>1. /\ Len(wire) + 1 <= Len(sent) /\ sent[Len(wire) + 1] = k
            /\ Rest(Len(wire) + 1)
        BY <3>1, <3>3 DEF WriterInv
      <4>2. Rest(Len(wire) + 1)'
        <5> DEFINE n == Len(wire) + 1
        <5>1. n \in Nat /\ Rest(n)
          BY <1>1, <4>1
        <5>2. n' = n
          BY <2>1
        <5>3. Len(sent') = n + Len(write_queue')
              /\ \A i \in 1 .. Len(write_queue') : write_queue'[i] = sent'[n + i]
          <6> HIDE DEF n
          <6> QED
            BY <2>1, <3>1, <5>1, RestAppend DEF Rest
        <5> QED
          BY <5>2, <5>3 DEF Rest
      <4> QED
        BY <1>1, <2>1, <2>2, <4>1, <4>2
    <3>4. ASSUME NEW k \in Messages, op'[k] = "ok"
          PROVE  Rest(Len(wire))'
      <4> DEFINE n == Len(wire)
      <4>1. n \in Nat /\ Rest(n)
        BY <1>1, <3>1, <3>4 DEF WriterInv
      <4>2. n' = n
        BY <2>1
      <4>3. Len(sent') = n + Len(write_queue')
            /\ \A i \in 1 .. Len(write_queue') : write_queue'[i] = sent'[n + i]
        <5> HIDE DEF n
        <5> QED
          BY <2>1, <3>1, <4>1, RestAppend DEF Rest
      <4> QED
        BY <2>1, <4>2, <4>3 DEF Rest
    <3> QED
      BY <2>1, <2>3, <2>4, <3>1, <3>2, <3>3, <3>4 DEF WriterInv
  <2>5. CASE ~writing
    <3>1. write_queue = <<>> /\ Outstanding = {} /\ Len(sent) = Len(wire)
      BY <2>5 DEF WriterInv
    <3> DEFINE q == Append(write_queue, m)
    <3>2. DoWrite(q, op)
      BY <1>2, <2>5 DEF AsyncSend, StartIfIdle
    <3>3. q \in Seq(Messages) /\ Len(q) = 1 /\ q[1] = m
      BY <3>1 DEF TypeOK
    <3> HIDE DEF q
    <3>4. \A k \in Messages : op[k] \notin {"running", "ok", "failed"}
      BY <3>1 DEF Outstanding
    <3>5. /\ Len(sent') = Len(wire) + Len(q)
          /\ \A i \in 1 .. Len(q) : q[i] = sent'[Len(wire) + i]
      BY <1>1, <2>2, <3>1, <3>3
    <3>6. op \in [Messages -> {"none", "running", "ok", "failed", "done"}]
          /\ InOrder
      BY DEF TypeOK, WriterInv
    <3> QED
      BY <2>1, <2>2, <2>3, <3>2, <3>3, <3>4, <3>5, <3>6, DoWriteKeeps
  <2> QED
    BY <2>4, <2>5
<1>3. ASSUME NEW m \in Messages, StreamWrites(m) PROVE WriterInv'
  <2>1. /\ op[m] = "running"
        /\ op' = [op EXCEPT ![m] = "ok"]
        /\ wire' = Append(wire, m)
        /\ UNCHANGED <<write_queue, writing, sent>>
    BY <1>3 DEF StreamWrites
  <2>2. /\ Len(wire') = Len(wire) + 1
        /\ \A i \in 1 .. Len(wire) : wire'[i] = wire[i]
        /\ wire'[Len(wire) + 1] = m
    BY <2>1, AppendProperties DEF TypeOK
  <2>3. /\ Len(wire) + 1 <= Len(sent) /\ sent[Len(wire) + 1] = m
        /\ Rest(Len(wire) + 1)
    BY <2>1 DEF WriterInv
  <2>4. Outstanding' = Outstanding /\ m \in Outstanding
    BY <2>1 DEF Outstanding, TypeOK
  <2>5. writing
    BY <2>4 DEF WriterInv
  <2>6. InOrder'
    BY <1>1, <2>1, <2>2, <2>3 DEF WriterInv, InOrder
  <2>7. \A k \in Messages : op'[k] # "running"
    BY <2>1, <2>4 DEF WriterInv, Outstanding, TypeOK
  <2>8. Rest(Len(wire))'
    BY <2>1, <2>2, <2>3 DEF Rest
  <2> QED
    BY <2>1, <2>4, <2>5, <2>6, <2>7, <2>8 DEF WriterInv
<1>4. ASSUME NEW m \in Messages, StreamFails(m) PROVE WriterInv'
  <2>1. /\ op[m] = "running"
        /\ op' = [op EXCEPT ![m] = "failed"]
        /\ UNCHANGED <<write_queue, writing, sent, wire>>
    BY <1>4 DEF StreamFails
  <2>2. Outstanding' = Outstanding /\ m \in Outstanding
    BY <2>1 DEF Outstanding, TypeOK
  <2>3. writing
    BY <2>2 DEF WriterInv
  <2>4. InOrder'
    BY <2>1 DEF WriterInv, InOrder
  <2>5. \A k \in Messages : op'[k] # "running" /\ op'[k] # "ok"
    BY <2>1, <2>2 DEF WriterInv, Outstanding, TypeOK
  <2> QED
    BY <2>1, <2>2, <2>3, <2>4, <2>5 DEF WriterInv
<1>5. ASSUME NEW m \in Messages, CompleteOk(m) PROVE WriterInv'
  <2> DEFINE ops == [op EXCEPT ![m] = "done"]
  <2>1. /\ op[m] = "ok"
        /\ DoWrite(write_queue, ops)
        /\ UNCHANGED <<wire, sent>>
    BY <1>5 DEF CompleteOk
  <2>2. ops \in [Messages -> {"none", "running", "ok", "failed", "done"}]
    BY DEF TypeOK
  <2>3. m \in Outstanding
    BY <2>1 DEF Outstanding
  <2>4. \A k \in Messages : ops[k] \notin {"running", "ok", "failed"}
    BY <2>3 DEF WriterInv, Outstanding, TypeOK
  <2>5. Rest(Len(wire))
    BY <2>1 DEF WriterInv
  <2>6. InOrder /\ InOrder'
    BY <2>1 DEF WriterInv, InOrder
  <2> HIDE DEF ops
  <2>7. write_queue \in Seq(Messages) /\ sent' \in Seq(Messages) /\ wire' = wire
    BY <2>1 DEF TypeOK
  <2>8. /\ Len(sent') = Len(wire) + Len(write_queue)
        /\ \A i \in 1 .. Len(write_queue) : write_queue[i] = sent'[Len(wire) + i]
    BY <2>1, <2>5 DEF Rest
  <2> QED
    BY <2>1, <2>2, <2>4, <2>6, <2>7, <2>8, DoWriteKeeps
<1>6. ASSUME NEW m \in Messages, CompleteFailed(m) PROVE WriterInv'
  <2>1. /\ op[m] = "failed"
        /\ op' = [op EXCEPT ![m] = "done"]
        /\ write_queue' = <<>>
        /\ UNCHANGED <<writing, wire, sent>>
    BY <1>6 DEF CompleteFailed
  <2>2. m \in Outstanding
    BY <2>1 DEF Outstanding
  <2>3. writing
    BY <2>2 DEF WriterInv
  <2>4. Outstanding' = {}
    BY <2>1, <2>2 DEF WriterInv, Outstanding, TypeOK
  <2>5. \A k \in Messages : op'[k] # "running" /\ op'[k] # "ok"
    BY <2>4 DEF Outstanding
  <2>6. InOrder'
    BY <2>1 DEF WriterInv, InOrder
  <2> QED
    BY <2>1, <2>3, <2>4, <2>5, <2>6 DEF WriterInv
<1>7. CASE UNCHANGED <<write_queue, writing, op, wire, sent>>
  BY <1>7 DEF WriterInv, Outstanding, InOrder, Rest
<1>8. ASSUME NEW m \in Messages, AsyncSendRejected(m) PROVE WriterInv'
  BY <1>7, <1>8 DEF AsyncSendRejected
<1>9. ASSUME NEW enable \in BOOLEAN, EnableMaxQueue(enable) PROVE WriterInv'
  BY <1>7, <1>9 DEF EnableMaxQueue
<1>10. CASE CloseGraceful
  BY <1>7, <1>10 DEF CloseGraceful
<1>11. CASE UNCHANGED vars
  BY <1>7, <1>11 DEF vars
<1>12. ~CloseForce
  BY DEF CloseForce
<1> QED
  BY <1>2, <1>3, <1>4, <1>5, <1>6, <1>8, <1>9, <1>10, <1>11, <1>12
  DEF Next, StreamStep, Complete

(* A forced close is not forgotten.                                        *)
LEMMA ForcedStays ==
    ASSUME [Next]_vars, forced
    PROVE  forced'
<1> USE DEF past
<1>1. CASE CloseForce
  BY <1>1, Zenon DEF CloseForce
<1>2. CASE UNCHANGED forced
  BY <1>2
<1>3. ASSUME NEW m \in Messages, \/ AsyncSend(m) \/ AsyncSendRejected(m)
                                \/ StreamStep(m) \/ Complete(m)
      PROVE  UNCHANGED forced
  BY <1>3 DEF AsyncSend, AsyncSendRejected, StreamStep, StreamWrites,
              StreamFails, Complete, CompleteOk, CompleteFailed
<1>4. ASSUME NEW enable \in BOOLEAN, EnableMaxQueue(enable)
      PROVE  UNCHANGED forced
  BY <1>4 DEF EnableMaxQueue
<1>5. CASE CloseGraceful
  BY <1>2, <1>5 DEF CloseGraceful
<1>6. CASE UNCHANGED vars
  BY <1>2, <1>6 DEF vars
<1> QED
  BY <1>1, <1>2, <1>3, <1>4, <1>5, <1>6 DEF Next

LEMMA WriterInvariant == Spec => [](TypeOK /\ (~forced => WriterInv))
<1>1. Init => TypeOK /\ (~forced => WriterInv)
  BY TypeInit, WriterInit
<1>2. ASSUME TypeOK, ~forced => WriterInv, [Next]_vars
      PROVE  TypeOK' /\ (~forced' => WriterInv')
  <2>1. TypeOK'
    BY <1>2, TypeNext
  <2>2. ASSUME ~forced' PROVE WriterInv'
    <3>1. ~forced
      BY <1>2, <2>2, ForcedStays
    <3> QED
      BY <1>2, <2>2, <3>1, WriterNext
  <2> QED
    BY <2>1, <2>2
<1> QED
  BY <1>1, <1>2, PTL DEF Spec

(* Until Close(true) is called, AsyncSend and the completion handlers      *)
(* never start a write while another one is under way, for any number of   *)
(* messages.                                                               *)
THEOREM WritesNeverOverlap == Spec => []OneWriteAtATime
<1>1. (~forced => WriterInv) => OneWriteAtATime
  BY DEF WriterInv, Outstanding, OneWriteAtATime, OneWriteAlways
<1> QED
  BY <1>1, WriterInvariant, PTL

(* Until Close(true) is called, the peer receives the accepted messages in *)
(* order, without gaps, up to the first write that fails.                  *)
THEOREM WritesStayInOrder == Spec => []OrderedWrites
<1>1. (~forced => WriterInv) => OrderedWrites
  BY DEF WriterInv, OrderedWrites
<1> QED
  BY <1>1, WriterInvariant, PTL

-----------------------------------------------------------------------------
(* What the callers are told, forced closes included.                      *)

OnWire(m) == \E i \in 1 .. Len(wire) : wire[i] = m

(* The entries that wait are accepted, not started and not answered, and   *)
(* none waits twice: so no message is started a second time.               *)
WaitingInv ==
    /\ \A i \in 1 .. Len(write_queue) :
          /\ op[write_queue[i]] = "none" /\ answer[write_queue[i]] = "none"
          /\ \E k \in 1 .. Len(sent) : sent[k] = write_queue[i]
    /\ \A i, j \in 1 .. Len(write_queue) : write_queue[i] = write_queue[j] => i = j

(* An operation and an answer agree with the wire.                         *)
AnswerInv ==
    \A m \in Messages :
        /\ op[m] = "ok" \/ answer[m] = "ok" => OnWire(m)
        /\ op[m] \in {"none", "running", "failed"} \/ answer[m] = "failed" => ~OnWire(m)
        /\ op[m] \in {"running", "ok", "failed"} => answer[m] = "none"

LEMMA AnswersNext ==
    ASSUME TypeOK, WaitingInv, AnswerInv, [Next]_vars
    PROVE  WaitingInv' /\ AnswerInv'
<1> USE DEF queue, modes, past
<1>1. /\ Len(wire) \in Nat /\ Len(sent) \in Nat /\ Len(write_queue) \in Nat
      /\ \A i \in 1 .. Len(write_queue) : write_queue[i] \in Messages
      /\ DOMAIN sent = 1 .. Len(sent)
  BY LenProperties, ElementOfSeq DEF TypeOK
<1>2. ASSUME NEW q \in Seq(Messages),
             NEW ops \in [Messages -> {"none", "running", "ok", "failed", "done"}],
             NEW ans \in [Messages -> {"none", "ok", "failed"}],
             NEW acc \in Seq(Messages),
             DoWrite(q, ops), answer' = ans, sent' = acc, wire' = wire,
             \A i \in 1 .. Len(q) :
                /\ ops[q[i]] = "none" /\ ans[q[i]] = "none"
                /\ \E k \in 1 .. Len(acc) : acc[k] = q[i],
             \A i, j \in 1 .. Len(q) : q[i] = q[j] => i = j,
             \A m \in Messages :
                /\ ops[m] = "ok" \/ ans[m] = "ok" => OnWire(m)
                /\ ops[m] \in {"none", "running", "failed"} \/ ans[m] = "failed"
                      => ~OnWire(m)
                /\ ops[m] \in {"running", "ok", "failed"} => ans[m] = "none"
      PROVE  WaitingInv' /\ AnswerInv'
  <2>1. CASE q = <<>>
    <3>1. write_queue' = <<>> /\ op' = ops
      BY <1>2, <2>1 DEF DoWrite
    <3>2. Len(write_queue') = 0
      BY <3>1, EmptySeq
    <3> QED
      BY <1>2, <3>1, <3>2 DEF WaitingInv, AnswerInv, OnWire
  <2>2. CASE q # <<>>
    <3>1. write_queue' = Tail(q) /\ op' = [ops EXCEPT ![Head(q)] = "running"]
      BY <1>2, <2>2 DEF DoWrite
    <3>2. /\ Head(q) \in Messages /\ Tail(q) \in Seq(Messages)
          /\ Len(Tail(q)) = Len(q) - 1
          /\ \A i \in 1 .. Len(Tail(q)) : Tail(q)[i] = q[i + 1]
          /\ Len(q) \in Nat \ {0} /\ Head(q) = q[1]
      BY <2>2, HeadTailProperties, EmptySeq
    <3>3. ops[Head(q)] = "none" /\ ans[Head(q)] = "none"
      <4>1. 1 \in 1 .. Len(q)
        BY <3>2
      <4> QED
        BY <1>2, <3>2, <4>1
    <3>4. \A i \in 1 .. Len(Tail(q)) :
             i + 1 \in 1 .. Len(q) /\ Tail(q)[i] = q[i + 1] /\ q[i + 1] # q[1]
             /\ q[i + 1] \in Messages
      <4> SUFFICES ASSUME NEW i \in 1 .. Len(Tail(q))
                   PROVE  i + 1 \in 1 .. Len(q) /\ Tail(q)[i] = q[i + 1]
                          /\ q[i + 1] # q[1] /\ q[i + 1] \in Messages
        OBVIOUS
      <4>1. i + 1 \in 1 .. Len(q) /\ 1 \in 1 .. Len(q) /\ i + 1 # 1
        BY <3>2
      <4>2. q[i + 1] # q[1]
        BY <1>2, <4>1
      <4> QED
        BY <3>2, <4>1, <4>2, ElementOfSeq
    <3>5. WaitingInv'
      <4>1. ASSUME NEW i \in 1 .. Len(Tail(q))
            PROVE  /\ op'[Tail(q)[i]] = "none" /\ ans[Tail(q)[i]] = "none"
                   /\ \E k \in 1 .. Len(acc) : acc[k] = Tail(q)[i]
        BY <1>2, <3>1, <3>2, <3>4
      <4>2. ASSUME NEW i \in 1 .. Len(Tail(q)), NEW j \in 1 .. Len(Tail(q)),
                   Tail(q)[i] = Tail(q)[j]
            PROVE  i = j
        <5>1. i + 1 = j + 1
          BY <1>2, <3>4, <4>2
        <5> QED
          BY <3>2, <5>1
      <4> QED
        BY <1>2, <3>1, <4>1, <4>2 DEF WaitingInv
    <3>6. AnswerInv'
      <4> SUFFICES ASSUME NEW m \in Messages
                   PROVE  /\ op'[m] = "ok" \/ ans[m] = "ok" => OnWire(m)
                          /\ op'[m] \in {"none", "running", "failed"}
                             \/ ans[m] = "failed" => ~OnWire(m)
                          /\ op'[m] \in {"running", "ok", "failed"} => ans[m] = "none"
        BY <1>2 DEF AnswerInv, OnWire
      <4>1. CASE m = Head(q)
        <5>1. op'[m] = "running"
          BY <3>1, <3>2, <4>1
        <5> QED
          BY <1>2, <3>3, <4>1, <5>1
      <4>2. CASE m # Head(q)
        <5>1. op'[m] = ops[m]
          BY <3>1, <3>2, <4>2
        <5> QED
          BY <1>2, <5>1
      <4> QED
        BY <4>1, <4>2
    <3> QED
      BY <3>5, <3>6
  <2> QED
    BY <2>1, <2>2
<1>3. ASSUME NEW m \in Messages, AsyncSend(m) PROVE WaitingInv' /\ AnswerInv'
  <2> DEFINE q == Append(write_queue, m)
  <2>1. /\ op[m] = "none" /\ answer[m] = "none"
        /\ \A i \in 1 .. Len(sent) : sent[i] # m
        /\ sent' = Append(sent, m) /\ UNCHANGED <<wire, answer>>
        /\ StartIfIdle(q)
    BY <1>1, <1>3 DEF AsyncSend, New
  <2>2. /\ sent' \in Seq(Messages) /\ Len(sent') = Len(sent) + 1
        /\ \A i \in 1 .. Len(sent) : sent'[i] = sent[i]
        /\ sent'[Len(sent) + 1] = m
    BY <2>1, AppendProperties DEF TypeOK
  <2>3. /\ q \in Seq(Messages) /\ Len(q) = Len(write_queue) + 1
        /\ \A i \in 1 .. Len(write_queue) : q[i] = write_queue[i]
        /\ q[Len(write_queue) + 1] = m
    BY AppendProperties DEF TypeOK
  <2> HIDE DEF q
  <2>4. ASSUME NEW i \in 1 .. Len(q)
        PROVE  /\ op[q[i]] = "none" /\ answer[q[i]] = "none"
               /\ \E k \in 1 .. Len(sent') : sent'[k] = q[i]
    <3>1. CASE i \in 1 .. Len(write_queue)
      <4>1. PICK k \in 1 .. Len(sent) : sent[k] = write_queue[i]
        BY <3>1 DEF WaitingInv
      <4>2. k \in 1 .. Len(sent') /\ sent'[k] = q[i]
        BY <1>1, <2>2, <2>3, <3>1, <4>1
      <4> QED
        BY <2>3, <3>1, <4>2 DEF WaitingInv
    <3>2. CASE i = Len(write_queue) + 1
      <4>1. Len(sent) + 1 \in 1 .. Len(sent')
        BY <1>1, <2>2
      <4> QED
        BY <2>1, <2>2, <2>3, <3>2, <4>1
    <3> QED
      BY <1>1, <2>3, <3>1, <3>2
  <2>5. ASSUME NEW i \in 1 .. Len(q), NEW j \in 1 .. Len(q), q[i] = q[j]
        PROVE  i = j
    <3> DEFINE n == Len(write_queue)
    <3>1. \A k \in 1 .. n : write_queue[k] # m
      BY <2>1 DEF WaitingInv
    <3>2. \A k \in 1 .. Len(q) : k \in 1 .. n \/ k = n + 1
      BY <1>1, <2>3
    <3>3. CASE i \in 1 .. n /\ j \in 1 .. n
      <4>1. write_queue[i] = write_queue[j]
        BY <2>3, <2>5, <3>3
      <4> QED
        BY <3>3, <4>1 DEF WaitingInv
    <3>4. CASE i \in 1 .. n /\ j = n + 1
      BY <2>3, <2>5, <3>1, <3>4
    <3>5. CASE i = n + 1 /\ j \in 1 .. n
      BY <2>3, <2>5, <3>1, <3>5
    <3> QED
      BY <3>2, <3>3, <3>4, <3>5
  <2>6. CASE writing
    <3>1. write_queue' = q /\ op' = op
      BY <2>1, <2>6 DEF StartIfIdle
    <3>2. WaitingInv'
      BY <2>1, <2>4, <2>5, <3>1 DEF WaitingInv
    <3> QED
      BY <2>1, <3>1, <3>2 DEF AnswerInv, OnWire
  <2>7. CASE ~writing
    <3>1. DoWrite(q, op)
      BY <2>1, <2>7 DEF StartIfIdle
    <3>2. /\ op \in [Messages -> {"none", "running", "ok", "failed", "done"}]
          /\ answer \in [Messages -> {"none", "ok", "failed"}]
      BY DEF TypeOK
    <3>3. \A k \in Messages :
             /\ op[k] = "ok" \/ answer[k] = "ok" => OnWire(k)
             /\ op[k] \in {"none", "running", "failed"} \/ answer[k] = "failed"
                   => ~OnWire(k)
             /\ op[k] \in {"running", "ok", "failed"} => answer[k] = "none"
      BY DEF AnswerInv
    <3>4. wire' = wire /\ answer' = answer
      BY <2>1
    <3> QED
      BY <1>2, <2>2, <2>3, <2>4, <2>5, <3>1, <3>2, <3>3, <3>4
  <2> QED
    BY <2>6, <2>7
<1>4. ASSUME NEW m \in Messages, AsyncSendRejected(m) PROVE WaitingInv' /\ AnswerInv'
  <2>1. /\ op[m] = "none" /\ \A i \in 1 .. Len(sent) : sent[i] # m
        /\ answer' = [answer EXCEPT ![m] = "failed"]
        /\ UNCHANGED <<write_queue, op, wire, sent>>
    BY <1>1, <1>4 DEF AsyncSendRejected, New
  <2>2. \A i \in 1 .. Len(write_queue) : write_queue[i] # m
    BY <2>1 DEF WaitingInv
  <2>3. WaitingInv'
    BY <1>1, <2>1, <2>2 DEF WaitingInv, TypeOK
  <2> QED
    BY <2>1, <2>3 DEF AnswerInv, OnWire, TypeOK
<1>5. ASSUME NEW m \in Messages, StreamWrites(m) PROVE WaitingInv' /\ AnswerInv'
  <2>1. /\ op[m] = "running" /\ op' = [op EXCEPT ![m] = "ok"]
        /\ wire' = Append(wire, m) /\ UNCHANGED <<write_queue, sent, answer>>
    BY <1>5 DEF StreamWrites
  <2>2. /\ Len(wire') = Len(wire) + 1
        /\ \A i \in 1 .. Len(wire) : wire'[i] = wire[i]
        /\ wire'[Len(wire) + 1] = m
    BY <2>1, AppendProperties DEF TypeOK
  <2>3. \A k \in Messages : OnWire(k)' <=> OnWire(k) \/ k = m
    BY <1>1, <2>2 DEF OnWire
  <2>4. \A i \in 1 .. Len(write_queue) : write_queue[i] # m
    BY <2>1 DEF WaitingInv
  <2>5. WaitingInv'
    BY <1>1, <2>1, <2>4 DEF WaitingInv, TypeOK
  <2>6. ASSUME NEW k \in Messages
        PROVE  /\ op'[k] = "ok" \/ answer[k] = "ok" => OnWire(k)'
               /\ op'[k] \in {"none", "running", "failed"} \/ answer[k] = "failed"
                     => ~OnWire(k)'
               /\ op'[k] \in {"running", "ok", "failed"} => answer[k] = "none"
    <3>1. CASE k = m
      BY <2>1, <2>3, <3>1 DEF AnswerInv, TypeOK
    <3>2. CASE k # m
      BY <2>1, <2>3, <3>2 DEF AnswerInv, TypeOK
    <3> QED
      BY <3>1, <3>2
  <2> QED
    BY <2>1, <2>5, <2>6 DEF AnswerInv
<1>6. ASSUME NEW m \in Messages, StreamFails(m) PROVE WaitingInv' /\ AnswerInv'
  <2>1. /\ op[m] = "running" /\ op' = [op EXCEPT ![m] = "failed"]
        /\ UNCHANGED <<write_queue, sent, answer, wire>>
    BY <1>6 DEF StreamFails
  <2>2. \A i \in 1 .. Len(write_queue) : write_queue[i] # m
    BY <2>1 DEF WaitingInv
  <2>3. WaitingInv'
    BY <1>1, <2>1, <2>2 DEF WaitingInv, TypeOK
  <2> QED
    BY <2>1, <2>3 DEF AnswerInv, OnWire, TypeOK
<1>7. ASSUME NEW m \in Messages, CompleteOk(m) PROVE WaitingInv' /\ AnswerInv'
  <2> DEFINE ops == [op EXCEPT ![m] = "done"]
             ans == [answer EXCEPT ![m] = "ok"]
  <2>1. /\ op[m] = "ok" /\ answer' = ans /\ DoWrite(write_queue, ops)
        /\ UNCHANGED <<wire, sent>>
    BY <1>7 DEF CompleteOk
  <2>2. /\ ops \in [Messages -> {"none", "running", "ok", "failed", "done"}]
        /\ ans \in [Messages -> {"none", "ok", "failed"}]
        /\ \A k \in Messages : /\ ops[k] = IF k = m THEN "done" ELSE op[k]
                               /\ ans[k] = IF k = m THEN "ok" ELSE answer[k]
    BY DEF TypeOK
  <2> HIDE DEF ops, ans
  <2>3. \A i \in 1 .. Len(write_queue) : write_queue[i] # m
    BY <2>1 DEF WaitingInv
  <2>4. write_queue \in Seq(Messages) /\ sent \in Seq(Messages)
    BY DEF TypeOK
  <2>5. \A i \in 1 .. Len(write_queue) :
           /\ ops[write_queue[i]] = "none" /\ ans[write_queue[i]] = "none"
           /\ \E k \in 1 .. Len(sent) : sent[k] = write_queue[i]
    BY <1>1, <2>2, <2>3 DEF WaitingInv
  <2>6. \A i, j \in 1 .. Len(write_queue) : write_queue[i] = write_queue[j] => i = j
    BY DEF WaitingInv
  <2>7. \A k \in Messages :
           /\ ops[k] = "ok" \/ ans[k] = "ok" => OnWire(k)
           /\ ops[k] \in {"none", "running", "failed"} \/ ans[k] = "failed"
                 => ~OnWire(k)
           /\ ops[k] \in {"running", "ok", "failed"} => ans[k] = "none"
    BY <2>1, <2>2 DEF AnswerInv
  <2> QED
    BY <1>2, <2>1, <2>2, <2>4, <2>5, <2>6, <2>7
<1>8. ASSUME NEW m \in Messages, CompleteFailed(m) PROVE WaitingInv' /\ AnswerInv'
  <2>1. /\ op[m] = "failed" /\ op' = [op EXCEPT ![m] = "done"]
        /\ answer' = [answer EXCEPT ![m] = "failed"]
        /\ write_queue' = <<>> /\ UNCHANGED <<wire, sent>>
    BY <1>8 DEF CompleteFailed
  <2>2. Len(write_queue') = 0
    BY <2>1, EmptySeq
  <2>3. WaitingInv'
    BY <2>2 DEF WaitingInv
  <2> QED
    BY <2>1, <2>3 DEF AnswerInv, OnWire, TypeOK
<1>9. CASE CloseForce
  <2>1. /\ op' = [m \in Messages |-> IF op[m] = "running" THEN "failed" ELSE op[m]]
        /\ write_queue' = <<>> /\ UNCHANGED <<wire, sent, answer>>
    BY <1>9 DEF CloseForce
  <2>2. Len(write_queue') = 0
    BY <2>1, EmptySeq
  <2>3. WaitingInv'
    BY <2>2 DEF WaitingInv
  <2> QED
    BY <2>1, <2>3 DEF AnswerInv, OnWire
<1>10. CASE UNCHANGED <<write_queue, op, wire, sent, answer>>
  BY <1>10 DEF WaitingInv, AnswerInv, OnWire
<1>11. ASSUME NEW enable \in BOOLEAN, EnableMaxQueue(enable)
       PROVE  WaitingInv' /\ AnswerInv'
  BY <1>10, <1>11 DEF EnableMaxQueue
<1>12. CASE CloseGraceful \/ UNCHANGED vars
  BY <1>10, <1>12 DEF CloseGraceful, vars
<1> QED
  BY <1>3, <1>4, <1>5, <1>6, <1>7, <1>8, <1>9, <1>11, <1>12
  DEF Next, StreamStep, Complete

(* A completion handler is told "ok" exactly of what reached the wire and  *)
(* "failed" of what did not, in every order of sends, completions,         *)
(* failures, graceful and forced closes.                                   *)
THEOREM AnswersStayTruthful == Spec => []AnswersTruthful
<1>1. Init => WaitingInv /\ AnswerInv
  <2> SUFFICES ASSUME Init PROVE WaitingInv /\ AnswerInv
    OBVIOUS
  <2>1. Len(write_queue) = 0 /\ Len(wire) = 0
    BY EmptySeq DEF Init
  <2> QED
    BY <2>1 DEF Init, WaitingInv, AnswerInv, OnWire
<1>2. TypeOK /\ WaitingInv /\ AnswerInv /\ [Next]_vars => (WaitingInv /\ AnswerInv)'
  BY AnswersNext
<1>3. TypeOK /\ AnswerInv => AnswersTruthful
  <2> SUFFICES ASSUME TypeOK, AnswerInv PROVE AnswersTruthful
    OBVIOUS
  <2>1. DOMAIN wire = 1 .. Len(wire)
    BY LenProperties DEF TypeOK
  <2> QED
    BY <2>1 DEF AnswerInv, OnWire, AnswersTruthful
<1> QED
  BY <1>1, <1>2, <1>3, TypeCorrect, PTL DEF Spec
=============================================================================
