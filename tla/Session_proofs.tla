--------------------------- MODULE Session_proofs ---------------------------
(***************************************************************************)
(* Theorems about Session, for any messages and any number of calls.  The  *)
(* ones about writing assume that AsyncSend is called on the executor: on  *)
(* other threads it races the handlers, and two writes are possible.       *)
(***************************************************************************)
EXTENDS Session, SequenceTheorems, TLAPS

(* The message async_write is writing, as a sequence.                      *)
Current == IF inflight = {} THEN <<>> ELSE <<CHOOSE m \in inflight : TRUE>>

(* The executor runs one call at a time, and the one that is about to      *)
(* call WriteNext has seen no write in progress.                           *)
BusyInv ==
    /\ \A m \in Messages : spc[m] \in {"test", "next"} <=> busy = m
    /\ \A m \in Messages : spc[m] = "next" => ~write_in_progress
    /\ busy = "handler" => ~write_in_progress

(* write_in_progress_ is set while a message is in flight, and until the   *)
(* shutdown only then; nobody leaves the executor with messages waiting    *)
(* and no write in flight.                                                 *)
WriteInv ==
    /\ \A a, b \in inflight : a = b
    /\ inflight # {} => write_in_progress
    /\ ~shutdown_in_progress /\ write_in_progress => inflight # {}
    /\ ~shutdown_in_progress /\ busy \in {"none", "gone"} /\ write_deque # <<>>
          => inflight # {}

-----------------------------------------------------------------------------
(* Types.                                                                  *)

LEMMA TypeInit == Init => TypeOK
<1> SUFFICES ASSUME Init PROVE TypeOK
  OBVIOUS
<1>1. <<>> \in Seq(Messages)
  BY EmptySeq
<1>2. expired \in [Timers -> 0 .. MaxExpired]
  BY SessionAssumption DEF Init
<1>3. spc \in [Messages -> {"new", "filtered", "test", "next", "done"}]
  BY DEF Init
<1>4. /\ open = TRUE /\ framer = TRUE /\ shutdown_in_progress = FALSE
      /\ graceful_shutdown = FALSE /\ armed = {} /\ rpc = "new"
      /\ write_in_progress = FALSE /\ inflight = {} /\ hopeless = {}
      /\ busy = "none" /\ closes = 0 /\ forced = FALSE /\ notified = 0
      /\ write_deque = <<>> /\ sent = <<>> /\ written = <<>>
  BY Zenon DEF Init
<1>5. closes \in Nat /\ notified \in Nat
  BY <1>4
<1> QED
  BY <1>1, <1>2, <1>3, <1>4, <1>5, Zenon DEF TypeOK

LEMMA TypeNext == TypeOK /\ [Next]_vars => TypeOK'
<1> SUFFICES ASSUME TypeOK, [Next]_vars PROVE TypeOK'
  OBVIOUS
<1> USE DEF flags, timers, writes, calls, app, history
<1>1. <<>> \in Seq(Messages)
  BY EmptySeq
<1>a. ASSUME CloseForce
      PROVE  /\ open' \in BOOLEAN /\ shutdown_in_progress' \in BOOLEAN
             /\ write_deque' \in Seq(Messages)
  BY <1>1, <1>a, Zenon DEF CloseForce, TypeOK
<1>2. CASE Start
  <2>1. armed' \subseteq Timers
    BY <1>2 DEF Start, Timers
  <2> QED
    BY <1>2, <2>1 DEF Start, TypeOK
<1>3. CASE Close
  <2>1. /\ open' \in BOOLEAN /\ shutdown_in_progress' \in BOOLEAN
        /\ write_deque' \in Seq(Messages)
    BY <1>3, <1>a DEF Close
  <2>3. closes' \in Nat /\ forced' = TRUE
    BY <1>3 DEF Close, TypeOK
  <2>2. UNCHANGED <<framer, graceful_shutdown, notified, armed, expired, rpc,
                    write_in_progress, inflight, hopeless, spc, busy, sent, written>>
    BY <1>3 DEF Close
  <2> QED
    BY <2>1, <2>2, <2>3 DEF TypeOK
<1>4. CASE CloseGraceful
  <2>1. /\ open' \in BOOLEAN /\ shutdown_in_progress' \in BOOLEAN
        /\ write_deque' \in Seq(Messages)
    <3>1. CloseForce \/ UNCHANGED <<open, shutdown_in_progress, write_deque>>
      BY <1>4 DEF CloseGraceful
    <3> QED
      BY <1>a, <3>1 DEF TypeOK
  <2>2. graceful_shutdown' \in BOOLEAN /\ armed' \subseteq Timers /\ closes' \in Nat
    <3>1. /\ graceful_shutdown' = graceful_shutdown \/ graceful_shutdown' = TRUE
          /\ armed' = armed \/ armed' = {}
          /\ closes' = closes + 1
      BY <1>4, Zenon DEF CloseGraceful
    <3>2. closes' \in Nat
      BY <3>1 DEF TypeOK
    <3> QED
      BY <3>1, <3>2, Zenon DEF TypeOK
  <2>3. UNCHANGED <<framer, notified, expired, rpc, write_in_progress, inflight,
                    hopeless, spc, busy, forced, sent, written>>
    BY <1>4 DEF CloseGraceful
  <2> QED
    BY <2>1, <2>2, <2>3 DEF TypeOK
<1>5. ASSUME NEW m \in Messages, AsyncSend(m) PROVE TypeOK'
  <2>1. /\ Append(write_deque, m) \in Seq(Messages)
        /\ Append(sent, m) \in Seq(Messages)
    BY AppendProperties DEF TypeOK
  <2>2. /\ write_deque' \in Seq(Messages) /\ sent' \in Seq(Messages)
        /\ spc' \in [Messages -> {"new", "filtered", "test", "next", "done"}]
        /\ busy' \in Messages \cup {"none", "handler", "gone"}
    BY <1>5, <2>1 DEF AsyncSend, TypeOK
  <2> QED
    BY <1>5, <2>2 DEF AsyncSend, TypeOK
<1>6. ASSUME NEW m \in Messages, SendTest(m) PROVE TypeOK'
  <2>1. /\ spc' \in [Messages -> {"new", "filtered", "test", "next", "done"}]
        /\ busy' \in Messages \cup {"none", "handler", "gone"}
    BY <1>6 DEF SendTest, Release, TypeOK
  <2> QED
    BY <1>6, <2>1 DEF SendTest, TypeOK
<1>7. ASSUME WriteNext
      PROVE  /\ write_deque' \in Seq(Messages) /\ write_in_progress' \in BOOLEAN
             /\ inflight' \subseteq Messages /\ hopeless' \subseteq Messages
             /\ open' \in BOOLEAN /\ shutdown_in_progress' \in BOOLEAN
  <2>1. CASE write_deque = <<>>
    BY <1>1, <1>7, <2>1 DEF WriteNext, CloseForce, TypeOK
  <2>2. CASE write_deque # <<>>
    <3>1. Head(write_deque) \in Messages /\ Tail(write_deque) \in Seq(Messages)
      BY <2>2, HeadTailProperties DEF TypeOK
    <3> QED
      BY <1>7, <2>2, <3>1 DEF WriteNext, TypeOK
  <2> QED
    BY <2>1, <2>2
<1>8. ASSUME NEW m \in Messages, SendNext(m) PROVE TypeOK'
  <2>1. /\ spc' \in [Messages -> {"new", "filtered", "test", "next", "done"}]
        /\ busy' \in Messages \cup {"none", "handler", "gone"}
        /\ WriteNext
    BY <1>8 DEF SendNext, Release, TypeOK
  <2> QED
    BY <1>7, <1>8, <2>1 DEF SendNext, TypeOK
<1>9. CASE WriteDoneNext
  <2>1. WriteNext /\ busy' = "none"
    BY <1>9 DEF WriteDoneNext
  <2> QED
    BY <1>7, <1>9, <2>1 DEF WriteDoneNext, TypeOK
<1>10. ASSUME NEW m \in Messages, WriteDone(m) PROVE TypeOK'
  <2>1. written' \in Seq(Messages)
    BY <1>10, AppendProperties DEF WriteDone, TypeOK
  <2> QED
    BY <1>10, <2>1 DEF WriteDone, TypeOK
<1>11. ASSUME Shutdown
       PROVE  /\ open' \in BOOLEAN /\ framer' \in BOOLEAN
              /\ shutdown_in_progress' \in BOOLEAN /\ graceful_shutdown' \in BOOLEAN
              /\ notified' \in Nat /\ write_deque' \in Seq(Messages)
              /\ busy' \in Messages \cup {"none", "handler", "gone"}
  <2>1. /\ notified' = notified \/ notified' = notified + 1
        /\ framer' = framer \/ framer' = FALSE
        /\ write_deque' = write_deque \/ write_deque' = <<>>
        /\ busy' = busy \/ busy' = "gone"
        /\ shutdown_in_progress' = shutdown_in_progress \/ shutdown_in_progress' = TRUE
        /\ open' = open /\ graceful_shutdown' = graceful_shutdown
    BY <1>11, Zenon DEF Shutdown
  <2>2. notified' \in Nat
    BY <2>1 DEF TypeOK
  <2> QED
    BY <1>1, <2>1, <2>2, Zenon DEF TypeOK
<1>12. ASSUME NEW m \in Messages, WriteFails(m) PROVE TypeOK'
  <2>1. Shutdown /\ inflight' \subseteq Messages
    BY <1>12 DEF WriteFails, TypeOK
  <2> QED
    BY <1>11, <1>12, <2>1 DEF WriteFails, TypeOK
<1>13. CASE ReadData
  BY <1>13 DEF ReadData, TypeOK
<1>14. CASE ReadAgain
  <2>1. armed' \subseteq Timers
    BY <1>14 DEF ReadAgain, StartRead, Timers, TypeOK
  <2> QED
    BY <1>14, <2>1 DEF ReadAgain, StartRead, TypeOK
<1>15. CASE ReadFails
  BY <1>11, <1>15 DEF ReadFails, TypeOK
<1>16. ASSUME NEW t \in Timers, TimerExpires(t) PROVE TypeOK'
  <2>1. expired' \in [Timers -> 0 .. MaxExpired] /\ armed' \subseteq Timers
    BY <1>16, SessionAssumption DEF TimerExpires, TypeOK
  <2> QED
    BY <1>16, <2>1 DEF TimerExpires, TypeOK
<1>17. ASSUME NEW t \in Timers, Timeout(t) PROVE TypeOK'
  <2>1. expired' \in [Timers -> 0 .. MaxExpired]
    BY <1>17, SessionAssumption DEF Timeout, TypeOK
  <2> QED
    BY <1>11, <1>17, <2>1 DEF Timeout, TypeOK
<1>18. CASE RunAgain
  BY <1>18 DEF RunAgain, TypeOK
<1>19. CASE UNCHANGED vars
  BY <1>19 DEF vars, TypeOK
<1> QED
  BY <1>2, <1>3, <1>4, <1>5, <1>6, <1>8, <1>9, <1>10, <1>12, <1>13, <1>14, <1>15,
     <1>16, <1>17, <1>18, <1>19
  DEF Next, Sending

(* Every variable of the session keeps its type, wherever AsyncSend is     *)
(* called from.                                                            *)
THEOREM TypeCorrect == Spec => []TypeOK
BY TypeInit, TypeNext, PTL DEF Spec

-----------------------------------------------------------------------------
(* The direct write path.                                                  *)

(* WriteNext, called when nothing is in flight, takes the oldest message,  *)
(* or finds none.                                                          *)
LEMMA WriteNextEffect ==
    ASSUME inflight = {}, WriteNext
    PROVE  \/ /\ write_deque = <<>> /\ write_deque' = <<>>
              /\ write_in_progress' = FALSE /\ inflight' = {}
           \/ /\ write_deque # <<>> /\ write_deque' = Tail(write_deque)
              /\ write_in_progress' = TRUE /\ inflight' = {Head(write_deque)}
              /\ shutdown_in_progress' = shutdown_in_progress /\ open' = open
BY Zenon DEF WriteNext, CloseForce

LEMMA BusyNext ==
    ASSUME ~SendAnywhere, TypeOK, BusyInv, WriteInv, [Next]_vars
    PROVE  BusyInv' /\ WriteInv'
<1> USE DEF flags, timers, writes, calls, app, history
<1>0. \A m \in Messages : m # "none" /\ m # "handler" /\ m # "gone"
  BY SessionAssumption
<1>1. CASE UNCHANGED <<writes, calls, shutdown_in_progress>>
  BY <1>1 DEF BusyInv, WriteInv
<1>2. CASE \/ Start \/ ReadAgain \/ UNCHANGED vars
           \/ \E t \in Timers : TimerExpires(t)
  BY <1>1, <1>2 DEF Start, ReadAgain, TimerExpires, vars
<1>3. ASSUME \/ UNCHANGED <<shutdown_in_progress, write_deque>>
             \/ shutdown_in_progress' = TRUE,
             \/ busy' = busy
             \/ busy \in {"none", "gone"} /\ busy' \in {"none", "gone"},
             UNCHANGED <<write_in_progress, inflight, spc>>
      PROVE  BusyInv' /\ WriteInv'
  BY <1>0, <1>3 DEF BusyInv, WriteInv
<1>14. CASE ReadData \/ RunAgain
  BY <1>3, <1>14 DEF ReadData, RunAgain
<1>4. CASE Close
  BY <1>3, <1>4 DEF Close, CloseForce
<1>5. CASE CloseGraceful
  BY <1>3, <1>5 DEF CloseGraceful, CloseForce
<1>6. CASE ReadFails \/ \E t \in Timers : Timeout(t)
  BY <1>3, <1>6 DEF ReadFails, Timeout, Shutdown
<1>7. ASSUME NEW m \in Messages, AsyncSend(m) PROVE BusyInv' /\ WriteInv'
  <2>1. /\ spc[m] = "new" /\ busy = "none"
        /\ UNCHANGED <<write_in_progress, inflight, shutdown_in_progress>>
    BY <1>7 DEF AsyncSend
  <2>2. CASE /\ \A k \in Messages : spc'[k] = IF k = m THEN "filtered" ELSE spc[k]
             /\ UNCHANGED <<busy, write_deque>>
    BY <1>0, <2>1, <2>2 DEF BusyInv, WriteInv
  <2>3. CASE /\ \A k \in Messages : spc'[k] = IF k = m THEN "test" ELSE spc[k]
             /\ busy' = m
    BY <1>0, <2>1, <2>3 DEF BusyInv, WriteInv
  <2> QED
    BY <1>7, <2>2, <2>3 DEF AsyncSend, TypeOK
<1>8. ASSUME NEW m \in Messages, SendTest(m) PROVE BusyInv' /\ WriteInv'
  <2>1. /\ spc[m] = "test" /\ busy = m
        /\ UNCHANGED <<write_deque, write_in_progress, inflight, shutdown_in_progress>>
    BY <1>8 DEF SendTest, BusyInv
  <2>2. CASE /\ write_in_progress /\ busy' = "none"
             /\ \A k \in Messages : spc'[k] = IF k = m THEN "done" ELSE spc[k]
    BY <1>0, <2>1, <2>2 DEF BusyInv, WriteInv
  <2>3. CASE /\ ~write_in_progress /\ busy' = busy
             /\ \A k \in Messages : spc'[k] = IF k = m THEN "next" ELSE spc[k]
    BY <1>0, <2>1, <2>3 DEF BusyInv, WriteInv
  <2> QED
    BY <1>8, <2>1, <2>2, <2>3 DEF SendTest, Release, TypeOK
<1>9. ASSUME WriteNext, ~write_in_progress, busy' = "none",
             \A k \in Messages : spc'[k] \notin {"test", "next"}
      PROVE  BusyInv' /\ WriteInv'
  <2>1. inflight = {}
    BY <1>9 DEF WriteInv
  <2> QED
    BY <1>0, <1>9, <2>1, WriteNextEffect DEF BusyInv, WriteInv
<1>10. ASSUME NEW m \in Messages, SendNext(m) PROVE BusyInv' /\ WriteInv'
  <2>1. WriteNext /\ ~write_in_progress /\ busy = m /\ busy' = "none"
    BY <1>10 DEF SendNext, Release, BusyInv
  <2>2. \A k \in Messages : spc'[k] \notin {"test", "next"}
    BY <1>10, <2>1 DEF SendNext, BusyInv, TypeOK
  <2> QED
    BY <1>9, <2>1, <2>2
<1>11. CASE WriteDoneNext
  <2>1. WriteNext /\ ~write_in_progress /\ busy' = "none"
    BY <1>11 DEF WriteDoneNext, BusyInv
  <2>2. \A k \in Messages : spc'[k] \notin {"test", "next"}
    BY <1>0, <1>11 DEF WriteDoneNext, BusyInv
  <2> QED
    BY <1>9, <2>1, <2>2
<1>12. ASSUME NEW m \in Messages, WriteDone(m) PROVE BusyInv' /\ WriteInv'
  <2>1. inflight' = {} /\ write_in_progress' = FALSE /\ busy = "none"
        /\ busy' = "handler" /\ spc' = spc
    BY <1>12 DEF WriteDone, WriteInv
  <2> QED
    BY <1>0, <2>1 DEF BusyInv, WriteInv
<1>13. ASSUME NEW m \in Messages, WriteFails(m) PROVE BusyInv' /\ WriteInv'
  <2>1. /\ inflight' = {} /\ m \in inflight
        /\ shutdown_in_progress' = TRUE \/ shutdown_in_progress' = shutdown_in_progress
        /\ UNCHANGED <<write_in_progress, spc>>
        /\ busy = "none" /\ busy' \in {"none", "gone"}
    BY <1>13 DEF WriteFails, Shutdown, WriteInv
  <2>2. shutdown_in_progress' = TRUE
    BY <1>13 DEF WriteFails, Shutdown, TypeOK
  <2> QED
    BY <1>0, <2>1, <2>2 DEF BusyInv, WriteInv
<1> QED
  BY <1>2, <1>4, <1>5, <1>6, <1>7, <1>8, <1>10, <1>11, <1>12, <1>13, <1>14
  DEF Next, Sending

LEMMA OrderNext ==
    ASSUME ~SendAnywhere, TypeOK, BusyInv, WriteInv, WrittenInOrder, [Next]_vars
    PROVE  WrittenInOrder'
<1> USE DEF flags, timers, writes, calls, app, history
<1>0. WrittenInOrder <=>
         (~shutdown_in_progress => written \o Current \o write_deque = sent)
  BY DEF WrittenInOrder, Current
<1>1. WrittenInOrder' <=>
         (~shutdown_in_progress' => written' \o Current' \o write_deque' = sent')
  BY DEF WrittenInOrder, Current
<1> SUFFICES ASSUME ~shutdown_in_progress'
             PROVE  written' \o Current' \o write_deque' = sent'
  BY <1>1
<1>2. /\ write_deque \in Seq(Messages) /\ sent \in Seq(Messages)
      /\ written \in Seq(Messages) /\ <<>> \in Seq(Messages)
  BY EmptySeq DEF TypeOK
<1>3. CASE UNCHANGED <<write_deque, inflight, shutdown_in_progress, sent, written>>
  BY <1>0, <1>3 DEF Current
<1>4. CASE \/ Start \/ ReadData \/ ReadAgain \/ RunAgain \/ UNCHANGED vars
           \/ \E t \in Timers : TimerExpires(t)
           \/ \E m \in Messages : SendTest(m)
  BY <1>3, <1>4 DEF Start, ReadData, ReadAgain, RunAgain, TimerExpires, SendTest,
     vars
<1>5. CASE Close
  BY <1>3, <1>5 DEF Close, CloseForce
<1>6. CASE CloseGraceful
  BY <1>3, <1>6 DEF CloseGraceful, CloseForce
<1>7. CASE ReadFails \/ \E t \in Timers : Timeout(t)
  BY <1>3, <1>7 DEF ReadFails, Timeout, Shutdown
<1>8. ASSUME NEW m \in Messages, AsyncSend(m)
      PROVE  written' \o Current' \o write_deque' = sent'
  <2>1. UNCHANGED <<inflight, shutdown_in_progress, written>>
    BY <1>8 DEF AsyncSend
  <2>2. CASE UNCHANGED <<write_deque, sent>>
    BY <1>3, <2>1, <2>2
  <2>3. CASE write_deque' = Append(write_deque, m) /\ sent' = Append(sent, m)
    <3>1. Current' = Current /\ Current \in Seq(Messages)
      <4>1. Current' = Current
        BY <2>1 DEF Current
      <4>2. Current \in Seq(Messages)
        BY <1>2 DEF Current, TypeOK
      <4> QED
        BY <4>1, <4>2
    <3> DEFINE w == written \o Current
    <3>2. w \in Seq(Messages) /\ <<m>> \in Seq(Messages)
      BY <1>2, <3>1, ConcatProperties
    <3>3. w \o write_deque = sent
      BY <1>0, <2>1
    <3> HIDE DEF w
    <3>4. w \o (write_deque \o <<m>>) = (w \o write_deque) \o <<m>>
      BY <1>2, <3>2, ConcatAssociative
    <3>5. write_deque' = write_deque \o <<m>> /\ sent' = sent \o <<m>>
      BY <1>2, <2>3, AppendIsConcat
    <3>6. w \o write_deque' = sent'
      BY <3>3, <3>4, <3>5
    <3> QED
      BY <2>1, <3>1, <3>6 DEF w
  <2> QED
    BY <1>8, <2>2, <2>3 DEF AsyncSend
<1>9. ASSUME WriteNext, ~write_in_progress, UNCHANGED <<sent, written>>
      PROVE  written' \o Current' \o write_deque' = sent'
  <2>1. inflight = {} /\ Current = <<>>
    BY <1>9 DEF WriteInv, Current
  <2>2. written \o <<>> = written
    BY <1>2, ConcatEmptySeq
  <2>3. CASE write_deque = <<>> /\ write_deque' = <<>> /\ inflight' = {}
    <3>1. ~shutdown_in_progress
      BY <1>9, <2>3 DEF WriteNext, CloseForce
    <3>2. Current' = <<>>
      BY <2>3 DEF Current
    <3> QED
      BY <1>0, <1>9, <2>1, <2>3, <3>1, <3>2
  <2>4. CASE /\ write_deque # <<>> /\ write_deque' = Tail(write_deque)
             /\ inflight' = {Head(write_deque)}
             /\ shutdown_in_progress' = shutdown_in_progress
    <3>1. Head(write_deque) \in Messages /\ Tail(write_deque) \in Seq(Messages)
      BY <1>2, <2>4, HeadTailProperties
    <3>2. Current' = <<Head(write_deque)>>
      BY <2>4 DEF Current
    <3>3. <<Head(write_deque)>> \in Seq(Messages)
      BY <3>1
    <3>4. <<Head(write_deque)>> \o Tail(write_deque) = write_deque
      BY <1>2, <2>4
    <3>5. (written \o Current') \o write_deque' = written \o (Current' \o write_deque')
      BY <1>2, <2>4, <3>1, <3>2, <3>3, ConcatAssociative
    <3>6. written \o write_deque = sent
      BY <1>0, <2>1, <2>2, <2>4
    <3> QED
      BY <1>9, <2>4, <3>2, <3>4, <3>5, <3>6
  <2> QED
    BY <1>9, <2>1, <2>3, <2>4, WriteNextEffect
<1>10. ASSUME NEW m \in Messages, SendNext(m)
       PROVE  written' \o Current' \o write_deque' = sent'
  BY <1>9, <1>10 DEF SendNext, BusyInv
<1>11. CASE WriteDoneNext
  BY <1>9, <1>11 DEF WriteDoneNext, BusyInv
<1>12. ASSUME NEW m \in Messages, WriteDone(m)
       PROVE  written' \o Current' \o write_deque' = sent'
  <2>1. /\ inflight = {m} /\ inflight' = {} /\ written' = Append(written, m)
        /\ UNCHANGED <<write_deque, sent, shutdown_in_progress>>
    BY <1>12 DEF WriteDone, WriteInv
  <2>2. Current = <<m>> /\ Current' = <<>>
    BY <2>1 DEF Current
  <2>3. written' = written \o <<m>> /\ written' \in Seq(Messages)
    BY <1>2, <2>1, AppendIsConcat, AppendProperties
  <2>4. written' \o <<>> = written'
    BY <2>3, ConcatEmptySeq
  <2> QED
    BY <1>0, <2>1, <2>2, <2>3, <2>4
<1>13. ASSUME NEW m \in Messages, WriteFails(m) PROVE FALSE
  <2>1. shutdown_in_progress' = TRUE
    BY <1>13 DEF WriteFails, Shutdown, TypeOK
  <2> QED
    BY <2>1
<1> QED
  BY <1>4, <1>5, <1>6, <1>7, <1>8, <1>10, <1>11, <1>12, <1>13 DEF Next, Sending

LEMMA WriteInit == Init => BusyInv /\ WriteInv /\ WrittenInOrder
<1> SUFFICES ASSUME Init PROVE BusyInv /\ WriteInv /\ WrittenInOrder
  OBVIOUS
<1>1. BusyInv /\ WriteInv
  BY SessionAssumption DEF Init, BusyInv, WriteInv
<1>2. <<>> \o <<>> \o <<>> = <<>>
  OBVIOUS
<1>3. WrittenInOrder
  BY <1>2 DEF Init, WrittenInOrder
<1> QED
  BY <1>1, <1>3

LEMMA WriteInvariant ==
    ASSUME ~SendAnywhere
    PROVE  Spec => [](TypeOK /\ BusyInv /\ WriteInv /\ WrittenInOrder)
<1>1. TypeOK /\ BusyInv /\ WriteInv /\ WrittenInOrder /\ [Next]_vars
         => (TypeOK /\ BusyInv /\ WriteInv /\ WrittenInOrder)'
  BY TypeNext, BusyNext, OrderNext
<1> QED
  BY <1>1, TypeInit, WriteInit, PTL DEF Spec

(* Until the session shuts down, the messages written, in flight and in    *)
(* write_deque_ are those of the calls of AsyncSend, in their order.       *)
THEOREM WritesInOrder == ASSUME ~SendAnywhere PROVE Spec => []WrittenInOrder
BY WriteInvariant, PTL

(* No handler and no call leaves a message in write_deque_ that nobody is  *)
(* going to write.                                                         *)
THEOREM NoMessageStuck == ASSUME ~SendAnywhere PROVE Spec => []NothingStuck
<1>1. WriteInv => NothingStuck
  BY DEF WriteInv, NothingStuck
<1> QED
  BY <1>1, WriteInvariant, PTL

(* Whoever closes the socket gracefully has nothing left to write.         *)
LEMMA GracefulStep ==
    ASSUME TypeOK, BusyInv, WriteInv, WrittenInOrder, [Next]_vars
    PROVE  [open /\ ~open' => forced' \/ written = sent]_vars
<1> SUFFICES ASSUME open, ~open' PROVE forced' \/ written = sent
  OBVIOUS
<1> USE DEF flags, timers, writes, calls, app, history
<1>1. ASSUME ~shutdown_in_progress, ~write_in_progress, write_deque = <<>>
      PROVE  written = sent
  <2>1. inflight = {}
    BY <1>1 DEF WriteInv
  <2>2. written \o <<>> \o <<>> = sent
    BY <1>1, <2>1 DEF WrittenInOrder
  <2>3. written \o <<>> = written
    BY ConcatEmptySeq DEF TypeOK
  <2> QED
    BY <2>2, <2>3
<1>2. CASE Close
  BY <1>2 DEF Close
<1>3. CASE CloseGraceful
  <2>1. ~shutdown_in_progress /\ Drained
    BY <1>3 DEF CloseGraceful, CloseForce
  <2> QED
    BY <1>1, <2>1 DEF Drained
<1>4. ASSUME WriteNext PROVE ~shutdown_in_progress /\ write_deque = <<>>
  BY <1>4 DEF WriteNext, CloseForce
<1>5. ASSUME NEW m \in Messages, SendNext(m) PROVE written = sent
  <2>1. ~write_in_progress /\ WriteNext
    BY <1>5 DEF SendNext, BusyInv
  <2> QED
    BY <1>1, <1>4, <2>1
<1>6. CASE WriteDoneNext
  <2>1. ~write_in_progress /\ WriteNext
    BY <1>6 DEF WriteDoneNext, BusyInv
  <2> QED
    BY <1>1, <1>4, <2>1
<1>7. CASE \/ Start \/ ReadData \/ ReadAgain \/ ReadFails \/ RunAgain
           \/ UNCHANGED vars
           \/ \E m \in Messages :
                 AsyncSend(m) \/ SendTest(m) \/ WriteDone(m) \/ WriteFails(m)
           \/ \E t \in Timers : TimerExpires(t) \/ Timeout(t)
  <2>1. open' = open
    BY <1>7 DEF Start, ReadData, ReadAgain, ReadFails, RunAgain, AsyncSend, SendTest,
       WriteDone, WriteFails, TimerExpires, Timeout, Shutdown, vars
  <2> QED
    BY <2>1
<1> QED
  BY <1>2, <1>3, <1>5, <1>6, <1>7 DEF Next, Sending

(* The socket is closed by Close(true), or when everything sent is         *)
(* written: by the graceful shutdown at once or by WriteNext later.        *)
THEOREM GracefulClosesDrained == ASSUME ~SendAnywhere PROVE Spec => GracefulDrains
BY WriteInvariant, GracefulStep, PTL DEF Spec, GracefulDrains
=============================================================================
