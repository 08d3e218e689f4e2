-------------------------- MODULE TcpClient_proofs --------------------------
(***************************************************************************)
(* Theorems about TcpClient, for any requests, any handlers, plain and TLS *)
(* streams, and any number of calls.                                       *)
(***************************************************************************)
EXTENDS TcpClient, SequenceTheorems, FiniteSetTheorems, TLAPS

(* The read handler has taken the handler of r out of the table.           *)
Held(r) == rpc = "answer" /\ Head(inbox) = r

TypeInv ==
    /\ TypeOK
    /\ rpc = "answer" => inbox # <<>> /\ Head(inbox) \in Requests

(* Until shutdown_ is set only a connected client reads, and nobody is     *)
(* inside Close.                                                           *)
LinkInv ==
    /\ ~shutdown /\ conn # "open" => rpc = "none"
    /\ app # "idle" \/ closing > 0 => shutdown

(* The handler of a request is in one place: in the table, with the read   *)
(* handler, with the time-out handler, or called.  What the peer answers   *)
(* was sent, and by then the request is counted.                           *)
RequestInv ==
    /\ \A r \in Requests :
          /\ spc[r] # "done" => tpc[r] = "off"
          /\ spc[r] \in {"count", "send"} => r \in pending
          /\ r \in wire => spc[r] \in {"timer", "done"}
          /\ spc[r] = "new" => r \notin pending /\ answers[r] = <<>>
          /\ r \in pending => answers[r] = <<>> /\ tpc[r] \in {"off", "armed"} /\ ~Held(r)
          /\ tpc[r] = "answer" => answers[r] = <<>> /\ ~Held(r)
          /\ Held(r) => answers[r] = <<>> /\ r \notin nulls
          /\ Len(answers[r]) <= 1
    /\ \A i \in 1 .. Len(inbox) : inbox[i] \in wire \cup {Push}

-----------------------------------------------------------------------------
(* Types.                                                                  *)

LEMMA TypeInit == Init => TypeInv
<1> SUFFICES ASSUME Init PROVE TypeInv
  OBVIOUS
<1>1. <<>> \in Seq(Requests \cup {Push}) /\ <<>> \in Seq({"response", "timed_out"})
  BY EmptySeq
<1>2. expired \in [Timers -> 0 .. MaxExpired]
  BY ClientAssumption DEF Init
<1>3. answers \in [Requests -> Seq({"response", "timed_out"})]
  BY <1>1 DEF Init
<1>4. /\ spc \in [Requests -> {"new", "count", "send", "timer", "done"}]
      /\ tpc \in [Requests -> {"off", "armed", "answer", "expired", "late"}]
  BY DEF Init
<1>5. /\ open = FALSE /\ shutdown = FALSE /\ app = "idle" /\ closing = 0 /\ nulls = {}
      /\ armed = {} /\ pending = {} /\ wire = {}
      /\ connects = 0 /\ closes = 0 /\ pending_requests = 0
      /\ conn = "idle" /\ rpc = "none"
  BY Zenon DEF Init
<1>6. inbox \in Seq(Requests \cup {Push})
  BY <1>1, Zenon DEF Init
<1>7. connects \in Nat /\ closes \in Nat /\ closing \in Nat /\ pending_requests \in Int
  BY <1>5
<1>9. runners \in Int /\ starts \in [{"read", "idle"} -> Nat]
  BY ClientAssumption DEF Init
<1>8. TypeOK
  BY <1>2, <1>3, <1>4, <1>5, <1>6, <1>7, <1>9, Zenon DEF TypeOK
<1> QED
  BY <1>5, <1>8 DEF TypeInv

(* What OnData makes of the bytes of one read.                             *)
LEMMA BatchType ==
    ASSUME TypeOK, NEW ms \in Batches
    PROVE  ms \in Seq(wire \cup {Push}) /\ ms \in Seq(Requests \cup {Push})
<1>1. PICK n \in 0 .. MaxBatch : ms \in [1 .. n -> wire \cup {Push}]
  BY DEF Batches
<1>2. n \in Nat
  BY ClientAssumption
<1>3. ms \in Seq(wire \cup {Push})
  BY <1>1, <1>2, SeqDef
<1>4. wire \cup {Push} \subseteq Requests \cup {Push}
  BY DEF TypeOK
<1> QED
  BY <1>3, <1>4, SeqMonotonic

LEMMA TypeNext == TypeInv /\ [Next]_vars => TypeInv'
<1> SUFFICES ASSUME TypeInv, [Next]_vars PROVE TypeInv'
  OBVIOUS
<1> USE DEF link, timers, reader, table, requests
<1>0. /\ TypeOK
      /\ rpc = "answer" => inbox # <<>> /\ Head(inbox) \in Requests
  BY DEF TypeInv
<1>1. ASSUME NEW t \in Timers, TimerExpires(t) PROVE TypeInv'
  <2>1. expired' \in [Timers -> 0 .. MaxExpired] /\ armed' \subseteq Timers
    BY <1>0, <1>1, ClientAssumption DEF TimerExpires, TypeOK
  <2> QED
    BY <1>0, <1>1, <2>1 DEF TimerExpires, TypeOK, TypeInv
<1>2. CASE Connect \/ ResolveFails \/ Resolved
  <2>1. armed' \subseteq Timers
    BY <1>0, <1>2 DEF Connect, ResolveFails, Resolved, Timers, TypeOK
  <2>2. CASE Connect
    BY <1>0, <2>1, <2>2 DEF Connect, TypeOK, TypeInv
  <2>3. CASE ResolveFails
    BY <1>0, <2>1, <2>3 DEF ResolveFails, TypeOK, TypeInv
  <2>4. CASE Resolved
    BY <1>0, <2>1, <2>4 DEF Resolved, TypeOK, TypeInv
  <2> QED
    BY <1>2, <2>2, <2>3, <2>4
<1>3. CASE ConnectFails \/ DoHandshake
  BY <1>0, <1>3 DEF ConnectFails, DoHandshake, TypeOK, TypeInv
<1>4. CASE ConnectTimeout
  <2>1. expired' \in [Timers -> 0 .. MaxExpired]
    BY <1>0, <1>4, ClientAssumption DEF ConnectTimeout, Fires, TypeOK, Timers
  <2> QED
    BY <1>0, <1>4, <2>1 DEF ConnectTimeout, TypeOK, TypeInv
<1>5. CASE Connected
  BY <1>0, <1>5 DEF Connected, StartRead, TypeOK, TypeInv
<1>6. CASE Close \/ Closed \/ HandlerClosed \/ RunAgain
  <2>1. CASE Close
    BY <1>0, <2>1 DEF Close, TypeOK, TypeInv
  <2>2. CASE Closed
    BY <1>0, <2>2 DEF Closed, TypeOK, TypeInv
  <2>3. CASE HandlerClosed
    <3>1. closing' \in Nat /\ armed' = {} /\ open' = FALSE
      BY <1>0, <2>3 DEF HandlerClosed, TypeOK
    <3> QED
      BY <1>0, <2>3, <3>1 DEF HandlerClosed, TypeOK, TypeInv
  <2>4. CASE RunAgain
    BY <1>0, <2>4 DEF RunAgain, TypeOK, TypeInv
  <2> QED
    BY <1>6, <2>1, <2>2, <2>3, <2>4
<1>17. CASE StartingRead
  <2>1. CASE StartReadBegin
    <3>1. starts' \in [{"read", "idle"} -> Nat]
      BY <1>0, <2>1 DEF StartReadBegin, TypeOK
    <3> QED
      BY <1>0, <2>1, <3>1 DEF StartReadBegin, TypeOK, TypeInv
  <2>2. ASSUME NEW t \in {"read", "idle"}, ArmTimer(t) PROVE TypeInv'
    <3>1. starts' \in [{"read", "idle"} -> Nat] /\ armed' \subseteq Timers
      BY <1>0, <2>2 DEF ArmTimer, TypeOK, Timers
    <3> QED
      BY <1>0, <2>2, <3>1 DEF ArmTimer, TypeOK, TypeInv
  <2> QED
    BY <1>17, <2>1, <2>2 DEF StartingRead
<1>7. ASSUME NEW ms \in Batches, ReadData(ms) PROVE TypeInv'
  <2>1. inbox' \in Seq(Requests \cup {Push})
    BY <1>0, <1>7, BatchType DEF ReadData, TypeOK
  <2> QED
    BY <1>0, <1>7, <2>1 DEF ReadData, TypeOK, TypeInv
<1>8. CASE ReadFails
  BY <1>0, <1>8 DEF ReadFails, HandlerCloses, TypeOK, TypeInv
<1>9. CASE ReadTimeout
  <2>1. expired' \in [Timers -> 0 .. MaxExpired]
    BY <1>0, <1>9, ClientAssumption DEF ReadTimeout, Fires, TypeOK, Timers
  <2> QED
    BY <1>0, <1>9, <2>1 DEF ReadTimeout, HandlerCloses, TypeOK, TypeInv
<1>10. CASE HandleMessage
  <2>1. inbox # <<>> /\ inbox \in Seq(Requests \cup {Push})
    BY <1>0, <1>10 DEF HandleMessage, TypeOK
  <2>2. Tail(inbox) \in Seq(Requests \cup {Push})
    BY <2>1, HeadTailProperties
  <2> QED
    BY <1>0, <1>10, <2>1, <2>2 DEF HandleMessage, TypeOK, TypeInv
<1>11. CASE Answer
  <2>1. /\ inbox # <<>> /\ inbox \in Seq(Requests \cup {Push})
        /\ Head(inbox) \in Requests
    BY <1>0, <1>11 DEF Answer, TypeOK
  <2>2. Tail(inbox) \in Seq(Requests \cup {Push})
    BY <2>1, HeadTailProperties
  <2>3. Append(answers[Head(inbox)], "response") \in Seq({"response", "timed_out"})
    BY <1>0, <2>1, AppendProperties DEF TypeOK
  <2>4. answers' \in [Requests -> Seq({"response", "timed_out"})]
    BY <1>0, <1>11, <2>3 DEF Answer, TypeOK
  <2> QED
    BY <1>0, <1>11, <2>2, <2>4 DEF Answer, TypeOK, TypeInv
<1>12. CASE ReadAgain
  BY <1>0, <1>12 DEF ReadAgain, StartRead, TypeOK, TypeInv
<1>13. ASSUME NEW r \in Requests, SendRequest(r) \/ Sending(r) PROVE TypeInv'
  <2>1. CASE SendRequest(r)
    <3>1. /\ nulls' \subseteq Requests /\ pending' \subseteq Requests
          /\ nulls' = nulls \/ nulls' = nulls \cup {r}
      BY <1>0, <2>1 DEF SendRequest, TypeOK
    <3> QED
      BY <1>0, <2>1, <3>1 DEF SendRequest, TypeOK, TypeInv
  <2>2. CASE SendCount(r)
    BY <1>0, <2>2 DEF SendCount, TypeOK, TypeInv
  <2>3. CASE SendWrite(r)
    BY <1>0, <2>3 DEF SendWrite, TypeOK, TypeInv
  <2>4. CASE SendTimer(r)
    BY <1>0, <2>4 DEF SendTimer, TypeOK, TypeInv
  <2> QED
    BY <1>13, <2>1, <2>2, <2>3, <2>4 DEF Sending
<1>14. ASSUME NEW r \in Requests, TimeoutFind(r) PROVE TypeInv'
  BY <1>0, <1>14 DEF TimeoutFind, TypeOK, TypeInv
<1>15. ASSUME NEW r \in Requests, TimeoutAnswer(r) PROVE TypeInv'
  <2>1. Append(answers[r], "timed_out") \in Seq({"response", "timed_out"})
    BY <1>0, AppendProperties DEF TypeOK
  <2>2. answers' \in [Requests -> Seq({"response", "timed_out"})]
    BY <1>0, <1>15, <2>1 DEF TimeoutAnswer, TypeOK
  <2> QED
    BY <1>0, <1>15, <2>2 DEF TimeoutAnswer, TypeOK, TypeInv
<1>16. CASE UNCHANGED vars
  BY <1>0, <1>16 DEF vars, TypeOK, TypeInv
<1> QED
  BY <1>1, <1>2, <1>3, <1>4, <1>5, <1>6, <1>7, <1>8, <1>9, <1>10, <1>11, <1>12,
     <1>13, <1>14, <1>15, <1>16, <1>17
  DEF Next, Reading, TimingOut

(* Every variable of the client keeps its type; the read handler never     *)
(* calls a handler it has not found.                                       *)
THEOREM TypeCorrect == Spec => []TypeInv
BY TypeInit, TypeNext, PTL DEF Spec

-----------------------------------------------------------------------------
(* The link and its timers.                                                *)

LEMMA LinkNext == TypeOK /\ LinkInv /\ [Next]_vars => LinkInv'
<1> SUFFICES ASSUME TypeOK, LinkInv, [Next]_vars PROVE LinkInv'
  OBVIOUS
<1> USE DEF link, timers, reader, table, requests, LinkInv, TypeOK
<1>1. CASE RunAgain \/ \E t \in Timers : TimerExpires(t)
  BY <1>1 DEF RunAgain, TimerExpires
<1>2. CASE Connect
  BY <1>2 DEF Connect, Connecting
<1>3. CASE ResolveFails \/ Resolved \/ ConnectFails \/ DoHandshake
  BY <1>3 DEF ResolveFails, Resolved, ConnectFails, DoHandshake
<1>4. CASE ConnectTimeout
  BY <1>4 DEF ConnectTimeout
<1>5. CASE Connected
  BY <1>5 DEF Connected, StartRead
<1>6. CASE Close \/ Closed \/ HandlerClosed
  BY <1>6 DEF Close, Closed, HandlerClosed
<1>7. CASE StartingRead
  BY <1>7 DEF StartingRead, StartReadBegin, ArmTimer
<1>8. ASSUME NEW ms \in Batches, ReadData(ms) PROVE LinkInv'
  BY <1>8 DEF ReadData
<1>9. CASE ReadFails \/ ReadTimeout
  BY <1>9 DEF ReadFails, ReadTimeout, HandlerCloses
<1>10. CASE Reading
  BY <1>10 DEF Reading, HandleMessage, Answer, ReadAgain, StartRead
<1>11. ASSUME NEW r \in Requests, SendRequest(r) \/ Sending(r) \/ TimingOut(r)
       PROVE  LinkInv'
  BY <1>11 DEF SendRequest, Sending, SendCount, SendWrite, SendTimer, TimingOut,
     TimeoutFind, TimeoutAnswer
<1>12. CASE UNCHANGED vars
  BY <1>12 DEF vars
<1> QED
  BY <1>1, <1>2, <1>3, <1>4, <1>5, <1>6, <1>7, <1>8, <1>9, <1>10, <1>11, <1>12
  DEF Next

LEMMA LinkInvariant == Spec => [](TypeInv /\ LinkInv)
<1>1. Init => LinkInv
  BY DEF Init, LinkInv
<1>2. TypeInv => TypeOK
  BY DEF TypeInv
<1> QED
  BY <1>1, <1>2, TypeInit, TypeNext, LinkNext, PTL DEF Spec

LEMMA WatchedNext == TypeOK /\ LinkInv /\ ReadWatched /\ [Next]_vars => ReadWatched'
<1> SUFFICES ASSUME TypeOK, LinkInv, ReadWatched, [Next]_vars,
                    rpc' = "pending", ~shutdown',
                    NEW t \in {"read", "idle"}
             PROVE  t \in armed' \/ expired'[t] > 0 \/ ArmedLater(t)'
  BY DEF ReadWatched
<1> USE DEF link, timers, reader, table, requests, ArmedLater
<1>a. /\ starts \in [{"read", "idle"} -> Nat]
      /\ expired \in [Timers -> Nat]
      /\ t \in Timers
  BY ClientAssumption DEF TypeOK, Timers
<1>0. CASE UNCHANGED <<rpc, shutdown, starts, expired>> /\ (t \in armed => t \in armed')
  BY <1>0 DEF ReadWatched
<1>1. CASE RunAgain
  BY <1>0, <1>1 DEF RunAgain
<1>2. ASSUME NEW u \in Timers, TimerExpires(u)
      PROVE  t \in armed' \/ expired'[t] > 0 \/ ArmedLater(t)'
  <2>1. \/ t \in armed' /\ t \in armed
        \/ t = u
        \/ t \notin armed
    BY <1>2 DEF TimerExpires
  <2>2. /\ UNCHANGED <<rpc, shutdown, starts>>
        /\ expired' = [expired EXCEPT ![u] = @ + 1]
    BY <1>2 DEF TimerExpires
  <2>3. expired[t] > 0 \/ t = u => expired'[t] > 0
    BY <1>a, <2>2
  <2> QED
    BY <2>1, <2>2, <2>3 DEF ReadWatched
<1>3. CASE Connect \/ ResolveFails \/ Resolved \/ ConnectFails \/ DoHandshake
  BY <1>0, <1>3 DEF Connect, ResolveFails, Resolved, ConnectFails, DoHandshake
<1>4. CASE ConnectTimeout
  <2>1. UNCHANGED <<rpc, shutdown, starts, armed>>
    BY <1>4 DEF ConnectTimeout
  <2>2. expired' = [expired EXCEPT !["connect"] = @ - 1]
    BY <1>4 DEF ConnectTimeout, Fires
  <2>3. expired'[t] = expired[t]
    BY <1>a, <2>2
  <2> QED
    BY <2>1, <2>3 DEF ReadWatched
<1>5. CASE Connected
  <2>1. rpc' = rpc \/ rpc' = "start"
    BY <1>5 DEF Connected, StartRead
  <2> QED
    BY <1>0, <1>5, <2>1 DEF Connected
<1>6. CASE Close \/ ReadFails \/ ReadTimeout
  BY <1>6 DEF Close, ReadFails, ReadTimeout, HandlerCloses
<1>7. CASE Closed \/ HandlerClosed
  BY <1>7 DEF Closed, HandlerClosed, LinkInv
<1>8. CASE StartReadBegin
  <2>1. starts'["read"] > 0
    BY <1>a, <1>8 DEF StartReadBegin
  <2> QED
    BY <2>1
<1>9. ASSUME NEW u \in {"read", "idle"}, ArmTimer(u)
      PROVE  t \in armed' \/ expired'[t] > 0 \/ ArmedLater(t)'
  <2>1. /\ UNCHANGED <<rpc, shutdown, expired>>
        /\ armed' = armed \cup {u}
        /\ starts[u] > 0
    BY <1>9 DEF ArmTimer
  <2>2. u = "read" => starts'["idle"] > 0
    BY <1>a, <1>9 DEF ArmTimer
  <2>3. u = "idle" => starts'["read"] = starts["read"]
    BY <1>a, <1>9 DEF ArmTimer
  <2> QED
    BY <2>1, <2>2, <2>3 DEF ReadWatched
<1>10. CASE Reading \/ \E ms \in Batches : ReadData(ms)
  <2>1. rpc' \in {"loop", "answer", "none", "start"}
    BY <1>10 DEF Reading, HandleMessage, Answer, ReadAgain, StartRead, ReadData
  <2> QED
    BY <2>1
<1>11. ASSUME NEW r \in Requests, SendRequest(r) \/ Sending(r) \/ TimingOut(r)
       PROVE  t \in armed' \/ expired'[t] > 0 \/ ArmedLater(t)'
  <2>1. UNCHANGED <<rpc, shutdown, starts, expired, armed>>
    BY <1>11 DEF SendRequest, Sending, SendCount, SendWrite, SendTimer, TimingOut,
       TimeoutFind, TimeoutAnswer
  <2> QED
    BY <1>0, <2>1
<1>12. CASE UNCHANGED vars
  BY <1>0, <1>12 DEF vars
<1> QED
  BY <1>1, <1>2, <1>3, <1>4, <1>5, <1>6, <1>7, <1>8, <1>9, <1>10, <1>11, <1>12
  DEF Next, StartingRead

(* Every read of an open client is under both its timers, however many     *)
(* threads run executor_ and wherever the read handler, a StartRead that   *)
(* is still arming, late time-outs and Close interleave.                   *)
THEOREM ReadsAreTimed == Spec => []ReadWatched
<1>1. Init => ReadWatched
  BY DEF Init, ReadWatched
<1>2. TypeInv => TypeOK
  BY DEF TypeInv
<1> QED
  BY <1>1, <1>2, LinkInvariant, WatchedNext, PTL DEF Spec

-----------------------------------------------------------------------------
(* The requests.                                                           *)

(* The first connection finds no reader, and a later one finds shutdown_   *)
(* set: a new connection never takes over a reader that holds a handler.   *)
LEMMA ConnectedKeepsReader ==
    ASSUME LinkInv, Connected
    PROVE  \A r : Held(r)' <=> Held(r)
<1>1. inbox' = inbox /\ StartRead(rpc) /\ conn # "open"
  BY DEF Connected, StartRead
<1>2. CASE shutdown
  BY <1>1, <1>2 DEF StartRead, Held
<1>3. CASE ~shutdown
  BY <1>1, <1>3 DEF StartRead, Held, LinkInv
<1> QED
  BY <1>2, <1>3

(* Steps that leave the requests, the table and the held handler alone.    *)
LEMMA RequestQuiet ==
    ASSUME RequestInv, UNCHANGED <<inbox, pending, spc, tpc, nulls, wire, answers>>,
           \A r \in Requests : Held(r)' => Held(r)
    PROVE  RequestInv'
BY DEF RequestInv

(* What the read loop is at answers a request that was sent.               *)
LEMMA HeadWasSent ==
    ASSUME TypeOK, RequestInv, inbox # <<>>
    PROVE  Head(inbox) \in Requests => spc[Head(inbox)] \in {"timer", "done"}
<1>1. 1 \in 1 .. Len(inbox) /\ Head(inbox) = inbox[1]
  BY EmptySeq, LenProperties DEF TypeOK
<1>2. Head(inbox) \in wire \cup {Push}
  BY <1>1, Zenon DEF RequestInv
<1> QED
  BY <1>2, ClientAssumption DEF RequestInv

LEMMA RequestNext == TypeInv /\ LinkInv /\ RequestInv /\ [Next]_vars => RequestInv'
<1> SUFFICES ASSUME TypeInv, LinkInv, RequestInv, [Next]_vars PROVE RequestInv'
  OBVIOUS
<1> USE DEF link, timers, reader, table, requests
<1>0. /\ TypeOK
      /\ rpc = "answer" => inbox # <<>> /\ Head(inbox) \in Requests
      /\ Len(inbox) \in Nat
  BY LenProperties DEF TypeInv, TypeOK
<1>1. CASE UNCHANGED <<rpc, inbox, pending, requests>>
  <2>1. \A r \in Requests : Held(r)' => Held(r)
    BY <1>1 DEF Held
  <2> QED
    BY <1>1, <2>1, RequestQuiet
<1>2. CASE \/ \E t \in Timers : TimerExpires(t)
           \/ Connect \/ ResolveFails \/ Resolved \/ ConnectFails
           \/ ConnectTimeout \/ DoHandshake \/ Close \/ Closed
           \/ HandlerClosed \/ RunAgain \/ ReadTimeout
           \/ \E t \in {"read", "idle"} : ArmTimer(t)
           \/ UNCHANGED vars
  BY <1>1, <1>2 DEF TimerExpires, Connect, ResolveFails, Resolved, ConnectFails,
     ConnectTimeout, DoHandshake, Close, Closed, HandlerClosed, RunAgain, ReadTimeout,
     ArmTimer, vars
<1>3. CASE Connected
  <2>1. UNCHANGED <<inbox, pending, spc, tpc, nulls, wire, answers>>
    BY <1>3 DEF Connected
  <2> QED
    BY <1>3, <2>1, ConnectedKeepsReader, RequestQuiet
<1>4. CASE ReadFails \/ ReadAgain \/ StartReadBegin
  <2>1. /\ UNCHANGED <<inbox, pending, spc, tpc, nulls, wire, answers>>
        /\ rpc' # "answer"
    BY <1>4 DEF ReadFails, ReadAgain, StartRead, StartReadBegin
  <2> QED
    BY <2>1, RequestQuiet DEF Held
<1>5. ASSUME NEW ms \in Batches, ReadData(ms) PROVE RequestInv'
  <2>1. /\ inbox' = ms \/ inbox' = inbox
        /\ rpc' # "answer"
        /\ UNCHANGED <<pending, spc, tpc, nulls, wire, answers>>
    BY <1>5 DEF ReadData
  <2>2. \A i \in 1 .. Len(ms) : ms[i] \in wire \cup {Push}
    BY <1>0, BatchType, ElementOfSeq
  <2> QED
    BY <2>1, <2>2 DEF RequestInv, Held
<1>6. CASE HandleMessage
  <2>1. /\ rpc = "loop" /\ inbox # <<>>
        /\ pending' = pending \ {Head(inbox)}
        /\ UNCHANGED <<spc, tpc, nulls, wire, answers>>
    BY <1>6 DEF HandleMessage
  <2> DEFINE h == Head(inbox)
  <2>a. \A r \in Requests : r = h => spc[r] \in {"timer", "done"}
    BY <1>0, <2>1, HeadWasSent
  <2>b. \A r : ~Held(r)
    BY <2>1 DEF Held
  <2>c. \A r \in Requests : spc[r] \in {"count", "send"} => r \in pending'
    BY <2>1, <2>a DEF RequestInv
  <2>2. CASE Head(inbox) \in pending \ nulls
    <3>1. rpc' = "answer" /\ inbox' = inbox
      BY <1>6, <2>2 DEF HandleMessage
    <3>2. \A r : Held(r)' <=> r = Head(inbox)
      BY <3>1 DEF Held
    <3>3. h \in Requests \ nulls /\ answers[h] = <<>> /\ tpc[h] \in {"off", "armed"}
      BY <1>0, <2>2 DEF RequestInv, TypeOK
    <3> HIDE DEF h
    <3>4. pending' = pending \ {h} /\ \A r : Held(r)' <=> r = h
      BY <2>1, <3>2 DEF h
    <3> QED
      BY <2>1, <2>c, <3>1, <3>3, <3>4 DEF RequestInv
  <2>3. CASE Head(inbox) \notin pending \ nulls
    <3>1. rpc' = "loop" /\ inbox' = Tail(inbox)
      BY <1>6, <2>1, <2>3 DEF HandleMessage
    <3>2. /\ Len(Tail(inbox)) = Len(inbox) - 1
          /\ \A i \in 1 .. Len(Tail(inbox)) : Tail(inbox)[i] = inbox[i + 1]
      BY <1>0, <2>1, HeadTailProperties DEF TypeOK
    <3>3. \A i \in 1 .. Len(inbox') : inbox'[i] \in wire \cup {Push}
      BY <1>0, <3>1, <3>2 DEF RequestInv
    <3>4. \A r : ~Held(r)'
      BY <3>1 DEF Held
    <3>5. \A r \in Requests : r \in pending' => r \in pending
      BY <2>1
    <3> QED
      BY <2>1, <2>c, <3>3, <3>4, <3>5 DEF RequestInv
  <2> QED
    BY <2>2, <2>3
<1>7. CASE Answer
  <2> DEFINE h == Head(inbox)
  <2>1. /\ rpc = "answer" /\ rpc' = "loop" /\ inbox' = Tail(inbox)
        /\ answers' = [answers EXCEPT ![h] = Append(@, "response")]
        /\ UNCHANGED <<pending, spc, tpc, nulls, wire>>
    BY <1>7 DEF Answer
  <2>2. h \in Requests /\ Held(h) /\ inbox # <<>>
    BY <1>0, <2>1 DEF Held
  <2>3. /\ Len(Tail(inbox)) = Len(inbox) - 1
        /\ \A i \in 1 .. Len(Tail(inbox)) : Tail(inbox)[i] = inbox[i + 1]
    BY <1>0, <2>2, HeadTailProperties DEF TypeOK
  <2>4. \A i \in 1 .. Len(inbox') : inbox'[i] \in wire \cup {Push}
    BY <1>0, <2>1, <2>3 DEF RequestInv
  <2> HIDE DEF h
  <2>5. /\ answers[h] = <<>> /\ h \notin pending /\ tpc[h] # "answer"
        /\ spc[h] # "new"
    <3>1. 1 \in 1 .. Len(inbox) /\ h = inbox[1]
      BY <1>0, <2>2, EmptySeq DEF h, TypeOK
    <3>2. h \in wire
      BY <2>2, <3>1, ClientAssumption DEF RequestInv
    <3> QED
      BY <2>2, <3>2 DEF RequestInv
  <2>6. Len(answers'[h]) = 1
    <3>1. answers'[h] = Append(<<>>, "response")
      BY <1>0, <2>1, <2>2, <2>5 DEF TypeOK
    <3>2. Append(<<>>, "response") = <<"response">>
      OBVIOUS
    <3> QED
      BY <3>1, <3>2
  <2>7. \A r \in Requests : r # h => answers'[r] = answers[r]
    BY <1>0, <2>1 DEF TypeOK
  <2>8. \A r : ~Held(r)'
    BY <2>1 DEF Held
  <2> QED
    BY <2>1, <2>4, <2>5, <2>6, <2>7, <2>8 DEF RequestInv
<1>8. ASSUME NEW r \in Requests, SendRequest(r) PROVE RequestInv'
  <2>1. /\ spc[r] = "new" /\ spc' = [spc EXCEPT ![r] = "count"]
        /\ pending' = pending \cup {r}
        /\ nulls' = nulls \/ nulls' = nulls \cup {r}
        /\ UNCHANGED <<rpc, inbox, tpc, wire, answers>>
    BY <1>8 DEF SendRequest
  <2>2. ~Held(r)
    <3> SUFFICES ASSUME Held(r) PROVE FALSE
      OBVIOUS
    <3>1. 1 \in 1 .. Len(inbox) /\ inbox[1] = r
      BY <1>0, EmptySeq DEF Held, TypeOK
    <3>2. r \in wire
      BY <3>1, ClientAssumption DEF RequestInv
    <3> QED
      BY <2>1, <3>2 DEF RequestInv
  <2>3. \A k \in Requests : spc'[k] = IF k = r THEN "count" ELSE spc[k]
    BY <1>0, <2>1 DEF TypeOK
  <2> QED
    BY <2>1, <2>2, <2>3 DEF RequestInv, Held
<1>9. ASSUME NEW r \in Requests, Sending(r) PROVE RequestInv'
  <2>1. \A k : Held(k)' <=> Held(k)
    BY <1>9 DEF Sending, SendCount, SendWrite, SendTimer, Held
  <2>2. CASE SendCount(r)
    <3>1. /\ spc[r] = "count" /\ UNCHANGED <<inbox, pending, tpc, nulls, wire, answers>>
          /\ \A k \in Requests : spc'[k] = IF k = r THEN "send" ELSE spc[k]
      BY <1>0, <2>2 DEF SendCount, TypeOK
    <3> QED
      BY <2>1, <3>1 DEF RequestInv
  <2>3. CASE SendWrite(r)
    <3>1. /\ spc[r] = "send" /\ UNCHANGED <<inbox, pending, tpc, nulls, answers>>
          /\ wire' = wire \/ wire' = wire \cup {r}
          /\ \A k \in Requests : spc'[k] = IF k = r THEN "timer" ELSE spc[k]
      BY <1>0, <2>3 DEF SendWrite, TypeOK
    <3> QED
      BY <2>1, <3>1 DEF RequestInv
  <2>4. CASE SendTimer(r)
    <3>1. /\ spc[r] = "timer" /\ UNCHANGED <<inbox, pending, nulls, wire, answers>>
          /\ \A k \in Requests : /\ spc'[k] = IF k = r THEN "done" ELSE spc[k]
                                 /\ tpc'[k] = IF k = r THEN "armed" ELSE tpc[k]
      BY <1>0, <2>4 DEF SendTimer, TypeOK
    <3> QED
      BY <2>1, <3>1 DEF RequestInv
  <2> QED
    BY <1>9, <2>2, <2>3, <2>4 DEF Sending
<1>10. ASSUME NEW r \in Requests, TimeoutFind(r) PROVE RequestInv'
  <2>1. /\ tpc[r] = "armed" /\ pending' = pending \ {r}
        /\ UNCHANGED <<rpc, inbox, spc, nulls, wire, answers>>
        /\ \A k \in Requests :
              tpc'[k] = IF k # r THEN tpc[k]
                        ELSE IF r \in pending THEN "answer" ELSE "late"
    BY <1>0, <1>10 DEF TimeoutFind, TypeOK
  <2> QED
    BY <2>1 DEF RequestInv, Held
<1>11. ASSUME NEW r \in Requests, TimeoutAnswer(r) PROVE RequestInv'
  <2>1. /\ tpc[r] = "answer" /\ UNCHANGED <<rpc, inbox, pending, spc, nulls, wire>>
        /\ \A k \in Requests : tpc'[k] = IF k = r THEN "expired" ELSE tpc[k]
        /\ \A k \in Requests : k # r => answers'[k] = answers[k]
        /\ \/ answers'[r] = answers[r]
           \/ answers'[r] = Append(answers[r], "timed_out")
    BY <1>0, <1>11 DEF TimeoutAnswer, TypeOK
  <2>2. answers[r] = <<>> /\ ~Held(r) /\ r \notin pending /\ spc[r] # "new"
    BY <2>1 DEF RequestInv
  <2>3. Len(answers'[r]) <= 1
    <3>1. Len(<<>>) = 0 /\ Len(Append(<<>>, "timed_out")) = 1
      OBVIOUS
    <3>2. answers'[r] = <<>> \/ answers'[r] = Append(<<>>, "timed_out")
      BY <2>1, <2>2
    <3>3. Len(answers'[r]) = 0 \/ Len(answers'[r]) = 1
      BY <3>1, <3>2, Zenon
    <3>4. 0 <= 1 /\ 1 <= 1
      OBVIOUS
    <3> QED
      BY <3>3, <3>4, Zenon
  <2> QED
    BY <2>1, <2>2, <2>3 DEF RequestInv, Held
<1> QED
  BY <1>2, <1>3, <1>4, <1>5, <1>6, <1>7, <1>8, <1>9, <1>10, <1>11
  DEF Next, Reading, StartingRead, TimingOut

LEMMA RequestInit == Init => RequestInv
<1> SUFFICES ASSUME Init PROVE RequestInv
  OBVIOUS
<1>1. Len(inbox) = 0 /\ Len(<<>>) = 0
  BY EmptySeq DEF Init
<1> QED
  BY <1>1 DEF Init, RequestInv, Held

LEMMA RequestInvariant == Spec => [](TypeInv /\ LinkInv /\ RequestInv)
BY LinkInvariant, RequestInit, RequestNext, PTL DEF Spec

(* A request's handler is called at most once, however a response, its     *)
(* duplicates, its time-out and Close interleave, for any requests.        *)
THEOREM HandlersCalledOnce == Spec => []AnsweredOnce
<1>1. RequestInv => AnsweredOnce
  BY DEF RequestInv, AnsweredOnce
<1> QED
  BY <1>1, RequestInvariant, PTL

-----------------------------------------------------------------------------
(* The counter of the pending requests.                                    *)

(* The requests pending_requests_ stands for.                              *)
Counted == {r \in pending \cup Taken \cup Forgotten : spc[r] # "count"}

LEMMA CountedFinite ==
    ASSUME TypeOK
    PROVE  Counted \subseteq Requests /\ IsFiniteSet(Counted)
<1>1. Counted \subseteq Requests
  BY ClientAssumption DEF Counted, Taken, Forgotten, TypeOK
<1> QED
  BY <1>1, ClientAssumption, FS_Subset

(* A step that leaves every request where it was.                          *)
LEMMA CountedQuiet ==
    ASSUME UNCHANGED <<pending, spc, tpc, nulls>>, \A r \in Requests : Held(r)' <=> Held(r)
    PROVE  Counted' = Counted
BY DEF Counted, Taken, Forgotten, Held

LEMMA CountNext ==
    TypeInv /\ TypeInv' /\ LinkInv /\ RequestInv /\ PendingExact /\ [Next]_vars
        => PendingExact'
<1> SUFFICES ASSUME TypeInv, TypeInv', LinkInv, RequestInv, PendingExact, [Next]_vars
             PROVE  PendingExact'
  OBVIOUS
<1> USE DEF link, timers, reader, table, requests
<1>0. /\ TypeOK /\ TypeOK'
      /\ rpc = "answer" => inbox # <<>> /\ Head(inbox) \in Requests
  BY DEF TypeInv
<1>n. nulls \subseteq Requests
  BY <1>0 DEF TypeOK
<1>c. /\ Counted \subseteq Requests /\ IsFiniteSet(Counted)
      /\ pending_requests = Cardinality(Counted)
      /\ Cardinality(Counted) \in Nat
  BY <1>0, CountedFinite, FS_CardinalityType DEF PendingExact, Counted
<1>s. SUFFICES pending_requests' = Cardinality(Counted')
  BY DEF PendingExact, Counted
<1>1. CASE UNCHANGED <<rpc, inbox, pending, pending_requests, spc, tpc, nulls>>
  <2>1. Counted' = Counted
    BY <1>1, CountedQuiet DEF Held
  <2> QED
    BY <1>1, <1>c, <2>1
<1>2. CASE \/ \E t \in Timers : TimerExpires(t)
           \/ Connect \/ ResolveFails \/ Resolved \/ ConnectFails
           \/ ConnectTimeout \/ DoHandshake \/ Close \/ Closed
           \/ HandlerClosed \/ RunAgain \/ ReadTimeout
           \/ \E t \in {"read", "idle"} : ArmTimer(t)
           \/ UNCHANGED vars
  BY <1>1, <1>2 DEF TimerExpires, Connect, ResolveFails, Resolved, ConnectFails,
     ConnectTimeout, DoHandshake, Close, Closed, HandlerClosed, RunAgain, ReadTimeout,
     ArmTimer, vars
<1>3. CASE Connected
  <2>1. UNCHANGED <<pending, pending_requests, spc, tpc, nulls>>
    BY <1>3 DEF Connected
  <2>2. Counted' = Counted
    BY <1>3, <2>1, ConnectedKeepsReader, CountedQuiet
  <2> QED
    BY <1>c, <2>1, <2>2
<1>4. CASE ReadFails \/ ReadAgain \/ StartReadBegin \/ \E ms \in Batches : ReadData(ms)
  <2>1. /\ UNCHANGED <<pending, pending_requests, spc, tpc, nulls>>
        /\ rpc # "answer" /\ rpc' # "answer"
    BY <1>4 DEF ReadFails, ReadAgain, StartRead, StartReadBegin, ReadData
  <2>2. Counted' = Counted
    BY <2>1, CountedQuiet DEF Held
  <2> QED
    BY <1>c, <2>1, <2>2
<1>5. CASE HandleMessage
  <2>1. /\ rpc = "loop" /\ inbox # <<>>
        /\ pending' = pending \ {Head(inbox)}
        /\ UNCHANGED <<pending_requests, spc, tpc, nulls, wire, answers>>
    BY <1>5 DEF HandleMessage
  <2> DEFINE h == Head(inbox)
  <2>2. \A r \in Requests : r = h => spc[r] \in {"timer", "done"}
    BY <1>0, <2>1, HeadWasSent
  <2>3. \A r : ~Held(r)
    BY <2>1 DEF Held
  <2>4. Counted' = Counted
    <3>1. CASE h \in pending \ nulls
      <4>1. rpc' = "answer" /\ inbox' = inbox
        BY <1>5, <3>1 DEF HandleMessage
      <4>2. h \in Requests
        BY <1>0, <3>1 DEF TypeOK
      <4> HIDE DEF h
      <4>3. /\ \A r : Held(r)' <=> r = h
            /\ pending' = pending \ {h}
        BY <2>1, <4>1 DEF Held, h
      <4>4. Taken' = Taken \cup {h}
        BY <2>1, <2>3, <4>2, <4>3 DEF Taken, Held
      <4>5. Forgotten' = Forgotten
        BY <2>1, <3>1, <4>3 DEF Forgotten
      <4> QED
        BY <2>1, <3>1, <4>3, <4>4, <4>5 DEF Counted
    <3>2. CASE h \notin pending \ nulls
      <4>1. rpc' = "loop"
        BY <1>5, <2>1, <3>2 DEF HandleMessage
      <4>2. Taken' = Taken
        BY <2>1, <4>1 DEF Taken
      <4>3. CASE h \notin pending
        <5>1. pending' = pending
          BY <2>1, <4>3
        <5> QED
          BY <2>1, <4>2, <5>1 DEF Counted, Forgotten
      <4>4. CASE h \in pending
        <5>1. /\ h \in nulls /\ h \in Requests /\ spc[h] # "new"
              /\ tpc[h] \notin {"answer", "expired"}
          BY <1>0, <2>2, <3>2, <4>4 DEF RequestInv, TypeOK
        <5> HIDE DEF h
        <5>2. pending' = pending \ {h}
          BY <2>1 DEF h
        <5>3. Forgotten' = Forgotten \cup {h}
          BY <2>1, <5>1, <5>2 DEF Forgotten
        <5> QED
          BY <2>1, <4>2, <4>4, <5>2, <5>3 DEF Counted
      <4> QED
        BY <4>3, <4>4
    <3> QED
      BY <3>1, <3>2
  <2> QED
    BY <1>c, <2>1, <2>4
<1>6. CASE Answer
  <2> DEFINE h == Head(inbox)
  <2>1. /\ rpc = "answer" /\ rpc' = "loop"
        /\ pending_requests' = pending_requests - 1
        /\ UNCHANGED <<pending, spc, tpc, nulls>>
    BY <1>6 DEF Answer
  <2>2. /\ h \in Requests \ nulls /\ inbox # <<>>
        /\ \A r : Held(r) <=> r = h
    BY <1>0, <2>1 DEF Held, RequestInv
  <2>3. spc[h] \in {"timer", "done"}
    BY <1>0, <2>2, HeadWasSent
  <2> HIDE DEF h
  <2>4. h \notin pending /\ tpc[h] # "answer"
    BY <2>2 DEF RequestInv
  <2>5. Taken = {r \in Requests : tpc[r] = "answer"} \cup {h}
    BY <2>2 DEF Taken, Held
  <2>6. Taken' = {r \in Requests : tpc[r] = "answer"}
    BY <2>1 DEF Taken
  <2>7. Forgotten' = Forgotten /\ h \notin Forgotten
    BY <2>1, <2>2 DEF Forgotten
  <2>8. h \in Counted /\ Counted' = Counted \ {h}
    BY <2>1, <2>3, <2>4, <2>5, <2>6, <2>7 DEF Counted
  <2>9. Cardinality(Counted') = Cardinality(Counted) - 1
    BY <1>c, <2>8, FS_RemoveElement
  <2> QED
    BY <1>c, <2>1, <2>9
<1>7. ASSUME NEW r \in Requests, SendRequest(r) PROVE pending_requests' = Cardinality(Counted')
  <2>1. /\ spc[r] = "new" /\ pending' = pending \cup {r}
        /\ nulls' = nulls \/ nulls' = nulls \cup {r}
        /\ UNCHANGED <<rpc, inbox, tpc, pending_requests>>
        /\ \A k \in Requests : spc'[k] = IF k = r THEN "count" ELSE spc[k]
    BY <1>0, <1>7 DEF SendRequest, TypeOK
  <2>2. Taken' = Taken
    BY <2>1 DEF Taken
  <2>3. r \notin Taken
    <3>1. tpc[r] # "answer"
      BY <2>1 DEF RequestInv
    <3>2. ~Held(r)
      BY <1>0, <2>1, HeadWasSent DEF Held
    <3> QED
      BY <3>1, <3>2 DEF Taken, Held
  <2>4. Forgotten' = Forgotten /\ r \notin Forgotten
    BY <2>1, <1>n DEF Forgotten
  <2>5. r \notin pending
    BY <2>1 DEF RequestInv
  <2>6. pending \subseteq Requests /\ Taken \subseteq Requests /\ Forgotten \subseteq Requests
    BY <1>0, <1>n DEF TypeOK, Taken, Forgotten
  <2>7. Counted' = Counted
    BY <2>1, <2>2, <2>3, <2>4, <2>5, <2>6 DEF Counted
  <2> QED
    BY <1>c, <2>1, <2>7
<1>8. ASSUME NEW r \in Requests, SendCount(r) PROVE pending_requests' = Cardinality(Counted')
  <2>1. /\ spc[r] = "count" /\ pending_requests' = pending_requests + 1
        /\ UNCHANGED <<rpc, inbox, tpc, nulls, pending>>
        /\ \A k \in Requests : spc'[k] = IF k = r THEN "send" ELSE spc[k]
    BY <1>0, <1>8 DEF SendCount, TypeOK
  <2>2. r \in pending
    BY <2>1 DEF RequestInv
  <2>3. Taken' = Taken /\ Forgotten' = Forgotten
    BY <2>1, <1>n DEF Taken, Forgotten
  <2>4. pending \subseteq Requests /\ Taken \subseteq Requests /\ Forgotten \subseteq Requests
    BY <1>0, <1>n DEF TypeOK, Taken, Forgotten
  <2>5. r \notin Counted /\ Counted' = Counted \cup {r}
    BY <2>1, <2>2, <2>3, <2>4 DEF Counted
  <2>6. Cardinality(Counted') = Cardinality(Counted) + 1
    BY <1>c, <2>5, FS_AddElement
  <2> QED
    BY <1>c, <2>1, <2>6
<1>9. ASSUME NEW r \in Requests, SendWrite(r) \/ SendTimer(r)
      PROVE  pending_requests' = Cardinality(Counted')
  <2>1. /\ UNCHANGED <<rpc, inbox, nulls, pending, pending_requests>>
        /\ \A k \in Requests : /\ spc'[k] = "new" <=> spc[k] = "new"
                               /\ spc'[k] = "count" <=> spc[k] = "count"
                               /\ tpc'[k] \in {"answer", "expired"}
                                    <=> tpc[k] \in {"answer", "expired"}
                               /\ tpc'[k] = "answer" <=> tpc[k] = "answer"
    <3>1. CASE SendWrite(r)
      BY <1>0, <3>1 DEF SendWrite, TypeOK
    <3>2. CASE SendTimer(r)
      <4>1. tpc[r] = "off"
        BY <3>2 DEF SendTimer, RequestInv
      <4> QED
        BY <1>0, <3>2, <4>1 DEF SendTimer, TypeOK
    <3> QED
      BY <1>9, <3>1, <3>2
  <2>2. Taken' = Taken /\ Forgotten' = Forgotten
    BY <2>1, <1>n DEF Taken, Forgotten
  <2>3. pending \subseteq Requests /\ Taken \subseteq Requests /\ Forgotten \subseteq Requests
    BY <1>0, <1>n DEF TypeOK, Taken, Forgotten
  <2>4. Counted' = Counted
    BY <2>1, <2>2, <2>3 DEF Counted
  <2> QED
    BY <1>c, <2>1, <2>4
<1>10. ASSUME NEW r \in Requests, TimeoutFind(r) PROVE pending_requests' = Cardinality(Counted')
  <2>1. /\ tpc[r] = "armed" /\ pending' = pending \ {r}
        /\ UNCHANGED <<rpc, inbox, spc, nulls, pending_requests>>
        /\ \A k \in Requests :
              tpc'[k] = IF k # r THEN tpc[k]
                        ELSE IF r \in pending THEN "answer" ELSE "late"
    BY <1>0, <1>10 DEF TimeoutFind, TypeOK
  <2>2. pending \subseteq Requests /\ Taken \subseteq Requests /\ Forgotten \subseteq Requests
    BY <1>0, <1>n DEF TypeOK, Taken, Forgotten
  <2>3. CASE r \in pending
    <3>1. Taken' = Taken \cup {r}
      BY <2>1, <2>3 DEF Taken
    <3>2. Forgotten' = Forgotten
      BY <2>1, <2>3, <1>n DEF Forgotten
    <3> QED
      BY <1>c, <2>1, <2>2, <2>3, <3>1, <3>2 DEF Counted
  <2>4. CASE r \notin pending
    <3>1. Taken' = Taken
      BY <2>1, <2>4 DEF Taken
    <3>2. Forgotten' = Forgotten
      BY <2>1, <2>4, <1>n DEF Forgotten
    <3> QED
      BY <1>c, <2>1, <2>2, <2>4, <3>1, <3>2 DEF Counted
  <2> QED
    BY <2>3, <2>4
<1>11. ASSUME NEW r \in Requests, TimeoutAnswer(r) PROVE pending_requests' = Cardinality(Counted')
  <2>1. /\ tpc[r] = "answer" /\ UNCHANGED <<rpc, inbox, pending, spc, nulls>>
        /\ pending_requests' = pending_requests - 1
        /\ \A k \in Requests : tpc'[k] = IF k = r THEN "expired" ELSE tpc[k]
    BY <1>0, <1>11 DEF TimeoutAnswer, TypeOK
  <2>2. ~Held(r) /\ r \notin pending /\ spc[r] = "done"
    BY <2>1 DEF RequestInv
  <2>3. Taken' = Taken \ {r} /\ r \in Taken
    BY <2>1, <2>2 DEF Taken, Held
  <2>4. Forgotten' = Forgotten /\ r \notin Forgotten
    BY <2>1, <1>n DEF Forgotten
  <2>5. r \in Counted /\ Counted' = Counted \ {r}
    BY <2>1, <2>2, <2>3, <2>4 DEF Counted
  <2>6. Cardinality(Counted') = Cardinality(Counted) - 1
    BY <1>c, <2>5, FS_RemoveElement
  <2> QED
    BY <1>c, <2>1, <2>6
<1> QED
  BY <1>2, <1>3, <1>4, <1>5, <1>6, <1>7, <1>8, <1>9, <1>10, <1>11
  DEF Next, Reading, StartingRead, Sending, TimingOut

(* pending_requests_ is the number of requests in the table, about to be   *)
(* answered, or forgotten with an empty handler: the additions outside     *)
(* pending_mu_ neither lose a count nor take it below zero.                *)
THEOREM PendingCounted == Spec => []PendingExact
<1>1. Init => PendingExact
  <2> SUFFICES ASSUME Init PROVE PendingExact
    OBVIOUS
  <2>1. {r \in pending \cup Taken \cup Forgotten : spc[r] # "count"} = {}
    BY ClientAssumption DEF Init, Taken, Forgotten
  <2> QED
    BY <2>1, FS_EmptySet DEF Init, PendingExact
<1> QED
  BY <1>1, RequestInvariant, CountNext, PTL DEF Spec
=============================================================================
