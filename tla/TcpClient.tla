------------------------------ MODULE TcpClient ------------------------------
(***************************************************************************)
(* vectro::tcp::TcpClient: one connection, its timers, its read loop, and  *)
(* the table that pairs a response with the request it answers.            *)
(*                                                                         *)
(* Threads: callers inside SendRequest (spc), the application's thread in  *)
(* Close (app), and the threads that run executor_ (runners), which are    *)
(* inside the time-out handler of a request (tpc), the read handler (rpc), *)
(* StartRead (starts) or the second half of Close (closing).  The critical *)
(* sections of pending_mu_, the atomic additions, the halves of Close and  *)
(* the parts of StartRead are steps of their own; a handler starts only    *)
(* when a thread is free for it.                                           *)
(*                                                                         *)
(* The socket, the resolver and the timers are asio's.  What the code      *)
(* relies on: cancelling or re-arming a timer does not take back a handler *)
(* that is already queued as expired; closing a socket completes its       *)
(* pending operations; socket.cancel() throws when the socket is closed,   *)
(* and what throws in a handler leaves io_context::run, with its thread.   *)
(* shutdown_, the socket and the timers are used from several threads      *)
(* without a lock: each use is taken to happen at one moment.              *)
(*                                                                         *)
(* Left out: the contents of messages, the writes of Send (WriteQueueSG    *)
(* models them; here a request reaches the peer or does not), exceptions   *)
(* of the application's callbacks, and the destructor, which is            *)
(* Close(true) once no handler is left.                                    *)
(***************************************************************************)
EXTENDS Integers, Sequences, FiniteSets

CONSTANTS
    Requests,      \* the requests, each sent at most once; also their ids
    Push,          \* the id of a message that answers no request
    Tls,           \* whether Stream is a TLS stream
    MaxBatch,      \* the most messages one read completes
    MaxCalls,      \* how often the application calls Connect, Close or SendRequest
    MaxExpired,    \* the most expired handlers of a timer in the queue
    Runners        \* the threads that run executor_

ASSUME ClientAssumption ==
    /\ IsFiniteSet(Requests)
    /\ Push \notin Requests
    /\ Tls \in BOOLEAN
    /\ MaxBatch \in Nat /\ MaxCalls \in Nat
    /\ MaxExpired \in Nat /\ Runners \in Nat

Timers == {"connect", "read", "idle"}

VARIABLES
    conn,              \* where the latest attempt to connect is
    open,              \* the socket is open
    shutdown,          \* shutdown_
    armed,             \* the timers with a wait pending
    expired,           \* per timer, its queued handlers with no error
    rpc, inbox,        \* the read loop: where it is, what OnData returned
    starts,            \* calls of StartRead that arm the timer next, per timer
    connects, closes,  \* calls of the application so far
    app,               \* the application's Close, between its halves
    closing,           \* handlers between the halves of Close(true)
    runners,           \* threads inside io_context::run
    pending,           \* pending_responses_
    pending_requests,  \* pending_requests_
    spc, tpc,          \* SendRequest and the time-out handler, per request
    nulls,             \* requests sent with an empty ResponseHandler
    wire,              \* requests the peer has received
    answers            \* per request, what its handler was called with

link     == <<conn, open, shutdown, connects, closes, app, closing, runners>>
timers   == <<armed, expired>>
reader   == <<rpc, inbox, starts>>
table    == <<pending, pending_requests>>
requests == <<spc, tpc, nulls, wire, answers>>

vars == <<link, timers, reader, table, requests>>

Init ==
    /\ conn = "idle"
    /\ open = FALSE
    /\ shutdown = FALSE
    /\ armed = {}
    /\ expired = [t \in Timers |-> 0]
    /\ rpc = "none"
    /\ inbox = <<>>
    /\ starts = [t \in {"read", "idle"} |-> 0]
    /\ connects = 0
    /\ closes = 0
    /\ app = "idle"
    /\ closing = 0
    /\ runners = Runners
    /\ pending = {}
    /\ pending_requests = 0
    /\ spc = [r \in Requests |-> "new"]
    /\ tpc = [r \in Requests |-> "off"]
    /\ nulls = {}
    /\ wire = {}
    /\ answers = [r \in Requests |-> <<>>]

-----------------------------------------------------------------------------
(* asio's threads and timers, and the calls of the application.            *)

Calls == connects + closes + Cardinality({r \in Requests : spc[r] # "new"})

(* How many threads of executor_ are inside a handler.                     *)
Busy == starts["read"] + starts["idle"] + closing
            + Cardinality({r \in Requests : tpc[r] = "answer"})
            + Cardinality({rpc} \cap {"start", "loop", "answer"})

Free == Busy < runners

(* The application calls run again after an exception has left it.         *)
RunAgain ==
    /\ runners < Runners
    /\ runners' = runners + 1
    /\ UNCHANGED <<conn, open, shutdown, connects, closes, app, closing, timers,
                   reader, table, requests>>

TimerExpires(t) ==
    /\ t \in armed
    /\ expired[t] < MaxExpired
    /\ armed' = armed \ {t}
    /\ expired' = [expired EXCEPT ![t] = @ + 1]
    /\ UNCHANGED <<link, reader, table, requests>>

(* The handler of timer t starts to run, its error code clear.             *)
Fires(t) ==
    /\ Free
    /\ expired[t] > 0
    /\ expired' = [expired EXCEPT ![t] = @ - 1]

-----------------------------------------------------------------------------
(* Connect.                                                                *)

Connecting == conn \in {"resolving", "connecting", "handshake"}

(* The application connects first, and again when it was told that an      *)
(* attempt failed or that it is disconnected.                              *)
Connect ==
    /\ ~Connecting
    /\ conn = "open" => shutdown
    /\ Calls < MaxCalls
    /\ connects' = connects + 1
    /\ conn' = "resolving"
    /\ armed' = armed \cup {"connect"}
    /\ UNCHANGED <<open, shutdown, closes, app, closing, runners, expired, reader,
                   table, requests>>

ResolveFails ==
    /\ Free
    /\ conn = "resolving"
    /\ conn' = "failed"
    /\ armed' = armed \ {"connect"}
    /\ UNCHANGED <<open, shutdown, connects, closes, app, closing, runners, expired,
                   reader, table, requests>>

(* async_connect opens the socket anew, whoever closed it meanwhile.       *)
Resolved ==
    /\ Free
    /\ conn = "resolving"
    /\ conn' = "connecting"
    /\ open' = TRUE
    /\ armed' = armed \ {"connect"}
    /\ UNCHANGED <<shutdown, connects, closes, app, closing, runners, expired,
                   reader, table, requests>>

(* The connect time-out cancels the socket's operations; when the socket   *)
(* is closed cancel throws, and its thread leaves io_context::run.         *)
ConnectTimeout ==
    /\ Fires("connect")
    /\ \/ /\ open
          /\ conn' = IF conn \in {"connecting", "handshake"} THEN "failed" ELSE conn
          /\ UNCHANGED runners
       \/ /\ ~open
          /\ runners' = runners - 1
          /\ UNCHANGED conn
    /\ UNCHANGED <<armed, open, shutdown, connects, closes, app, closing, reader,
                   table, requests>>

(* The socket operation of the attempt ends with an error: the peer's, or  *)
(* the one Close causes.                                                   *)
ConnectFails ==
    /\ Free
    /\ conn \in {"connecting", "handshake"}
    /\ conn' = "failed"
    /\ UNCHANGED <<open, shutdown, connects, closes, app, closing, runners, timers,
                   reader, table, requests>>

DoHandshake ==
    /\ Free
    /\ conn = "connecting"
    /\ Tls
    /\ conn' = "handshake"
    /\ UNCHANGED <<open, shutdown, connects, closes, app, closing, runners, timers,
                   reader, table, requests>>

-----------------------------------------------------------------------------
(* Close.                                                                  *)

(* A handler calls Close(true).  cancel throws when the socket is closed:  *)
(* the rest of the function is not executed, and the thread leaves         *)
(* io_context::run.                                                        *)
HandlerCloses ==
    /\ shutdown' = TRUE
    /\ \/ open /\ closing' = closing + 1 /\ UNCHANGED runners
       \/ ~open /\ runners' = runners - 1 /\ UNCHANGED closing

(* From close() to the end, on a thread of executor_.                      *)
HandlerClosed ==
    /\ closing > 0
    /\ closing' = closing - 1
    /\ open' = FALSE
    /\ armed' = {}
    /\ UNCHANGED <<conn, shutdown, connects, closes, app, runners, expired, reader,
                   table, requests>>

(* The application calls Close: when cancel throws, the exception is its   *)
(* own.  Close(false) leaves the socket to nobody.                         *)
Close ==
    /\ app = "idle"
    /\ Calls < MaxCalls
    /\ closes' = closes + 1
    /\ shutdown' = TRUE
    /\ \/ app' = "graceful"
       \/ open /\ app' = "force"
       \/ ~open /\ UNCHANGED app
    /\ UNCHANGED <<conn, open, connects, closing, runners, timers, reader, table,
                   requests>>

Closed ==
    /\ app # "idle"
    /\ app' = "idle"
    /\ open' = (open /\ app = "graceful")
    /\ armed' = {}
    /\ UNCHANGED <<conn, shutdown, connects, closes, closing, runners, expired,
                   reader, table, requests>>

-----------------------------------------------------------------------------
(* The read loop.                                                          *)

(* Variant: shutdown_ is not tested.                                       *)
StartReadAlways(idle) == rpc' = "start"

(* StartRead: nothing is read once shutdown_ is set; idle is what becomes  *)
(* of the reader then.                                                     *)
StartRead(idle) == rpc' = IF shutdown THEN idle ELSE "start"

(* async_read_some.  From here on the read handler may run, on another     *)
(* thread, before this call of StartRead has armed the timers.             *)
StartReadBegin ==
    /\ rpc = "start"
    /\ rpc' = "pending"
    /\ starts' = [starts EXCEPT !["read"] = @ + 1]
    /\ UNCHANGED <<link, timers, inbox, table, requests>>

(* Variant: the timer is set and nobody waits for it.                      *)
ArmTimerAlone(t) ==
    /\ starts[t] > 0
    /\ starts' = IF t = "read"
                 THEN [starts EXCEPT !["read"] = @ - 1, !["idle"] = @ + 1]
                 ELSE [starts EXCEPT !["idle"] = @ - 1]
    /\ UNCHANGED <<link, timers, rpc, inbox, table, requests>>

(* The read timer is armed, then the idle timer.                           *)
ArmTimer(t) ==
    /\ starts[t] > 0
    /\ starts' = IF t = "read"
                 THEN [starts EXCEPT !["read"] = @ - 1, !["idle"] = @ + 1]
                 ELSE [starts EXCEPT !["idle"] = @ - 1]
    /\ armed' = armed \cup {t}
    /\ UNCHANGED <<link, expired, rpc, inbox, table, requests>>

(* on_connect_({}) and the first StartRead, which leaves the read handler  *)
(* of an earlier connection alone; a TLS stream shakes hands before that.  *)
Connected ==
    /\ Free
    /\ conn = IF Tls THEN "handshake" ELSE "connecting"
    /\ conn' = "open"
    /\ StartRead(rpc)
    /\ UNCHANGED <<open, shutdown, connects, closes, app, closing, runners, timers,
                   inbox, starts, table, requests>>

Batches == UNION {[1 .. n -> wire \cup {Push}] : n \in 0 .. MaxBatch}

(* async_read_some completes with data, of which OnData makes messages.    *)
(* When OnData throws, the timers are cancelled and no read follows.       *)
ReadData(ms) ==
    /\ Free
    /\ rpc = "pending"
    /\ \/ /\ rpc' = "loop"
          /\ inbox' = ms
          /\ UNCHANGED runners
       \/ /\ rpc' = "none"
          /\ runners' = runners - 1
          /\ UNCHANGED inbox
    /\ armed' = armed \ {"read", "idle"}
    /\ UNCHANGED <<conn, open, shutdown, connects, closes, app, closing, expired,
                   starts, table, requests>>

(* It completes with an error: the peer's, or that of a closed socket.     *)
ReadFails ==
    /\ Free
    /\ rpc = "pending"
    /\ rpc' = "none"
    /\ HandlerCloses
    /\ UNCHANGED <<conn, open, connects, closes, app, timers, inbox, starts, table,
                   requests>>

(* With pending_mu_ held: take the handler of the message's request out.   *)
(* Without one the message goes to on_message_.                            *)
HandleMessage ==
    /\ rpc = "loop"
    /\ inbox # <<>>
    /\ pending' = pending \ {Head(inbox)}
    /\ \/ /\ Head(inbox) \in pending \ nulls
          /\ rpc' = "answer"
          /\ UNCHANGED inbox
       \/ /\ Head(inbox) \notin pending \ nulls
          /\ inbox' = Tail(inbox)
          /\ UNCHANGED rpc
    /\ UNCHANGED <<link, timers, starts, pending_requests, requests>>

(* Variant: the response path does not count the request down.             *)
AnswerUncounted ==
    /\ rpc = "answer"
    /\ answers' = [answers EXCEPT ![Head(inbox)] = Append(@, "response")]
    /\ inbox' = Tail(inbox)
    /\ rpc' = "loop"
    /\ UNCHANGED <<link, timers, starts, table, spc, tpc, nulls, wire>>

Answer ==
    /\ rpc = "answer"
    /\ pending_requests' = pending_requests - 1
    /\ answers' = [answers EXCEPT ![Head(inbox)] = Append(@, "response")]
    /\ inbox' = Tail(inbox)
    /\ rpc' = "loop"
    /\ UNCHANGED <<link, timers, starts, pending, spc, tpc, nulls, wire>>

ReadAgain ==
    /\ rpc = "loop"
    /\ inbox = <<>>
    /\ StartRead("none")
    /\ UNCHANGED <<link, timers, inbox, starts, table, requests>>

(* The read time-out and the idle time-out.                                *)
ReadTimeout ==
    /\ \E t \in {"read", "idle"} : Fires(t)
    /\ HandlerCloses
    /\ UNCHANGED <<conn, open, armed, connects, closes, app, reader, table, requests>>

-----------------------------------------------------------------------------
(* SendRequest: enter the handler in the table, count, send, arm a timer.  *)

SendRequest(r) ==
    /\ spc[r] = "new"
    /\ Calls < MaxCalls
    /\ spc' = [spc EXCEPT ![r] = "count"]
    /\ pending' = pending \cup {r}
    /\ nulls' = nulls \/ nulls' = nulls \cup {r}
    /\ UNCHANGED <<link, timers, reader, pending_requests, tpc, wire, answers>>

SendCount(r) ==
    /\ spc[r] = "count"
    /\ spc' = [spc EXCEPT ![r] = "send"]
    /\ pending_requests' = pending_requests + 1
    /\ UNCHANGED <<link, timers, reader, pending, tpc, nulls, wire, answers>>

(* The write queue takes the request to the peer, or drops it.             *)
SendWrite(r) ==
    /\ spc[r] = "send"
    /\ spc' = [spc EXCEPT ![r] = "timer"]
    /\ \/ UNCHANGED wire
       \/ /\ conn = "open" /\ open
          /\ wire' = wire \cup {r}
    /\ UNCHANGED <<link, timers, reader, table, tpc, nulls, answers>>

SendTimer(r) ==
    /\ spc[r] = "timer"
    /\ spc' = [spc EXCEPT ![r] = "done"]
    /\ tpc' = [tpc EXCEPT ![r] = "armed"]
    /\ UNCHANGED <<link, timers, reader, table, nulls, wire, answers>>

(* Variants: the entry stays in the table; a closed client stays silent.   *)
TimeoutFindKeep(r) ==
    /\ Free
    /\ tpc[r] = "armed"
    /\ tpc' = [tpc EXCEPT ![r] = IF r \in pending THEN "answer" ELSE "late"]
    /\ UNCHANGED <<link, timers, reader, table, spc, nulls, wire, answers>>
TimeoutFindOpen(r) ==
    /\ Free
    /\ tpc[r] = "armed"
    /\ pending' = pending \ {r}
    /\ tpc' = [tpc EXCEPT ![r] = IF r \in pending /\ ~shutdown
                                 THEN "answer" ELSE "late"]
    /\ UNCHANGED <<link, timers, reader, pending_requests, spc, nulls, wire, answers>>

(* The time-out handler, with pending_mu_ held: take the handler out.      *)
TimeoutFind(r) ==
    /\ Free
    /\ tpc[r] = "armed"
    /\ pending' = pending \ {r}
    /\ tpc' = [tpc EXCEPT ![r] = IF r \in pending THEN "answer" ELSE "late"]
    /\ UNCHANGED <<link, timers, reader, pending_requests, spc, nulls, wire, answers>>

TimeoutAnswer(r) ==
    /\ tpc[r] = "answer"
    /\ tpc' = [tpc EXCEPT ![r] = "expired"]
    /\ pending_requests' = pending_requests - 1
    /\ answers' = IF r \in nulls THEN answers
                  ELSE [answers EXCEPT ![r] = Append(@, "timed_out")]
    /\ UNCHANGED <<link, timers, reader, pending, spc, nulls, wire>>

-----------------------------------------------------------------------------
Sending(r) == SendCount(r) \/ SendWrite(r) \/ SendTimer(r)

TimingOut(r) == TimeoutFind(r) \/ TimeoutAnswer(r)

Reading == HandleMessage \/ Answer \/ ReadAgain

StartingRead == StartReadBegin \/ \E t \in {"read", "idle"} : ArmTimer(t)

Next ==
    \/ RunAgain
    \/ \E t \in Timers : TimerExpires(t)
    \/ Connect \/ ResolveFails \/ Resolved
    \/ ConnectFails \/ ConnectTimeout \/ DoHandshake \/ Connected
    \/ Close \/ Closed \/ HandlerClosed
    \/ StartingRead
    \/ \E ms \in Batches : ReadData(ms)
    \/ ReadFails \/ ReadTimeout
    \/ Reading
    \/ \E r \in Requests : SendRequest(r) \/ Sending(r) \/ TimingOut(r)

Spec == Init /\ [][Next]_vars

(* Threads that are inside a call go on, timers expire, and an operation   *)
(* on a closed socket completes.  A queued handler is run while a thread   *)
(* is in io_context::run, which takes handlers in order: what the time-out *)
(* of a request competes with, a peer that keeps sending, cannot starve    *)
(* it.  Neither the application, which need not call run again, nor the    *)
(* peer nor the name service has to do anything.                           *)
Fairness ==
    /\ \A t \in Timers : WF_vars(TimerExpires(t))
    /\ WF_vars(ReadTimeout)
    /\ WF_vars(~open /\ (ConnectFails \/ ReadFails))
    /\ WF_vars(Reading)
    /\ WF_vars(StartingRead)
    /\ WF_vars(Closed) /\ WF_vars(HandlerClosed)
    /\ \A r \in Requests : WF_vars(Sending(r)) /\ SF_vars(TimingOut(r))

FairSpec == Spec /\ Fairness

-----------------------------------------------------------------------------
(* Properties.                                                             *)

TypeOK ==
    /\ conn \in {"idle", "resolving", "connecting", "handshake", "open", "failed"}
    /\ open \in BOOLEAN /\ shutdown \in BOOLEAN
    /\ app \in {"idle", "force", "graceful"}
    /\ closing \in Nat
    /\ runners \in Int
    /\ armed \subseteq Timers
    /\ expired \in [Timers -> 0 .. MaxExpired]
    /\ rpc \in {"none", "start", "pending", "loop", "answer"}
    /\ inbox \in Seq(Requests \cup {Push})
    /\ starts \in [{"read", "idle"} -> Nat]
    /\ connects \in Nat /\ closes \in Nat
    /\ pending \subseteq Requests
    /\ pending_requests \in Int
    /\ spc \in [Requests -> {"new", "count", "send", "timer", "done"}]
    /\ tpc \in [Requests -> {"off", "armed", "answer", "expired", "late"}]
    /\ nulls \subseteq Requests
    /\ wire \subseteq Requests
    /\ answers \in [Requests -> Seq({"response", "timed_out"})]

(* A response that races the time-out, a duplicate of it, or one that      *)
(* comes after it: the handler of a request is called at most once.        *)
AnsweredOnce == \A r \in Requests : Len(answers[r]) <= 1

(* Requests whose handler is out of the table and about to be called.      *)
Taken == {r \in Requests : \/ tpc[r] = "answer"
                           \/ rpc = "answer" /\ Head(inbox) = r}

(* Requests without a handler that the peer has answered.                  *)
Forgotten == {r \in nulls : /\ spc[r] # "new"
                            /\ r \notin pending
                            /\ tpc[r] \notin {"answer", "expired"}}

(* pending_requests_ counts the requests in the table or about to be       *)
(* answered, and for ever those whose empty handler a response took out;   *)
(* it never runs below zero, although it is changed outside pending_mu_.   *)
PendingExact ==
    pending_requests =
        Cardinality({r \in pending \cup Taken \cup Forgotten : spc[r] # "count"})

(* Somebody has yet to arm the timer t for the read that is pending.       *)
ArmedLater(t) == starts["read"] > 0 \/ (t = "idle" /\ starts["idle"] > 0)

(* No read of an open client is without its timers: whichever read         *)
(* handler runs before the StartRead that began its read has armed them,   *)
(* and whatever that call arms too late, each timer is waited for, about   *)
(* to be armed, or has expired with its handler in the queue.              *)
ReadWatched ==
    rpc = "pending" /\ ~shutdown =>
        \A t \in {"read", "idle"} : t \in armed \/ expired[t] > 0 \/ ArmedLater(t)

(* A closed client is let go: a StartRead that tested shutdown_ before     *)
(* Close arms its timers after it, and they keep the client alive; in the  *)
(* end nobody waits for them, unless no thread is left to run handlers.    *)
ClosedLetGo ==
    <>shutdown => <>[](runners = 0 \/ armed \cap {"read", "idle"} = {})

(* Every request with a handler gets an answer, whether or not the peer    *)
(* responds, the write is dropped or the client is closed, unless          *)
(* exceptions have taken every thread out of io_context::run.              *)
RequestsAnswered ==
    \A r \in Requests :
        spc[r] # "new" /\ r \notin nulls ~> answers[r] # <<>> \/ runners = 0

(* A peer that sends nothing does not hold an open client.                 *)
SilentPeerDropped ==
    (rpc = "pending" /\ ~shutdown) ~> (rpc # "pending" \/ shutdown)

-----------------------------------------------------------------------------
(* What the README and the example say and the code does not do.           *)

(* "Force close" works: the read that it aborts ends without an exception  *)
(* that leaves the handler.                                                *)
ForceCloseQuiet == [][ReadFails => runners' = runners]_vars

(* "fail if no connect in 5s": an attempt to connect ends, even when       *)
(* neither the name service nor the peer answers.                          *)
ConnectEnds == Connecting ~> ~Connecting

(* "Handle disconnects and attempt reconnect": a client that reports that  *)
(* it is connected reads from the connection.                              *)
ConnectedReads == [][(conn # "open" /\ conn' = "open") => rpc' # "none"]_vars

(* The test at the head of StartRead suggests that a closed client arms no *)
(* timer: with Close on another thread a call that tested earlier does.    *)
NoTimerAfterClose == shutdown /\ app = "idle" /\ closing = 0
                        => armed \cap {"read", "idle"} = {}
=============================================================================
