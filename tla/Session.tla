------------------------------- MODULE Session -------------------------------
(***************************************************************************)
(* vectro::Session: the server's side of one connection, with its direct   *)
(* write path (EnableWriteQueue(false)), read loop, time-outs, and its     *)
(* graceful and forced shutdown.                                           *)
(*                                                                         *)
(* Completion handlers run on executor_, one at a time (it is a strand or  *)
(* an io_context with one thread).  Closing and sending are calls of the   *)
(* application.  A call of AsyncSend and the handler of a write take       *)
(* several steps; busy is the one that has the executor.  A constant says  *)
(* whether AsyncSend is also called from other threads, where it runs      *)
(* beside the handlers.  The read handler's callbacks are application      *)
(* code, so its beginning and its end are separate steps.  The exceptions  *)
(* of on_message_ are caught; those of the framer's OnData and of          *)
(* on_disconnect_ leave the handler and io_context::run with it, and       *)
(* nothing has the executor until the application calls run again.         *)
(*                                                                         *)
(* The socket and the timers are asio's: closing completes the pending     *)
(* operations, a handler that is queued as expired still runs after the    *)
(* timer is cancelled.  Left out: message contents and the path through    *)
(* WriteQueueSG.                                                           *)
(***************************************************************************)
EXTENDS Integers, Sequences, FiniteSets

CONSTANTS
    Messages,      \* the messages, each sent at most once
    SendAnywhere,  \* AsyncSend is called from any thread
    MaxCloses,     \* how often the application calls Close
    MaxExpired     \* the most expired handlers of a timer in the queue

ASSUME SessionAssumption ==
    /\ IsFiniteSet(Messages)
    /\ Messages \cap {"none", "handler", "gone"} = {}
    /\ SendAnywhere \in BOOLEAN
    /\ MaxCloses \in Nat /\ MaxExpired \in Nat

Timers == {"read", "idle"}

VARIABLES
    open,                  \* socket_ is open
    framer,                \* framer_, on_message_ and on_disconnect_ are set
    shutdown_in_progress,  \* shutdown_in_progress_
    graceful_shutdown,     \* graceful_shutdown_
    armed, expired,        \* timers with a wait pending; queued expiries
    rpc,                   \* the read loop
    write_deque,           \* write_deque_
    write_in_progress,     \* write_in_progress_
    inflight,              \* the messages async_write is writing
    hopeless,              \* those of them written to a closed socket
    spc,                   \* AsyncSend, per message
    busy,                  \* what has the executor: a call or the write handler,
                           \* "none", or "gone" when no thread runs it
    closes, forced,        \* the application's calls of Close, of Close(true)
    notified,              \* how often on_disconnect_ was called
    sent, written          \* messages queued, messages written, in order

flags   == <<open, framer, shutdown_in_progress, graceful_shutdown, notified>>
timers  == <<armed, expired>>
writes  == <<write_deque, write_in_progress, inflight, hopeless>>
calls   == <<spc, busy>>
app     == <<closes, forced>>
history == <<sent, written>>

vars == <<flags, timers, rpc, writes, calls, app, history>>

Init ==
    /\ open = TRUE
    /\ framer = TRUE
    /\ shutdown_in_progress = FALSE
    /\ graceful_shutdown = FALSE
    /\ armed = {}
    /\ expired = [t \in Timers |-> 0]
    /\ rpc = "new"
    /\ write_deque = <<>>
    /\ write_in_progress = FALSE
    /\ inflight = {}
    /\ hopeless = {}
    /\ spc = [m \in Messages |-> "new"]
    /\ busy = "none"
    /\ closes = 0
    /\ forced = FALSE
    /\ notified = 0
    /\ sent = <<>>
    /\ written = <<>>

-----------------------------------------------------------------------------
(* Close and Shutdown.                                                     *)

(* Close(true), once it runs on the executor.                              *)
CloseForce ==
    \/ /\ shutdown_in_progress
       /\ UNCHANGED <<open, shutdown_in_progress, write_deque>>
    \/ /\ ~shutdown_in_progress
       /\ shutdown_in_progress' = TRUE
       /\ open' = FALSE
       /\ write_deque' = <<>>

(* Shutdown sets the flag itself, so its Close(true) returns at once: the  *)
(* socket is not closed.  When on_disconnect_ throws, the rest is skipped. *)
Shutdown ==
    /\ \/ /\ shutdown_in_progress
          /\ UNCHANGED <<shutdown_in_progress, notified, framer, write_deque, busy>>
       \/ /\ ~shutdown_in_progress
          /\ shutdown_in_progress' = TRUE
          /\ notified' = notified + 1
          /\ \/ /\ write_deque' = <<>>
                /\ framer' = FALSE
                /\ UNCHANGED busy
             \/ /\ busy' = "gone"
                /\ UNCHANGED <<write_deque, framer>>
    /\ UNCHANGED <<open, graceful_shutdown>>

(* The application's Close(true).                                          *)
Close ==
    /\ busy = "none"
    /\ closes < MaxCloses
    /\ closes' = closes + 1
    /\ forced' = TRUE
    /\ CloseForce
    /\ UNCHANGED <<framer, graceful_shutdown, notified, timers, rpc,
                   write_in_progress, inflight, hopeless, calls, history>>

(* Variant: a write in progress does not count.                            *)
DrainedIgnoringWrite == write_deque = <<>>

Drained == ~write_in_progress /\ write_deque = <<>>

(* Its Close(false): the socket is closed now, or by WriteNext later.      *)
CloseGraceful ==
    /\ busy = "none"
    /\ closes < MaxCloses
    /\ closes' = closes + 1
    /\ \/ /\ shutdown_in_progress
          /\ UNCHANGED <<open, shutdown_in_progress, graceful_shutdown, armed,
                         write_deque>>
       \/ /\ ~shutdown_in_progress
          /\ graceful_shutdown' = TRUE
          /\ armed' = {}
          /\ IF Drained THEN CloseForce
             ELSE UNCHANGED <<open, shutdown_in_progress, write_deque>>
    /\ UNCHANGED <<framer, notified, expired, rpc, write_in_progress, inflight,
                   hopeless, calls, forced, history>>

-----------------------------------------------------------------------------
(* AsyncSend and the direct write path.                                    *)

(* Variants: the graceful shutdown is forgotten; the newest goes first.    *)
WriteNextForever ==
    \/ /\ write_deque = <<>>
       /\ write_in_progress' = FALSE
       /\ UNCHANGED <<open, shutdown_in_progress, write_deque, inflight, hopeless>>
    \/ /\ write_deque # <<>>
       /\ write_in_progress' = TRUE
       /\ write_deque' = Tail(write_deque)
       /\ inflight' = inflight \cup {Head(write_deque)}
       /\ hopeless' = IF open THEN hopeless ELSE hopeless \cup {Head(write_deque)}
       /\ UNCHANGED <<open, shutdown_in_progress>>
WriteNextNewest ==
    \/ /\ write_deque = <<>>
       /\ write_in_progress' = FALSE
       /\ UNCHANGED <<open, shutdown_in_progress, write_deque, inflight, hopeless>>
    \/ /\ write_deque # <<>>
       /\ write_in_progress' = TRUE
       /\ write_deque' = SubSeq(write_deque, 1, Len(write_deque) - 1)
       /\ inflight' = inflight \cup {write_deque[Len(write_deque)]}
       /\ UNCHANGED <<open, shutdown_in_progress, hopeless>>

(* On another thread Close(true) is posted; here it runs at once, which is *)
(* one of its schedules.                                                   *)
WriteNext ==
    \/ /\ write_deque = <<>>
       /\ write_in_progress' = FALSE
       /\ IF graceful_shutdown THEN CloseForce
          ELSE UNCHANGED <<open, shutdown_in_progress, write_deque>>
       /\ UNCHANGED <<inflight, hopeless>>
    \/ /\ write_deque # <<>>
       /\ write_in_progress' = TRUE
       /\ write_deque' = Tail(write_deque)
       /\ inflight' = inflight \cup {Head(write_deque)}
       /\ hopeless' = IF open THEN hopeless ELSE hopeless \cup {Head(write_deque)}
       /\ UNCHANGED <<open, shutdown_in_progress>>

(* The interceptor may stop the message, and an exception of the framer    *)
(* ends the call as well.  The application does not send on a session      *)
(* whose disconnection it was told of.                                     *)
AsyncSend(m) ==
    /\ rpc # "new"
    /\ framer
    /\ spc[m] = "new"
    /\ SendAnywhere \/ busy = "none"
    /\ \/ /\ spc' = [spc EXCEPT ![m] = "filtered"]
          /\ UNCHANGED <<busy, write_deque, sent>>
       \/ /\ spc' = [spc EXCEPT ![m] = "test"]
          /\ busy' = IF SendAnywhere THEN busy ELSE m
          /\ write_deque' = Append(write_deque, m)
          /\ sent' = Append(sent, m)
    /\ UNCHANGED <<flags, timers, rpc, write_in_progress, inflight, hopeless, app,
                   written>>

Release(m) == busy' = IF busy = m THEN "none" ELSE busy

SendTest(m) ==
    /\ spc[m] = "test"
    /\ \/ /\ write_in_progress
          /\ spc' = [spc EXCEPT ![m] = "done"]
          /\ Release(m)
       \/ /\ ~write_in_progress
          /\ spc' = [spc EXCEPT ![m] = "next"]
          /\ UNCHANGED busy
    /\ UNCHANGED <<flags, timers, rpc, writes, app, history>>

SendNext(m) ==
    /\ spc[m] = "next"
    /\ spc' = [spc EXCEPT ![m] = "done"]
    /\ Release(m)
    /\ WriteNext
    /\ UNCHANGED <<framer, graceful_shutdown, notified, timers, rpc, app, history>>

(* The handler of async_write: clear the flag, then go on with WriteNext.  *)
WriteDone(m) ==
    /\ busy = "none"
    /\ m \in inflight \ hopeless
    /\ inflight' = inflight \ {m}
    /\ written' = Append(written, m)
    /\ write_in_progress' = FALSE
    /\ busy' = "handler"
    /\ UNCHANGED <<flags, timers, rpc, write_deque, hopeless, spc, app, sent>>

(* Variant: the handler forgets to go on.                                  *)
WriteDoneAlone ==
    /\ busy = "handler"
    /\ busy' = "none"
    /\ UNCHANGED <<flags, timers, rpc, writes, spc, app, history>>

WriteDoneNext ==
    /\ busy = "handler"
    /\ busy' = "none"
    /\ WriteNext
    /\ UNCHANGED <<framer, graceful_shutdown, notified, timers, rpc, spc, app,
                   history>>

WriteFails(m) ==
    /\ busy = "none"
    /\ m \in inflight
    /\ inflight' = inflight \ {m}
    /\ Shutdown
    /\ UNCHANGED <<timers, rpc, write_in_progress, hopeless, spc, app, history>>

-----------------------------------------------------------------------------
(* The read loop and the timers.                                           *)

(* Variant: the read is not timed.                                         *)
StartReadUntimed ==
    /\ rpc' = IF shutdown_in_progress THEN "none" ELSE "pending"
    /\ UNCHANGED armed

StartRead ==
    \/ /\ shutdown_in_progress
       /\ rpc' = "none"
       /\ UNCHANGED armed
    \/ /\ ~shutdown_in_progress
       /\ rpc' = "pending"
       /\ armed' = armed \cup {"read"}

(* Start: StartRead and StartIdleTimer.                                    *)
Start ==
    /\ rpc = "new"
    /\ ~shutdown_in_progress
    /\ rpc' = "pending"
    /\ armed' = {"read", "idle"}
    /\ UNCHANGED <<flags, expired, writes, calls, app, history>>

(* Data has come: the waits of both timers are cancelled, and the handlers *)
(* of the messages are called.  When OnData throws, no read follows.       *)
ReadData ==
    /\ busy = "none"
    /\ rpc = "pending"
    /\ \/ /\ shutdown_in_progress
          /\ rpc' = "none"
          /\ UNCHANGED <<armed, busy>>
       \/ /\ ~shutdown_in_progress
          /\ armed' = {}
          /\ \/ rpc' = "loop" /\ UNCHANGED busy
             \/ rpc' = "none" /\ busy' = "gone"
    /\ UNCHANGED <<flags, expired, writes, spc, app, history>>

(* Only the read timer is waited for again.                                *)
ReadAgain ==
    /\ busy = "none"
    /\ rpc = "loop"
    /\ StartRead
    /\ UNCHANGED <<flags, expired, writes, calls, app, history>>

ReadFails ==
    /\ busy = "none"
    /\ rpc = "pending"
    /\ rpc' = "none"
    /\ Shutdown
    /\ UNCHANGED <<timers, write_in_progress, inflight, hopeless, spc, app, history>>

TimerExpires(t) ==
    /\ t \in armed
    /\ expired[t] < MaxExpired
    /\ armed' = armed \ {t}
    /\ expired' = [expired EXCEPT ![t] = @ + 1]
    /\ UNCHANGED <<flags, rpc, writes, calls, app, history>>

Timeout(t) ==
    /\ busy = "none"
    /\ expired[t] > 0
    /\ expired' = [expired EXCEPT ![t] = @ - 1]
    /\ Shutdown
    /\ UNCHANGED <<armed, rpc, write_in_progress, inflight, hopeless, spc, app,
                   history>>

(* The application calls io_context::run again.                            *)
RunAgain ==
    /\ busy = "gone"
    /\ busy' = "none"
    /\ UNCHANGED <<flags, timers, rpc, writes, spc, app, history>>

-----------------------------------------------------------------------------
Sending(m) == SendTest(m) \/ SendNext(m)

Next ==
    \/ Start
    \/ Close \/ CloseGraceful
    \/ \E m \in Messages :
           AsyncSend(m) \/ Sending(m) \/ WriteDone(m) \/ WriteFails(m)
    \/ WriteDoneNext
    \/ ReadData \/ ReadAgain \/ ReadFails
    \/ \E t \in Timers : TimerExpires(t) \/ Timeout(t)
    \/ RunAgain

Spec == Init /\ [][Next]_vars

(* Calls and handlers that have begun go on, timers expire and their       *)
(* handlers run, a read of a closed socket completes, and a write          *)
(* completes: its peer reads.  All of this while a thread runs the         *)
(* executor; nobody has to call run again, or to call or send anything.    *)
Fairness ==
    /\ \A m \in Messages : WF_vars(Sending(m)) /\ WF_vars(WriteDone(m) \/ WriteFails(m))
    /\ WF_vars(WriteDoneNext)
    /\ WF_vars(ReadAgain)
    /\ WF_vars(~open /\ ReadFails)
    /\ \A t \in Timers : WF_vars(TimerExpires(t)) /\ SF_vars(Timeout(t))

FairSpec == Spec /\ Fairness

-----------------------------------------------------------------------------
(* Properties.                                                             *)

TypeOK ==
    /\ open \in BOOLEAN /\ framer \in BOOLEAN
    /\ shutdown_in_progress \in BOOLEAN /\ graceful_shutdown \in BOOLEAN
    /\ armed \subseteq Timers
    /\ expired \in [Timers -> 0 .. MaxExpired]
    /\ rpc \in {"new", "none", "pending", "loop"}
    /\ write_deque \in Seq(Messages)
    /\ write_in_progress \in BOOLEAN
    /\ inflight \subseteq Messages /\ hopeless \subseteq Messages
    /\ spc \in [Messages -> {"new", "filtered", "test", "next", "done"}]
    /\ busy \in Messages \cup {"none", "handler", "gone"}
    /\ closes \in Nat /\ forced \in BOOLEAN /\ notified \in Nat
    /\ sent \in Seq(Messages) /\ written \in Seq(Messages)

(* Until the session shuts down, what was sent has been written, is being  *)
(* written or waits, in the order of the calls, nothing twice.             *)
WrittenInOrder ==
    ~shutdown_in_progress =>
        written \o (IF inflight = {} THEN <<>> ELSE <<CHOOSE m \in inflight : TRUE>>)
                \o write_deque = sent

(* A message never waits without a write in flight, or a step that is      *)
(* about to start one.                                                     *)
NothingStuck ==
    write_deque # <<>> =>
        \/ inflight # {}
        \/ busy \notin {"none", "gone"}
        \/ shutdown_in_progress

(* A graceful shutdown closes the socket only when every message has been  *)
(* written, those included that were sent after it began.  Of a shutdown   *)
(* by a timer or an error, which clears write_deque_ and leaves the socket *)
(* open, it says nothing.                                                  *)
GracefulDrains == [][open /\ ~open' => forced' \/ written = sent]_vars

(* A graceful shutdown is over at some time, when the peer reads what is   *)
(* written and no exception has ended io_context::run for good.            *)
GracefulEnds ==
    []<>(busy # "gone") => (graceful_shutdown ~> shutdown_in_progress)

(* A peer that sends nothing is noticed, also after it once sent data and  *)
(* the idle timer is no longer waited for.                                 *)
SilentPeerNoticed ==
    (rpc = "pending" /\ ~shutdown_in_progress /\ ~graceful_shutdown)
        ~> (rpc # "pending" \/ shutdown_in_progress \/ graceful_shutdown)

-----------------------------------------------------------------------------
(* What a comment says and the code does not do.                           *)

(* "per-connection state with thread-safe, dual write paths": the session  *)
(* starts no async_write while another is in flight.  It may, when         *)
(* AsyncSend runs beside another AsyncSend or beside the write handler     *)
(* (SendAnywhere).                                                         *)
OneWrite == Cardinality(inflight) <= 1

(* "Read path with timeout and race-condition guards": a session that does *)
(* not read any more is shutting down.  After an exception of OnData it is *)
(* not: no read, no timer and no report of the disconnection are left.     *)
ReadKept == rpc = "none" => shutdown_in_progress

(* "Final shutdown cleanup": the read of a session that was reported as    *)
(* disconnected ends, so that nothing keeps the session and its socket.    *)
ShutdownCloses == (notified > 0 /\ rpc = "pending") ~> (~open \/ rpc # "pending")
=============================================================================
