---------------------------- MODULE WriteQueueSG ----------------------------
(***************************************************************************)
(* vectro::stream::WriteQueueSG<Stream>: the queue in front of a socket    *)
(* that turns AsyncSend calls into asio::async_write operations, one after *)
(* the other.                                                              *)
(*                                                                         *)
(* Every operation is a lambda run by strand_, and so is every completion  *)
(* handler: each is one action.  What the strand does not serialise is the *)
(* stream: a write that was started ends on its own (StreamWrites,         *)
(* StreamFails), and its completion handler waits for its turn on the      *)
(* strand while AsyncSend and Close lambdas may run before it.             *)
(*                                                                         *)
(* A handler that calls AsyncSend again runs the new lambda inside its own;*)
(* the effect is that of an AsyncSend just before the completion.          *)
(***************************************************************************)
EXTENDS Naturals, Sequences

CONSTANTS
    Messages,   \* buffer lists; each is sent at most once
    MaxQueue    \* max_queue_size_

ASSUME MaxQueueAssumption == MaxQueue \in Nat

VARIABLES
    write_queue,        \* write_queue_, the entries not started yet
    writing,            \* writing_
    graceful_shutdown,  \* graceful_shutdown_
    max_queue_enabled,  \* max_queue_enabled_
    op,                 \* the async_write of each message
    wire,               \* the messages written completely, in that order
    sent,               \* the messages accepted by AsyncSend, in that order
    answer,             \* what each message's completion handler was told
    forced,             \* history: Close(true) was called
    failed              \* history: a completion handler saw an error

queue == <<write_queue, writing>>
modes == <<graceful_shutdown, max_queue_enabled>>
past  == <<forced, failed>>
vars  == <<queue, modes, op, wire, sent, answer, past>>

Init ==
    /\ write_queue = <<>>
    /\ writing = FALSE
    /\ graceful_shutdown = FALSE
    /\ max_queue_enabled = TRUE
    /\ op = [m \in Messages |-> "none"]
    /\ wire = <<>>
    /\ sent = <<>>
    /\ answer = [m \in Messages |-> "none"]
    /\ forced = FALSE
    /\ failed = FALSE

New(m) == op[m] = "none" /\ answer[m] = "none" /\ \A i \in DOMAIN sent : sent[i] # m

EnableMaxQueue(enable) ==
    /\ max_queue_enabled' = enable
    /\ UNCHANGED <<queue, graceful_shutdown, op, wire, sent, answer, past>>

Reject == max_queue_enabled /\ Len(write_queue) >= MaxQueue

(* DoWrite, with entries q in write_queue_ and operations ops: start the   *)
(* first entry, or stop.                                                   *)
DoWrite(q, ops) ==
    IF q = <<>>
    THEN /\ writing' = FALSE
         /\ write_queue' = <<>>
         /\ op' = ops
    ELSE /\ writing' = TRUE
         /\ write_queue' = Tail(q)
         /\ op' = [ops EXCEPT ![Head(q)] = "running"]

(* Backpressure: the entry is refused and its handler told so.             *)
AsyncSendRejected(m) ==
    /\ New(m)
    /\ Reject
    /\ answer' = [answer EXCEPT ![m] = "failed"]
    /\ UNCHANGED <<queue, modes, op, wire, sent, past>>

(* Variant: every entry starts a write of its own.                         *)
StartAlways(q) == DoWrite(q, op)

(* if (!writing_) DoWrite().                                               *)
StartIfIdle(q) ==
    IF writing
    THEN /\ write_queue' = q
         /\ UNCHANGED <<writing, op>>
    ELSE DoWrite(q, op)

AsyncSend(m) ==
    /\ New(m)
    /\ ~Reject
    /\ sent' = Append(sent, m)
    /\ StartIfIdle(Append(write_queue, m))
    /\ UNCHANGED <<modes, wire, answer, past>>

(* Close(true): cancel the writes in flight, forget the queue.  A write    *)
(* that has already ended is not affected by cancel().                     *)
CloseForce ==
    /\ op' = [m \in Messages |-> IF op[m] = "running" THEN "failed" ELSE op[m]]
    /\ write_queue' = <<>>
    /\ writing' = FALSE
    /\ forced' = TRUE
    /\ UNCHANGED <<modes, wire, sent, answer, failed>>

CloseGraceful ==
    /\ graceful_shutdown' = TRUE
    /\ UNCHANGED <<queue, max_queue_enabled, op, wire, sent, answer, past>>

(* The stream ends a write.                                                *)
StreamWrites(m) ==
    /\ op[m] = "running"
    /\ op' = [op EXCEPT ![m] = "ok"]
    /\ wire' = Append(wire, m)
    /\ UNCHANGED <<queue, modes, sent, answer, past>>

StreamFails(m) ==
    /\ op[m] = "running"
    /\ op' = [op EXCEPT ![m] = "failed"]
    /\ UNCHANGED <<queue, modes, wire, sent, answer, past>>

(* Variant: the caller is told, and nothing else is started.               *)
CompleteOkAlone(m) ==
    /\ op[m] = "ok"
    /\ answer' = [answer EXCEPT ![m] = "ok"]
    /\ op' = [op EXCEPT ![m] = "done"]
    /\ UNCHANGED <<queue, modes, wire, sent, past>>

(* The completion handler of a write that succeeded: tell the caller, then *)
(* start the next write.                                                   *)
CompleteOk(m) ==
    /\ op[m] = "ok"
    /\ answer' = [answer EXCEPT ![m] = "ok"]
    /\ DoWrite(write_queue, [op EXCEPT ![m] = "done"])
    /\ UNCHANGED <<modes, wire, sent, past>>

(* Variant: a failed write goes on with the next entry.                    *)
CompleteFailedNext(m) ==
    /\ op[m] = "failed"
    /\ answer' = [answer EXCEPT ![m] = "failed"]
    /\ DoWrite(write_queue, [op EXCEPT ![m] = "done"])
    /\ failed' = TRUE
    /\ UNCHANGED <<modes, wire, sent, forced>>

(* Variant: the handler is told of a success.                              *)
CompleteFailedAsOk(m) ==
    /\ op[m] = "failed"
    /\ answer' = [answer EXCEPT ![m] = "ok"]
    /\ op' = [op EXCEPT ![m] = "done"]
    /\ write_queue' = <<>>
    /\ failed' = TRUE
    /\ UNCHANGED <<writing, modes, wire, sent, forced>>

(* The completion handler of a write that failed or was cancelled: tell    *)
(* the caller, forget the queue.  writing_ stays as it is.                 *)
CompleteFailed(m) ==
    /\ op[m] = "failed"
    /\ answer' = [answer EXCEPT ![m] = "failed"]
    /\ op' = [op EXCEPT ![m] = "done"]
    /\ write_queue' = <<>>
    /\ failed' = TRUE
    /\ UNCHANGED <<writing, modes, wire, sent, forced>>

StreamStep(m) == StreamWrites(m) \/ StreamFails(m)

Complete(m) == CompleteOk(m) \/ CompleteFailed(m)

Next ==
    \/ \E m \in Messages : \/ AsyncSend(m) \/ AsyncSendRejected(m)
                           \/ StreamStep(m) \/ Complete(m)
    \/ \E enable \in BOOLEAN : EnableMaxQueue(enable)
    \/ CloseForce
    \/ CloseGraceful

Spec == Init /\ [][Next]_vars

(* The stream ends every write it was given, and the strand runs every     *)
(* completion handler.                                                     *)
Fairness ==
    \A m \in Messages : WF_vars(StreamStep(m)) /\ WF_vars(Complete(m))

FairSpec == Spec /\ Fairness

-----------------------------------------------------------------------------
(* Properties.                                                             *)

TypeOK ==
    /\ write_queue \in Seq(Messages)
    /\ writing \in BOOLEAN
    /\ graceful_shutdown \in BOOLEAN /\ max_queue_enabled \in BOOLEAN
    /\ op \in [Messages -> {"none", "running", "ok", "failed", "done"}]
    /\ wire \in Seq(Messages)
    /\ sent \in Seq(Messages)
    /\ answer \in [Messages -> {"none", "ok", "failed"}]
    /\ forced \in BOOLEAN /\ failed \in BOOLEAN

(* The writes whose completion handler has not run.                        *)
Outstanding == {m \in Messages : op[m] \in {"running", "ok", "failed"}}

(* "requiring ordered writes": asio forbids a second async_write on a      *)
(* stream before the first has ended, and the pieces of the two would mix. *)
(* Close(true) resets writing_ while the cancelled write's handler is      *)
(* still to come, so a later AsyncSend can break this.                     *)
OneWriteAlways ==
    \A m, n \in Messages : op[m] = "running" /\ op[n] = "running" => m = n

(* Until a close is forced, and however sends, completions, failures and   *)
(* graceful closes interleave, the stream works on one write at a time.    *)
OneWriteAtATime == ~forced => OneWriteAlways

(* The messages on the wire are the first of the accepted ones.            *)
InOrder ==
    /\ Len(wire) <= Len(sent)
    /\ \A i \in 1 .. Len(wire) : wire[i] = sent[i]

(* Until a close is forced, the peer receives a prefix of what was         *)
(* accepted: nothing overtakes, nothing is skipped, and after a failed     *)
(* write nothing more is written.                                          *)
OrderedWrites == ~forced => InOrder

(* A caller is told "ok" only for what was written and "failed" only for   *)
(* what was not, also when a forced Close overtakes a completion.          *)
AnswersTruthful ==
    \A m \in Messages :
        /\ answer[m] = "ok" => \E i \in DOMAIN wire : wire[i] = m
        /\ answer[m] = "failed" => \A i \in DOMAIN wire : wire[i] # m

(* A message that waits has a write ahead of it whose completion handler   *)
(* will go on with the queue, also after a forced close whose late         *)
(* completions clear writing_ under a write in flight.  Only a failed      *)
(* write, which leaves writing_ set, makes later messages wait for nobody. *)
NothingStranded == write_queue # <<>> => Outstanding # {} \/ failed

(* As long as no write fails and no close is forced, every accepted entry  *)
(* is written and its caller told, also after a graceful Close.            *)
HandlersInvoked ==
    \A m \in Messages :
        (\E i \in DOMAIN sent : sent[i] = m)
            ~> (answer[m] # "none" \/ forced \/ failed)

(* "CompletionHandler is an optional callback invoked with success status  *)
(* after each write operation": the caller of every accepted entry is      *)
(* told.  The code does not do this: a failed write and a forced close     *)
(* discard the queue with its handlers, and what is sent after a failed    *)
(* write waits for ever, because writing_ stays set.                       *)
HandlersAlways ==
    \A m \in Messages :
        (\E i \in DOMAIN sent : sent[i] = m) ~> answer[m] # "none"
=============================================================================
