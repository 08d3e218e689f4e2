----------------------------- MODULE FifoQueue -----------------------------
(***************************************************************************)
(* What TaskMultiProcessor promises in FIFO mode: a queue with one server. *)
(***************************************************************************)
EXTENDS Sequences

CONSTANT Tasks

VARIABLES
    pending,   \* accepted and not served, oldest first
    done       \* served, in the order of service

Init ==
    /\ pending = <<>>
    /\ done = <<>>

Accept(t) ==
    /\ pending' = Append(pending, t)
    /\ UNCHANGED done

Serve ==
    /\ pending # <<>>
    /\ done' = Append(done, Head(pending))
    /\ pending' = Tail(pending)

Next == (\E t \in Tasks : Accept(t)) \/ Serve

Spec == Init /\ [][Next]_<<pending, done>>
=============================================================================
