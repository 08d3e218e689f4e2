-------------------------- MODULE SimpleLineFramer --------------------------
(***************************************************************************)
(* frame::SimpleLineFramer, between the reads of a session and its         *)
(* messages.  The session asks PrepareRead for the buffer, the socket      *)
(* fills it from its beginning, and OnData takes the lines out, one step   *)
(* for each turn of its loop that finds a line end.                        *)
(*                                                                         *)
(* scratch is the memory of scratch_, byte by byte; what the allocator     *)
(* returns holds arbitrary bytes.  The sizes 4096 and 1024 are constants.  *)
(* A message is the bytes of its line; its RawBuffer is followed through   *)
(* the heap, until the application destroys it.  Left out: the meta data.  *)
(***************************************************************************)
EXTENDS Integers, Sequences, SequencesExt, FiniteSets, RawBuffer

CONSTANTS
    Bytes, NL,   \* the bytes, and the one that ends a line
    Capacity,    \* 4096, what is allocated beyond the bytes kept
    Reserve,     \* 1024, what must be free before a read
    MaxRead,     \* the most bytes of one read
    MaxBytes     \* the bytes of the stream

ASSUME FramerAssumption ==
    /\ NL \in Bytes
    /\ Capacity \in Nat \ {0} /\ Reserve \in 1 .. Capacity
    /\ MaxRead \in Nat /\ MaxBytes \in Nat

VARIABLES
    scratch,     \* the bytes of scratch_
    write_pos,   \* write_pos_
    start,       \* start, in OnData
    pc,          \* "idle", "reading", "lines", "threw" or "undefined"
    heap,        \* the RawBuffers: scratch_, the local one, the messages'
    emitted,     \* the lines of the messages
    returned,    \* how many of them OnData has returned
    received,    \* the bytes of the stream
    forgotten,   \* how many of them PrepareRead dropped with the buffer
    aligned      \* every read came when no bytes were left over

vars == <<scratch, write_pos, start, pc, heap, emitted, returned, received,
          forgotten, aligned>>

(* The RawBuffers: scratch_, a local variable, and the messages'.          *)
Scratch == -1
Local   == 0
Objects == {Scratch, Local} \cup 1 .. MaxBytes

Memory(n) == [1 .. n -> Bytes]

(* scratch_ = Make(n): into a temporary, which is moved from.              *)
Replaced(h, n) ==
    Reset(MoveAssign(Make(h, Local, n), Scratch, Local), Local)

Init ==
    /\ scratch \in Memory(Capacity)
    /\ write_pos = 0 /\ start = 0
    /\ pc = "idle"
    /\ heap = Replaced(NewHeap(Objects), Capacity)
    /\ emitted = <<>> /\ returned = 0
    /\ received = <<>> /\ forgotten = 0
    /\ aligned = TRUE

-----------------------------------------------------------------------------
(* There is room: scratch_ is handed out as it is.                         *)
PrepareRead ==
    /\ pc = "idle"
    /\ Len(received) < MaxBytes
    /\ Len(scratch) - write_pos >= Reserve
    /\ pc' = "reading"
    /\ UNCHANGED <<scratch, write_pos, start, heap, emitted, returned, received,
                   forgotten, aligned>>

(* There is not: a new scratch_, and the bytes left over are gone.         *)
PrepareReadGrow ==
    /\ pc = "idle"
    /\ Len(received) < MaxBytes
    /\ Len(scratch) - write_pos < Reserve
    /\ scratch' \in Memory(write_pos + Capacity)
    /\ write_pos' = 0
    /\ heap' = Replaced(Reset(heap, Scratch), write_pos + Capacity)
    /\ pc' = "reading"
    /\ forgotten' = forgotten + write_pos
    /\ aligned' = (aligned /\ write_pos = 0)
    /\ UNCHANGED <<start, emitted, returned, received>>

(* What is in scratch_ when the socket has filled it from its beginning.   *)
Filled(bytes) == bytes \o SubSeq(scratch, Len(bytes) + 1, Len(scratch))

(* A read completes and OnData begins.  More bytes than the buffer has     *)
(* make it read beyond the buffer.                                         *)
OnData(bytes) ==
    /\ pc = "reading"
    /\ received' = received \o bytes
    /\ scratch' = Filled(bytes)
    /\ write_pos' = write_pos + Len(bytes)
    /\ start' = 0
    /\ pc' = IF write_pos' > Len(scratch) THEN "undefined" ELSE "lines"
    /\ aligned' = (aligned /\ write_pos = 0)
    /\ UNCHANGED <<heap, emitted, returned, forgotten>>

(* The loop has come to the next line end, at i.                           *)
FindsEnd(i) ==
    /\ pc = "lines"
    /\ scratch[i] = NL
    /\ \A j \in start + 1 .. i - 1 : scratch[j] # NL

(* The bytes since the last line end become a message: its RawBuffer is    *)
(* made in a local variable and moved into the message.                    *)
EmitLine(i) ==
    LET line == SubSeq(scratch, start + 1, i - 1)
        m    == Len(emitted) + 1
    IN  /\ FindsEnd(i)
        /\ line # <<>>
        /\ heap' = Reset(MoveFrom(Make(heap, Local, Len(line)), m, Local), Local)
        /\ emitted' = Append(emitted, line)
        /\ start' = i
        /\ UNCHANGED <<scratch, write_pos, pc, returned, received, forgotten, aligned>>

(* RawBuffer throws at an empty line, and the session does not catch it.   *)
EmptyLine(i) ==
    /\ FindsEnd(i)
    /\ i = start + 1
    /\ heap' = Make(heap, Local, 0)
    /\ pc' = "threw"
    /\ UNCHANGED <<scratch, write_pos, start, emitted, returned, received, forgotten,
                   aligned>>

(* The messages this call has made are destroyed with out.                 *)
Unwind ==
    /\ pc = "threw"
    /\ returned < Len(emitted)
    /\ heap' = Reset(heap, Len(emitted))
    /\ emitted' = SubSeq(emitted, 1, Len(emitted) - 1)
    /\ UNCHANGED <<scratch, write_pos, start, pc, returned, received, forgotten,
                   aligned>>

(* Variants: the bytes left over are not moved; they are not discounted.   *)
KeptInPlace(s, n, used) == <<s, n - used>>
KeptCounted(s, n, used) ==
    <<SubSeq(s, used + 1, n) \o SubSeq(s, n - used + 1, Len(s)), n>>

(* The memory and write_pos_ when the first bytes of n were used:          *)
(* memmove leaves what is behind the bytes it moved.                       *)
Kept(s, n, used) ==
    <<SubSeq(s, used + 1, n) \o SubSeq(s, n - used + 1, Len(s)), n - used>>

(* There are no more lines: the rest is moved, and out returned.           *)
OnDataReturns ==
    LET kept == Kept(scratch, write_pos, start)
    IN  /\ pc = "lines"
        /\ \A j \in start + 1 .. write_pos : scratch[j] # NL
        /\ scratch' = kept[1]
        /\ write_pos' = kept[2]
        /\ start' = 0
        /\ returned' = Len(emitted)
        /\ pc' = "idle"
        /\ UNCHANGED <<heap, emitted, received, forgotten, aligned>>

(* The application destroys a message it holds.                            *)
Destroy(m) ==
    /\ heap.data[m] # 0
    /\ heap' = Reset(heap, m)
    /\ UNCHANGED <<scratch, write_pos, start, pc, emitted, returned, received,
                   forgotten, aligned>>

(* What one read of the socket may bring.                                  *)
Reads ==
    {n \in 1 .. MaxRead : n <= Len(scratch) /\ Len(received) + n <= MaxBytes}

Next ==
    \/ PrepareRead \/ PrepareReadGrow
    \/ \E n \in Reads : \E bytes \in Memory(n) : OnData(bytes)
    \/ \E i \in start + 1 .. write_pos : EmitLine(i) \/ EmptyLine(i)
    \/ Unwind \/ OnDataReturns
    \/ \E m \in 1 .. returned : Destroy(m)

Spec == Init /\ [][Next]_vars

-----------------------------------------------------------------------------
(* Properties.                                                             *)

(* OnData is not in the middle of an error.                                *)
Working == pc \in {"idle", "reading", "lines"}

(* The lines, each with its end, one after the other.                      *)
Joined(lines) ==
    LET joined[k \in 0 .. Len(lines)] ==
            IF k = 0 THEN <<>> ELSE joined[k - 1] \o lines[k] \o <<NL>>
    IN  joined[Len(lines)]

(* While every read begins with nothing left over, the messages and the    *)
(* bytes not looked at are the stream, cut exactly at the line ends.       *)
LinesExact ==
    aligned /\ Working =>
        /\ Joined(emitted) \o SubSeq(scratch, start + 1, write_pos) = received
        /\ \A k \in DOMAIN emitted : NL \notin ToSet(emitted[k])
        /\ pc # "lines" => NL \notin ToSet(SubSeq(scratch, 1, write_pos))

(* Also otherwise no byte is counted twice or lost from the count: those   *)
(* in messages, those left over and those dropped with a buffer are as     *)
(* many as were read.                                                      *)
BytesCounted ==
    Working => Len(Joined(emitted)) + (write_pos - start) + forgotten = Len(received)

(* The memory of the buffers is owned by one RawBuffer or freed once, and  *)
(* leaks only where an empty line threw.                                   *)
BuffersSound ==
    /\ HeapSound(heap)
    /\ heap.leaked # {} => pc = "threw"

-----------------------------------------------------------------------------
(* What comments say and the code does not do.                             *)

(* "splits on '\n', emitting each line as one InternalMessage", whatever   *)
(* the reads and the lines are.                                            *)
EveryLineEmitted ==
    pc = "idle" => Joined(emitted) \o SubSeq(scratch, 1, write_pos) = received

(* OnData stays inside the buffer PrepareRead handed out.                  *)
InBounds == pc # "undefined"
=============================================================================
