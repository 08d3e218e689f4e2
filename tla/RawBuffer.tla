----------------------------- MODULE RawBuffer -----------------------------
(***************************************************************************)
(* frame::RawBuffer, the movable owner of a block of memory, as operators  *)
(* on a heap h:                                                            *)
(*   h.data    the block each object owns (data_), 0 for none              *)
(*   h.freed   for each block the allocator handed out, in order, how      *)
(*             often the deleter was called                                *)
(*   h.leaked  blocks that no object came to own                           *)
(* size_ and deleter_ are set and cleared together with data_.  Left out:  *)
(* an allocator that fails, and the test of null function pointers.        *)
(***************************************************************************)
EXTENDS Naturals, Sequences, FiniteSets

NewHeap(objects) == [data |-> [o \in objects |-> 0], freed |-> <<>>, leaked |-> {}]

(* Variant: the block is released and the object goes on pointing to it.   *)
ResetKeeps(h, o) ==
    IF h.data[o] = 0 THEN h ELSE [h EXCEPT !.freed[h.data[o]] = @ + 1]

Reset(h, o) ==
    IF h.data[o] = 0 THEN h
    ELSE [h EXCEPT !.freed[h.data[o]] = @ + 1, !.data[o] = 0]

MoveFrom(h, o, p) == [h EXCEPT !.data[o] = h.data[p], !.data[p] = 0]

(* operator=, which does nothing for an object moved to itself.            *)
MoveAssign(h, o, p) == IF o = p THEN h ELSE MoveFrom(Reset(h, o), o, p)

(* Make, into an object that owns nothing.  A block of size zero is        *)
(* allocated before the constructor throws, and no destructor runs.        *)
Make(h, o, size) ==
    LET block == Len(h.freed) + 1
    IN  IF size = 0
        THEN [h EXCEPT !.freed = Append(@, 0), !.leaked = @ \cup {block}]
        ELSE [h EXCEPT !.freed = Append(@, 0), !.data[o] = block]

(* Every block handed out is owned by one object, or was freed once, or    *)
(* has leaked; nothing is freed twice and no object owns what was freed.   *)
HeapSound(h) ==
    \A b \in DOMAIN h.freed :
        LET owners == {o \in DOMAIN h.data : h.data[o] = b}
        IN  Cardinality(owners) + h.freed[b] + (IF b \in h.leaked THEN 1 ELSE 0) = 1
=============================================================================
