----------------------- MODULE SimpleLineFramer_proofs -----------------------
(***************************************************************************)
(* Proofs about the framer, for buffers, reads and streams of any size:    *)
(* what Joined computes, that the operations of RawBuffer keep every block *)
(* owned once, and the three properties of the framer.                     *)
(***************************************************************************)
EXTENDS SimpleLineFramer, SequenceTheorems, FiniteSetTheorems,
        WellFoundedInduction, TLAPS

-----------------------------------------------------------------------------
(* The lines joined.  An induction is written as a least counterexample.   *)

LEMMA LeastNat ==
    ASSUME NEW T \in SUBSET Nat, T # {}
    PROVE  \E x \in T : \A y \in T : x <= y
<1> DEFINE R == OpToRel(<, Nat)
<1>1. IsWellFoundedOn(R, Nat)
  BY NatLessThanWellFounded
<1>2. \A x, y \in Nat : <<y, x>> \in R <=> y < x
  BY DEF OpToRel
<1> HIDE DEF R
<1>3. PICK x \in T : \A y \in T : ~(<<y, x>> \in R)
  BY <1>1, WFMin
<1>4. \A y \in T : x <= y
  <2> SUFFICES ASSUME NEW y \in T PROVE x <= y
    OBVIOUS
  <2>1. x \in Nat /\ y \in Nat /\ ~(y < x)
    BY <1>2, <1>3
  <2> QED
    BY <2>1
<1> QED
  BY <1>4

(* The function that Joined defines for a sequence of lines.               *)
Extended(f, lines, k) == IF k = 0 THEN <<>> ELSE f[k - 1] \o lines[k] \o <<NL>>
IsJoin(f, lines) == f = [k \in 0 .. Len(lines) |-> Extended(f, lines, k)]

LEMMA JoinedIsJoin ==
    ASSUME NEW lines
    PROVE  Joined(lines) = (CHOOSE f : IsJoin(f, lines))[Len(lines)]
BY DEF Joined, IsJoin, Extended

(* There is such a function.                                               *)
LEMMA JoinExists ==
    ASSUME NEW lines \in Seq(Seq(Bytes))
    PROVE  \E f \in [0 .. Len(lines) -> Seq(Bytes)] : IsJoin(f, lines)
<1> DEFINE n == Len(lines)
           Prefix(m) == \E f \in [0 .. m -> Seq(Bytes)] :
                            \A k \in 0 .. m : f[k] = Extended(f, lines, k)
           T == {m \in 0 .. n : ~Prefix(m)}
<1>1. n \in Nat /\ \A k \in 1 .. n : lines[k] \in Seq(Bytes)
  BY LenProperties, ElementOfSeq
<1>2. <<NL>> \in Seq(Bytes) /\ <<>> \in Seq(Bytes)
  BY FramerAssumption
<1>3. Prefix(0)
  <2> DEFINE f == [k \in 0 .. 0 |-> <<>>]
  <2>1. f \in [0 .. 0 -> Seq(Bytes)]
    BY <1>2
  <2>2. \A k \in 0 .. 0 : f[k] = Extended(f, lines, k)
    BY DEF Extended
  <2> QED
    BY <2>1, <2>2
<1>4. ASSUME NEW m \in 1 .. n, Prefix(m - 1) PROVE Prefix(m)
  <2>1. PICK f \in [0 .. m - 1 -> Seq(Bytes)] :
            \A k \in 0 .. m - 1 : f[k] = Extended(f, lines, k)
    BY <1>4
  <2> DEFINE last == f[m - 1] \o lines[m] \o <<NL>>
             g == [k \in 0 .. m |-> IF k = m THEN last ELSE f[k]]
  <2>2. m \in Nat /\ m # 0 /\ m - 1 \in 0 .. m - 1 /\ f[m - 1] \in Seq(Bytes)
    BY <1>1
  <2>3. last \in Seq(Bytes)
    BY <1>1, <1>2, <2>2, ConcatProperties
  <2>4. \A k \in 0 .. m : k # m => k \in 0 .. m - 1
    BY <2>2
  <2>5. g \in [0 .. m -> Seq(Bytes)]
    <3> HIDE DEF last
    <3> QED
      BY <2>3, <2>4
  <2>6. ASSUME NEW k \in 0 .. m PROVE g[k] = Extended(g, lines, k)
    <3>1. CASE k = 0
      <4>1. 0 \in 0 .. m - 1 /\ 0 \in 0 .. m /\ 0 # m
        BY <2>2
      <4>2. g[0] = f[0]
        BY <4>1
      <4>3. f[0] = Extended(f, lines, 0)
        BY <2>1, <4>1
      <4> QED
        BY <3>1, <4>2, <4>3 DEF Extended
    <3>2. CASE k # 0 /\ k # m
      <4>1. k \in 0 .. m - 1 /\ k - 1 \in 0 .. m /\ k - 1 # m
        BY <2>2, <3>2
      <4>2. g[k] = f[k] /\ g[k - 1] = f[k - 1] /\ f[k] = Extended(f, lines, k)
        BY <2>1, <3>2, <4>1
      <4> QED
        BY <3>2, <4>2 DEF Extended
    <3>3. CASE k = m
      <4>1. m - 1 \in 0 .. m /\ m - 1 # m
        BY <2>2
      <4>2. g[m] = last /\ g[m - 1] = f[m - 1]
        BY <3>3, <4>1
      <4> QED
        BY <2>2, <3>3, <4>2 DEF Extended
    <3> QED
      BY <3>1, <3>2, <3>3
  <2> QED
    BY <2>5, <2>6
<1> HIDE DEF Prefix
<1>5. T = {}
  <2> SUFFICES ASSUME T # {} PROVE FALSE
    OBVIOUS
  <2>1. T \in SUBSET Nat
    BY <1>1
  <2>2. PICK x \in T : \A y \in T : x <= y
    BY <2>1, LeastNat
  <2>3. x \in 0 .. n /\ ~Prefix(x)
    OBVIOUS
  <2>4. x # 0
    BY <1>3, <2>3
  <2>5. x \in 1 .. n /\ x - 1 \in 0 .. n /\ ~(x <= x - 1)
    BY <1>1, <2>3, <2>4
  <2>6. Prefix(x - 1)
    BY <2>2, <2>5
  <2> QED
    BY <1>4, <2>3, <2>5, <2>6
<1>6. Prefix(n)
  BY <1>1, <1>5
<1>7. PICK f \in [0 .. n -> Seq(Bytes)] : \A k \in 0 .. n : f[k] = Extended(f, lines, k)
  BY <1>6 DEF Prefix
<1>8. f = [k \in 0 .. n |-> Extended(f, lines, k)]
  BY <1>7
<1> QED
  BY <1>8 DEF IsJoin

(* It depends only on the lines it joins.                                  *)
LEMMA JoinAgrees ==
    ASSUME NEW ls, NEW ms, NEW f, NEW g, NEW n \in Nat,
           Len(ls) \in Nat, Len(ms) \in Nat, n <= Len(ls), n <= Len(ms),
           IsJoin(f, ls), IsJoin(g, ms), \A k \in 1 .. n : ls[k] = ms[k]
    PROVE  \A k \in 0 .. n : f[k] = g[k]
<1> DEFINE T == {k \in 0 .. n : f[k] # g[k]}
<1>1. \A k \in 0 .. n : f[k] = Extended(f, ls, k) /\ g[k] = Extended(g, ms, k)
  <2> SUFFICES ASSUME NEW k \in 0 .. n
               PROVE  f[k] = Extended(f, ls, k) /\ g[k] = Extended(g, ms, k)
    OBVIOUS
  <2>1. k \in 0 .. Len(ls) /\ k \in 0 .. Len(ms)
    OBVIOUS
  <2>2. f[k] = [j \in 0 .. Len(ls) |-> Extended(f, ls, j)][k]
    BY DEF IsJoin
  <2>3. g[k] = [j \in 0 .. Len(ms) |-> Extended(g, ms, j)][k]
    BY DEF IsJoin
  <2> QED
    BY <2>1, <2>2, <2>3
<1> SUFFICES ASSUME T # {} PROVE FALSE
  OBVIOUS
<1>2. T \in SUBSET Nat
  OBVIOUS
<1>3. PICK x \in T : \A y \in T : x <= y
  BY <1>2, LeastNat
<1>4. x \in 0 .. n /\ f[x] # g[x]
  OBVIOUS
<1>5. CASE x = 0
  BY <1>1, <1>4, <1>5 DEF Extended
<1>6. CASE x # 0
  <2>1. x \in 1 .. n /\ x - 1 \in 0 .. n /\ ~(x <= x - 1)
    BY <1>4, <1>6
  <2>2. f[x - 1] = g[x - 1] /\ ls[x] = ms[x]
    BY <1>3, <2>1
  <2> QED
    BY <1>1, <1>4, <1>6, <2>2 DEF Extended
<1> QED
  BY <1>5, <1>6

LEMMA JoinedType ==
    ASSUME NEW lines \in Seq(Seq(Bytes))
    PROVE  /\ Joined(lines) \in Seq(Bytes)
           /\ IsJoin(CHOOSE f : IsJoin(f, lines), lines)
<1> DEFINE c == CHOOSE f : IsJoin(f, lines)
           n == Len(lines)
<1>1. n \in Nat
  BY LenProperties
<1>2. PICK f \in [0 .. n -> Seq(Bytes)] : IsJoin(f, lines)
  BY JoinExists
<1>3. IsJoin(c, lines)
  BY <1>2
<1> HIDE DEF c
<1>4. \A k \in 0 .. n : c[k] = f[k]
  BY <1>1, <1>2, <1>3, JoinAgrees
<1>5. c[n] \in Seq(Bytes)
  BY <1>1, <1>4
<1> QED
  BY <1>3, <1>5, JoinedIsJoin DEF c

LEMMA JoinedEmpty == Joined(<<>>) = <<>>
<1> DEFINE c == CHOOSE f : IsJoin(f, <<>>)
<1>1. <<>> \in Seq(Seq(Bytes)) /\ Len(<<>>) = 0
  BY EmptySeq
<1>2. IsJoin(c, <<>>)
  BY <1>1, JoinedType
<1> HIDE DEF c
<1>3. c[0] = Extended(c, <<>>, 0)
  <2>1. c = [k \in 0 .. Len(<<>>) |-> Extended(c, <<>>, k)]
    BY <1>2 DEF IsJoin
  <2>2. 0 \in 0 .. Len(<<>>)
    BY <1>1
  <2> DEFINE d == [k \in 0 .. Len(<<>>) |-> Extended(c, <<>>, k)]
  <2>3. d[0] = Extended(c, <<>>, 0)
    BY <2>2
  <2> HIDE DEF d
  <2> QED
    BY <2>1, <2>3 DEF d
<1> QED
  BY <1>1, <1>3, JoinedIsJoin DEF c, Extended

LEMMA JoinAppend ==
    ASSUME NEW lines \in Seq(Seq(Bytes)), NEW line \in Seq(Bytes), NEW f, NEW g,
           IsJoin(f, lines), IsJoin(g, Append(lines, line))
    PROVE  g[Len(lines) + 1] = f[Len(lines)] \o line \o <<NL>>
<1>1. PICK more : more = Append(lines, line)
  OBVIOUS
<1>2. PICK n : n = Len(lines)
  OBVIOUS
<1>3. /\ n \in Nat /\ Len(more) \in Nat /\ Len(more) = n + 1
      /\ n <= Len(lines) /\ n <= Len(more) /\ Len(lines) \in Nat
      /\ \A k \in 1 .. n : lines[k] = more[k]
      /\ more[n + 1] = line
  BY <1>1, <1>2, LenProperties, AppendProperties
<1>4. IsJoin(f, lines) /\ IsJoin(g, more)
  BY <1>1
<1>5. f[n] = g[n]
  <2>1. \A k \in 0 .. n : f[k] = g[k]
    BY <1>3, <1>4, JoinAgrees
  <2> QED
    BY <1>3, <2>1
<1>6. n + 1 \in 0 .. Len(more) /\ n + 1 # 0 /\ (n + 1) - 1 = n
  BY <1>3
<1>7. g[n + 1] = [k \in 0 .. Len(more) |-> Extended(g, more, k)][n + 1]
  BY <1>4 DEF IsJoin
<1>8. g[n + 1] = Extended(g, more, n + 1)
  BY <1>6, <1>7
<1> QED
  BY <1>2, <1>3, <1>5, <1>6, <1>8 DEF Extended

(* One more line adds its bytes and its end.                               *)
LEMMA JoinedAppend ==
    ASSUME NEW lines \in Seq(Seq(Bytes)), NEW line \in Seq(Bytes)
    PROVE  /\ Joined(Append(lines, line)) = Joined(lines) \o line \o <<NL>>
           /\ Len(Joined(Append(lines, line))) = Len(Joined(lines)) + Len(line) + 1
<1> DEFINE more == Append(lines, line)
           j == Joined(lines)
<1>1. more \in Seq(Seq(Bytes)) /\ Len(more) = Len(lines) + 1
  BY AppendProperties
<1>2. Joined(more) = j \o line \o <<NL>>
  <2>1. PICK f : f = CHOOSE h : IsJoin(h, lines)
    OBVIOUS
  <2>2. PICK g : g = CHOOSE h : IsJoin(h, more)
    OBVIOUS
  <2>3. IsJoin(f, lines) /\ IsJoin(g, more)
    BY <1>1, <2>1, <2>2, JoinedType
  <2>4. j = f[Len(lines)] /\ Joined(more) = g[Len(lines) + 1]
    BY <1>1, <2>1, <2>2, JoinedIsJoin
  <2>5. g[Len(lines) + 1] = f[Len(lines)] \o line \o <<NL>>
    BY <2>3, JoinAppend
  <2> QED
    BY <2>4, <2>5
<1>3. j \in Seq(Bytes) /\ <<NL>> \in Seq(Bytes) /\ Len(<<NL>>) = 1
  <2>1. j \in Seq(Bytes)
    BY JoinedType
  <2>2. <<NL>> \in Seq(Bytes) /\ Len(<<NL>>) = 1
    BY FramerAssumption
  <2> QED
    BY <2>1, <2>2
<1> HIDE DEF j
<1>4. j \o line \in Seq(Bytes) /\ Len(j \o line) = Len(j) + Len(line)
  BY <1>3, ConcatProperties
<1>5. Len((j \o line) \o <<NL>>) = Len(j \o line) + 1
  BY <1>3, <1>4, ConcatProperties
<1> QED
  BY <1>2, <1>4, <1>5 DEF j
-----------------------------------------------------------------------------
(* The heap.                                                               *)

HeapType == [data : [Objects -> Nat], freed : Seq(Nat), leaked : SUBSET Nat]

Heaps == {h \in HeapType :
             /\ \A o \in Objects : h.data[o] <= Len(h.freed)
             /\ \A b \in h.leaked : b <= Len(h.freed)}

Owned(h, b) == \E o \in Objects : h.data[o] = b

(* HeapSound, block by block and without counting the owners.              *)
Settled(h, b) ==
    /\ \A o, p \in Objects : h.data[o] = b /\ h.data[p] = b => o = p
    /\ (IF Owned(h, b) THEN 1 ELSE 0) + h.freed[b] + (IF b \in h.leaked THEN 1 ELSE 0) = 1

Blocks(h) == 1 .. Len(h.freed)

AllSettled(h) == \A b \in Blocks(h) : Settled(h, b)

LEMMA ObjectsFinite ==
    /\ IsFiniteSet(Objects)
    /\ Scratch \in Objects /\ Local \in Objects /\ Scratch # Local
    /\ \A m \in 1 .. MaxBytes : m \in Objects /\ m # Local /\ m # Scratch
<1>1. IsFiniteSet(1 .. MaxBytes)
  BY FS_Interval, FramerAssumption
<1>2. IsFiniteSet({Scratch, Local})
  <2>1. IsFiniteSet({Scratch}) /\ {Scratch, Local} = {Scratch} \cup {Local}
    BY FS_Singleton
  <2> QED
    BY <2>1, FS_AddElement
<1>3. IsFiniteSet(Objects)
  BY <1>1, <1>2, FS_Union DEF Objects
<1> QED
  BY <1>3, FramerAssumption DEF Objects, Scratch, Local

LEMMA HeapFields ==
    ASSUME NEW h \in Heaps
    PROVE  /\ h = [data |-> h.data, freed |-> h.freed, leaked |-> h.leaked]
           /\ h.data \in [Objects -> Nat] /\ h.freed \in Seq(Nat)
           /\ h.leaked \in SUBSET Nat
           /\ Len(h.freed) \in Nat /\ DOMAIN h.freed = Blocks(h)
           /\ DOMAIN h.data = Objects
           /\ \A b \in Blocks(h) : h.freed[b] \in Nat /\ b \in Nat \ {0}
           /\ \A o \in Objects : h.data[o] <= Len(h.freed)
           /\ \A b \in h.leaked : b <= Len(h.freed)
<1>1. /\ h = [data |-> h.data, freed |-> h.freed, leaked |-> h.leaked]
      /\ h.data \in [Objects -> Nat] /\ h.freed \in Seq(Nat)
      /\ h.leaked \in SUBSET Nat
      /\ \A o \in Objects : h.data[o] <= Len(h.freed)
      /\ \A b \in h.leaked : b <= Len(h.freed)
  BY DEF Heaps, HeapType
<1>2. Len(h.freed) \in Nat /\ DOMAIN h.freed = 1 .. Len(h.freed)
  BY <1>1, LenProperties
<1>3. \A b \in 1 .. Len(h.freed) : h.freed[b] \in Nat /\ b \in Nat \ {0}
  BY <1>1, <1>2, ElementOfSeq
<1> QED
  BY <1>1, <1>2, <1>3 DEF Blocks

LEMMA MakeHeap ==
    ASSUME NEW d \in [Objects -> Nat], NEW f \in Seq(Nat), NEW l \in SUBSET Nat,
           \A o \in Objects : d[o] <= Len(f), \A b \in l : b <= Len(f)
    PROVE  [data |-> d, freed |-> f, leaked |-> l] \in Heaps
BY DEF Heaps, HeapType

LEMMA SoundIsSettled ==
    ASSUME NEW h \in Heaps
    PROVE  HeapSound(h) <=> AllSettled(h)
<1>1. ASSUME NEW b \in Blocks(h)
      PROVE  (Cardinality({o \in Objects : h.data[o] = b}) + h.freed[b]
                 + (IF b \in h.leaked THEN 1 ELSE 0) = 1)
             <=> Settled(h, b)
  <2> DEFINE owners == {o \in Objects : h.data[o] = b}
             n == Cardinality(owners)
  <2>1. IsFiniteSet(owners)
    BY FS_Subset, ObjectsFinite
  <2>2. n \in Nat /\ h.freed[b] \in Nat
    BY <2>1, FS_CardinalityType, HeapFields
  <2>3. n = 0 <=> ~Owned(h, b)
    BY <2>1, FS_EmptySet DEF Owned
  <2>4. n = 1 <=> \E o : owners = {o}
    BY <2>1, FS_Singleton
  <2>5. (\E o : owners = {o})
        <=> Owned(h, b) /\ \A o, p \in Objects : h.data[o] = b /\ h.data[p] = b => o = p
    BY DEF Owned
  <2>6. ~Owned(h, b) => \A o, p \in Objects : h.data[o] = b /\ h.data[p] = b => o = p
    BY DEF Owned
  <2> HIDE DEF n, owners
  <2> DEFINE f == h.freed[b]
             k == IF b \in h.leaked THEN 1 ELSE 0
             m == IF Owned(h, b) THEN 1 ELSE 0
             unique == \A o, p \in Objects : h.data[o] = b /\ h.data[p] = b => o = p
  <2>7. k \in {0, 1} /\ m \in {0, 1} /\ f \in Nat /\ unique \in BOOLEAN
    BY <2>2
  <2>8. (n = 0 <=> m = 0) /\ (n \in {0, 1} <=> unique)
    <3>1. n = 0 <=> m = 0
      BY <2>3
    <3>2. n = 1 <=> Owned(h, b) /\ unique
      BY <2>4, <2>5
    <3>3. ~Owned(h, b) => unique
      BY <2>6
    <3> HIDE DEF m, unique
    <3> QED
      BY <2>3, <3>1, <3>2, <3>3
  <2>9. Settled(h, b) <=> unique /\ m + f + k = 1
    BY DEF Settled
  <2> HIDE DEF f, k, m, unique
  <2>10. n + f + k = 1 <=> unique /\ m + f + k = 1
    <3>1. n = m \/ n > 1
      BY <2>2, <2>7, <2>8
    <3>2. n > 1 => ~unique /\ n + f + k # 1
      BY <2>2, <2>7, <2>8
    <3>3. n = m => unique
      BY <2>7, <2>8
    <3> QED
      BY <3>1, <3>2, <3>3
  <2>11. (n + h.freed[b] + (IF b \in h.leaked THEN 1 ELSE 0) = 1) <=> Settled(h, b)
    BY <2>9, <2>10 DEF f, k
  <2> QED
    BY <2>11 DEF n, owners
<1>2. DOMAIN h.freed = Blocks(h) /\ DOMAIN h.data = Objects
  BY HeapFields
<1> QED
  BY <1>1, <1>2 DEF HeapSound, AllSettled

LEMMA ResetFields ==
    ASSUME NEW h \in Heaps, NEW o \in Objects, h.data[o] # 0
    PROVE  /\ Reset(h, o).data = [h.data EXCEPT ![o] = 0]
           /\ Reset(h, o).freed = [h.freed EXCEPT ![h.data[o]] = @ + 1]
           /\ Reset(h, o).leaked = h.leaked
           /\ Reset(h, o) \in Heaps
           /\ Len(Reset(h, o).freed) = Len(h.freed)
<1>1. PICK d, f, l, b : d = h.data /\ f = h.freed /\ l = h.leaked /\ b = h.data[o]
  OBVIOUS
<1>2. /\ d \in [Objects -> Nat] /\ f \in Seq(Nat) /\ l \in SUBSET Nat
      /\ b \in 1 .. Len(f) /\ f[b] \in Nat
      /\ \A p \in Objects : d[p] <= Len(f)
      /\ \A c \in l : c <= Len(f)
  BY <1>1, HeapFields DEF Blocks
<1> DEFINE e == [d EXCEPT ![o] = 0]
           g == [f EXCEPT ![b] = @ + 1]
<1>3. Reset(h, o) = [data |-> e, freed |-> g, leaked |-> l]
  <2>1. h \in HeapType
    BY DEF Heaps
  <2> QED
    BY <1>1, <2>1 DEF Reset, HeapType
<1>4. g \in Seq(Nat) /\ Len(g) = Len(f)
  BY <1>2, ExceptSeq
<1>5. e \in [Objects -> Nat] /\ \A p \in Objects : e[p] <= Len(g)
  BY <1>2, <1>4, LenProperties
<1> HIDE DEF e, g
<1>6. [data |-> e, freed |-> g, leaked |-> l] \in Heaps
  BY <1>2, <1>4, <1>5, MakeHeap
<1> QED
  BY <1>1, <1>3, <1>4, <1>6 DEF e, g

(* What an operation keeps: the heap is one, every block is settled, and   *)
(* nothing new has leaked.                                                 *)
LEMMA ResetSettled ==
    ASSUME NEW h \in Heaps, NEW o \in Objects, AllSettled(h)
    PROVE  /\ Reset(h, o) \in Heaps /\ AllSettled(Reset(h, o))
           /\ Reset(h, o).data = [h.data EXCEPT ![o] = 0]
           /\ Reset(h, o).leaked = h.leaked
<1>1. CASE h.data[o] = 0
  <2>1. Reset(h, o) = h
    BY <1>1 DEF Reset
  <2>2. h.data = [h.data EXCEPT ![o] = 0]
    BY <1>1, HeapFields
  <2> QED
    BY <2>1, <2>2
<1>2. CASE h.data[o] # 0
  <2> DEFINE r == Reset(h, o)
             d == h.data[o]
  <2>1. /\ r.data = [h.data EXCEPT ![o] = 0] /\ r.freed = [h.freed EXCEPT ![d] = @ + 1]
        /\ r.leaked = h.leaked /\ r \in Heaps /\ Len(r.freed) = Len(h.freed)
    BY <1>2, ResetFields
  <2>2. h.data \in [Objects -> Nat] /\ d \in Blocks(h) /\ DOMAIN h.freed = Blocks(h)
    BY <1>2, HeapFields DEF Blocks
  <2> HIDE DEF r, d
  <2>3. ASSUME NEW b \in Blocks(h) PROVE Settled(r, b)
    <3>1. Settled(h, b) /\ h.freed[b] \in Nat /\ b # 0
      BY HeapFields DEF AllSettled
    <3>2. \A p \in Objects : r.data[p] = b <=> h.data[p] = b /\ p # o
      BY <2>1, <2>2, <3>1
    <3>3. CASE b = d
      <4>1. Owned(h, b) /\ \A p \in Objects : h.data[p] = b => p = o
        BY <3>1, <3>3 DEF Settled, Owned, d
      <4>2. ~Owned(r, b)
        BY <3>2, <4>1 DEF Owned
      <4>3. r.freed[b] = h.freed[b] + 1
        BY <2>1, <2>2, <3>3
      <4>4. \A p, q \in Objects : r.data[p] = b /\ r.data[q] = b => p = q
        BY <4>2 DEF Owned
      <4> QED
        BY <2>1, <3>1, <4>1, <4>2, <4>3, <4>4 DEF Settled
    <3>4. CASE b # d
      <4>1. \A p \in Objects : r.data[p] = b <=> h.data[p] = b
        BY <3>2, <3>4 DEF d
      <4>2. (Owned(r, b) <=> Owned(h, b)) /\ r.freed[b] = h.freed[b]
        BY <2>1, <2>2, <3>4, <4>1 DEF Owned
      <4> QED
        BY <2>1, <3>1, <4>1, <4>2 DEF Settled
    <3> QED
      BY <3>3, <3>4
  <2>4. AllSettled(r)
    BY <2>1, <2>3 DEF AllSettled, Blocks
  <2> QED
    BY <2>1, <2>4 DEF r
<1> QED
  BY <1>1, <1>2

(* An object that owns nothing takes what another one owns.                *)
LEMMA MoveSettled ==
    ASSUME NEW h \in Heaps, NEW o \in Objects, NEW p \in Objects, o # p,
           h.data[o] = 0, AllSettled(h)
    PROVE  /\ MoveFrom(h, o, p) \in Heaps /\ AllSettled(MoveFrom(h, o, p))
           /\ MoveFrom(h, o, p).data = [h.data EXCEPT ![o] = h.data[p], ![p] = 0]
           /\ MoveFrom(h, o, p).leaked = h.leaked
<1> DEFINE r == MoveFrom(h, o, p)
           e == [h.data EXCEPT ![o] = h.data[p], ![p] = 0]
<1>1. h.data \in [Objects -> Nat] /\ \A x \in Objects : h.data[x] <= Len(h.freed)
  BY HeapFields
<1>2. r = [data |-> e, freed |-> h.freed, leaked |-> h.leaked]
  <2>1. h \in HeapType
    BY DEF Heaps
  <2>2. /\ DOMAIN r = DOMAIN h /\ DOMAIN h = {"data", "freed", "leaked"}
        /\ r.data = e /\ r.freed = h.freed /\ r.leaked = h.leaked
    BY <2>1 DEF MoveFrom, HeapType
  <2>3. r = [x \in DOMAIN r |-> r[x]]
    BY <2>1 DEF MoveFrom, HeapType
  <2> HIDE DEF r, e
  <2> QED
    BY <2>2, <2>3
<1>3. /\ e \in [Objects -> Nat]
      /\ \A x \in Objects : e[x] = IF x = p THEN 0 ELSE IF x = o THEN h.data[p] ELSE h.data[x]
  BY <1>1
<1> HIDE DEF e
<1>4. \A x \in Objects : e[x] <= Len(h.freed)
  BY <1>1, <1>3, HeapFields
<1>5. r \in Heaps
  <2>1. /\ h.freed \in Seq(Nat) /\ h.leaked \in SUBSET Nat
        /\ \A b \in h.leaked : b <= Len(h.freed)
    BY HeapFields
  <2>2. [data |-> e, freed |-> h.freed, leaked |-> h.leaked] \in Heaps
    BY <1>3, <1>4, <2>1, MakeHeap
  <2> QED
    BY <1>2, <2>2
<1>6. r.data = e /\ r.freed = h.freed /\ r.leaked = h.leaked
  BY <1>2
<1> HIDE DEF r
<1>7. ASSUME NEW b \in Blocks(h) PROVE Settled(r, b)
  <2>1. Settled(h, b) /\ b # 0
    BY HeapFields DEF AllSettled
  <2>2. \A x \in Objects :
            r.data[x] = b <=> (x = o /\ h.data[p] = b) \/ (x \notin {o, p} /\ h.data[x] = b)
    BY <1>3, <1>6, <2>1
  <2>3. Owned(r, b) <=> Owned(h, b)
    <3>1. ASSUME NEW x \in Objects, h.data[x] = b PROVE Owned(r, b)
      <4>1. x # o
        BY <2>1, <3>1
      <4> QED
        BY <2>2, <3>1, <4>1 DEF Owned
    <3>2. Owned(r, b) => Owned(h, b)
      BY <2>2 DEF Owned
    <3> QED
      BY <3>1, <3>2 DEF Owned
  <2>4. \A x, y \in Objects : r.data[x] = b /\ r.data[y] = b => x = y
    BY <2>1, <2>2 DEF Settled
  <2> QED
    BY <1>6, <2>1, <2>3, <2>4 DEF Settled
<1>8. AllSettled(r)
  BY <1>6, <1>7 DEF AllSettled, Blocks
<1> QED
  BY <1>5, <1>6, <1>8 DEF r, e

LEMMA MakeSettled ==
    ASSUME NEW h \in Heaps, NEW o \in Objects, NEW size,
           h.data[o] = 0, AllSettled(h)
    PROVE  /\ Make(h, o, size) \in Heaps /\ AllSettled(Make(h, o, size))
           /\ size # 0 => /\ Make(h, o, size).leaked = h.leaked
                          /\ Make(h, o, size).data
                                = [h.data EXCEPT ![o] = Len(h.freed) + 1]
           /\ size = 0 => Make(h, o, size).data = h.data
<1> DEFINE r == Make(h, o, size)
           n == Len(h.freed) + 1
           f == Append(h.freed, 0)
           d == IF size = 0 THEN h.data ELSE [h.data EXCEPT ![o] = n]
           l == IF size = 0 THEN h.leaked \cup {n} ELSE h.leaked
<1>1. r = [data |-> d, freed |-> f, leaked |-> l]
  <2>1. h \in HeapType
    BY DEF Heaps
  <2> QED
    BY <2>1 DEF Make, HeapType
<1>2. /\ h.data \in [Objects -> Nat] /\ h.leaked \in SUBSET Nat /\ n \in Nat \ {0}
      /\ \A x \in Objects : h.data[x] < n
      /\ \A b \in h.leaked : b < n
      /\ \A b \in Blocks(h) : b < n /\ b \in Nat \ {0}
  BY HeapFields DEF Blocks
<1>3. /\ f \in Seq(Nat) /\ Len(f) = n /\ f[n] = 0
      /\ \A b \in Blocks(h) : f[b] = h.freed[b] /\ h.freed[b] \in Nat
  BY HeapFields, AppendProperties DEF Blocks
<1> HIDE DEF n, f
<1>4. /\ d \in [Objects -> Nat] /\ l \in SUBSET Nat
      /\ \A x \in Objects : d[x] = IF size # 0 /\ x = o THEN n ELSE h.data[x]
      /\ \A b : b \in l <=> b \in h.leaked \/ (size = 0 /\ b = n)
  BY <1>2
<1> HIDE DEF d, l
<1>5. (\A x \in Objects : d[x] <= Len(f)) /\ \A b \in l : b <= Len(f)
  BY <1>2, <1>3, <1>4
<1>6. r \in Heaps
  BY <1>1, <1>3, <1>4, <1>5, MakeHeap
<1>7. r.data = d /\ r.freed = f /\ r.leaked = l
  BY <1>1
<1> HIDE DEF r
<1>8. ASSUME NEW b \in Blocks(h) PROVE Settled(r, b)
  <2>1. Settled(h, b) /\ b # n
    BY <1>2 DEF AllSettled
  <2>2. \A x \in Objects : r.data[x] = b <=> h.data[x] = b
    BY <1>2, <1>4, <1>7, <2>1
  <2>3. Owned(r, b) <=> Owned(h, b)
    BY <2>2 DEF Owned
  <2>4. r.freed[b] = h.freed[b] /\ (b \in r.leaked <=> b \in h.leaked)
    BY <1>3, <1>4, <1>7, <2>1
  <2> QED
    BY <2>1, <2>2, <2>3, <2>4 DEF Settled
<1>9. Settled(r, n)
  <2>1. (\A x \in Objects : h.data[x] # n) /\ n \notin h.leaked
    BY <1>2
  <2>2. CASE size = 0
    <3>1. ~Owned(r, n) /\ n \in r.leaked /\ r.freed[n] = 0
      BY <1>3, <1>4, <1>7, <2>1, <2>2 DEF Owned
    <3> QED
      BY <3>1 DEF Settled, Owned
  <2>3. CASE size # 0
    <3>1. \A x \in Objects : r.data[x] = n <=> x = o
      BY <1>4, <1>7, <2>1, <2>3
    <3>2. Owned(r, n) /\ n \notin r.leaked /\ r.freed[n] = 0
      BY <1>3, <1>4, <1>7, <2>1, <2>3, <3>1 DEF Owned
    <3> QED
      BY <3>1, <3>2 DEF Settled
  <2> QED
    BY <2>2, <2>3
<1>10. \A b \in Blocks(r) : b = n \/ b \in Blocks(h)
  BY <1>3, <1>7, HeapFields DEF Blocks, n
<1>11. AllSettled(r)
  BY <1>8, <1>9, <1>10 DEF AllSettled
<1> QED
  BY <1>6, <1>7, <1>11 DEF r, d, l, n

(* Make into an object that owns nothing, the destructor's Reset and       *)
(* operator=, also of an object to itself, keep the heap sound: no block   *)
(* gets a second owner, is freed twice, is owned after it was freed, or is *)
(* lost other than by Make of size zero.                                   *)
THEOREM OwnershipKept ==
    ASSUME NEW h \in Heaps, HeapSound(h), NEW o \in Objects, NEW p \in Objects, NEW size
    PROVE  /\ HeapSound(Reset(h, o))
           /\ HeapSound(MoveAssign(h, o, p))
           /\ h.data[o] = 0 => HeapSound(Make(h, o, size))
<1>1. AllSettled(h)
  BY SoundIsSettled
<1>2. /\ Reset(h, o) \in Heaps /\ Reset(h, o).data = [h.data EXCEPT ![o] = 0]
      /\ AllSettled(Reset(h, o))
  BY <1>1, ResetSettled
<1>3. HeapSound(Reset(h, o)) /\ Reset(h, o).data[o] = 0
  BY <1>2, SoundIsSettled, HeapFields
<1>4. HeapSound(MoveAssign(h, o, p))
  <2>1. CASE o = p
    BY <2>1 DEF MoveAssign
  <2>2. CASE o # p
    <3>1. PICK r : r = Reset(h, o)
      OBVIOUS
    <3>2. MoveFrom(r, o, p) \in Heaps /\ AllSettled(MoveFrom(r, o, p))
      BY <1>2, <1>3, <2>2, <3>1, MoveSettled
    <3>3. HeapSound(MoveFrom(r, o, p))
      BY <3>2, SoundIsSettled
    <3> QED
      BY <2>2, <3>1, <3>3 DEF MoveAssign
  <2> QED
    BY <2>1, <2>2
<1>5. h.data[o] = 0 => HeapSound(Make(h, o, size))
  BY <1>1, MakeSettled, SoundIsSettled
<1> QED
  BY <1>3, <1>4, <1>5

-----------------------------------------------------------------------------
(* Types, and the bounds of the memory.                                    *)

TypeInv ==
    /\ scratch \in Seq(Bytes)
    /\ write_pos \in Nat /\ start \in 0 .. write_pos
    /\ pc \in {"idle", "reading", "lines", "threw", "undefined"}
    /\ pc # "undefined" => write_pos <= Len(scratch)
    /\ pc \in {"idle", "reading"} => start = 0
    /\ emitted \in Seq(Seq(Bytes)) /\ returned \in 0 .. Len(emitted)
    /\ received \in Seq(Bytes) /\ Len(received) <= MaxBytes
    /\ forgotten \in Nat /\ aligned \in BOOLEAN

(* Every message has bytes of its own, so that there is a RawBuffer for    *)
(* each.                                                                   *)
CountInv ==
    /\ BytesCounted
    /\ Working => Len(emitted) <= Len(Joined(emitted))
    /\ Len(emitted) <= MaxBytes

(* The RawBuffers of messages that do not exist own nothing, and neither   *)
(* does the local one between two steps.                                   *)
HeapInv ==
    /\ heap \in Heaps /\ AllSettled(heap)
    /\ heap.data[Local] = 0
    /\ \A m \in 1 .. MaxBytes : m > Len(emitted) => heap.data[m] = 0
    /\ heap.leaked # {} => pc = "threw"

LEMMA MemoryIsSeq ==
    ASSUME NEW n \in Nat, NEW s \in Memory(n)
    PROVE  s \in Seq(Bytes) /\ Len(s) = n
<1>1. s \in [1 .. n -> Bytes]
  BY DEF Memory
<1> QED
  BY <1>1

(* Parts of the memory.                                                    *)
LEMMA PartOf ==
    ASSUME NEW s \in Seq(Bytes), NEW a \in Nat, NEW b \in Nat, a <= b, b <= Len(s)
    PROVE  /\ SubSeq(s, a + 1, b) \in Seq(Bytes)
           /\ Len(SubSeq(s, a + 1, b)) = b - a
           /\ \A i \in 1 .. b - a : SubSeq(s, a + 1, b)[i] = s[a + i]
<1>1. \A i \in a + 1 .. b : s[i] \in Bytes
  BY LenProperties, ElementOfSeq
<1>2. a + 1 \in Int /\ b \in Int
  OBVIOUS
<1>3. /\ SubSeq(s, a + 1, b) \in Seq(Bytes)
      /\ Len(SubSeq(s, a + 1, b)) = IF a + 1 <= b THEN b - (a + 1) + 1 ELSE 0
      /\ \A i \in 1 .. b - (a + 1) + 1 : SubSeq(s, a + 1, b)[i] = s[(a + 1) + i - 1]
  BY <1>1, <1>2, SubSeqProperties
<1> QED
  BY <1>3

LEMMA FilledFacts ==
    ASSUME TypeInv, NEW bytes \in Seq(Bytes), Len(bytes) <= Len(scratch)
    PROVE  /\ Filled(bytes) \in Seq(Bytes) /\ Len(Filled(bytes)) = Len(scratch)
           /\ SubSeq(Filled(bytes), 1, Len(bytes)) = bytes
<1>1. PICK n, rest : n = Len(bytes) /\ rest = SubSeq(scratch, n + 1, Len(scratch))
  OBVIOUS
<1>2. n \in Nat /\ Len(scratch) \in Nat /\ scratch \in Seq(Bytes)
  BY <1>1, LenProperties DEF TypeInv
<1>3. rest \in Seq(Bytes) /\ Len(rest) = Len(scratch) - n
  BY <1>1, <1>2, PartOf
<1>4. Filled(bytes) = bytes \o rest
  BY <1>1 DEF Filled
<1>5. /\ bytes \o rest \in Seq(Bytes) /\ Len(bytes \o rest) = Len(scratch)
      /\ \A i \in 1 .. n : (bytes \o rest)[i] = bytes[i]
  BY <1>1, <1>2, <1>3, ConcatProperties
<1>6. PICK f : f = bytes \o rest
  OBVIOUS
<1>7. SubSeq(f, 1, n) = bytes
  <2>1. /\ SubSeq(f, 0 + 1, n) \in Seq(Bytes) /\ Len(SubSeq(f, 0 + 1, n)) = n - 0
        /\ \A i \in 1 .. n - 0 : SubSeq(f, 0 + 1, n)[i] = f[0 + i]
    BY <1>1, <1>2, <1>5, <1>6, PartOf
  <2>2. PICK g : g = SubSeq(f, 1, n)
    OBVIOUS
  <2>3. g \in Seq(Bytes) /\ Len(g) = Len(bytes) /\ \A i \in 1 .. Len(g) : g[i] = bytes[i]
    BY <1>1, <1>2, <1>5, <1>6, <2>1, <2>2
  <2> QED
    BY <2>2, <2>3, SeqEqual
<1> QED
  BY <1>1, <1>4, <1>5, <1>6, <1>7

LEMMA KeptFacts ==
    ASSUME NEW s \in Seq(Bytes), NEW n \in Nat, NEW used \in 0 .. n, n <= Len(s)
    PROVE  /\ Kept(s, n, used)[1] \in Seq(Bytes)
           /\ Len(Kept(s, n, used)[1]) = Len(s)
           /\ Kept(s, n, used)[2] = n - used
           /\ SubSeq(Kept(s, n, used)[1], 1, n - used) = SubSeq(s, used + 1, n)
<1>1. PICK a, b : a = SubSeq(s, used + 1, n) /\ b = SubSeq(s, (n - used) + 1, Len(s))
  OBVIOUS
<1>2. used \in Nat /\ n - used \in Nat /\ Len(s) \in Nat /\ n - used <= Len(s) /\ used <= n
  BY LenProperties
<1>3. /\ a \in Seq(Bytes) /\ Len(a) = n - used
      /\ b \in Seq(Bytes) /\ Len(b) = Len(s) - (n - used)
  BY <1>1, <1>2, PartOf
<1>4. Kept(s, n, used)[1] = a \o b /\ Kept(s, n, used)[2] = n - used
  BY <1>1 DEF Kept
<1>5. PICK f : f = a \o b
  OBVIOUS
<1>6. f \in Seq(Bytes) /\ Len(f) = Len(s) /\ \A i \in 1 .. n - used : f[i] = a[i]
  BY <1>2, <1>3, <1>5, ConcatProperties
<1>7. SubSeq(f, 1, n - used) = a
  <2>1. PICK m : m = n - used
    OBVIOUS
  <2>2. /\ SubSeq(f, 0 + 1, m) \in Seq(Bytes) /\ Len(SubSeq(f, 0 + 1, m)) = m - 0
        /\ \A i \in 1 .. m - 0 : SubSeq(f, 0 + 1, m)[i] = f[0 + i]
    BY <1>2, <1>6, <2>1, PartOf
  <2>3. PICK g : g = SubSeq(f, 1, m)
    OBVIOUS
  <2>4. g \in Seq(Bytes) /\ Len(g) = Len(a) /\ \A i \in 1 .. Len(g) : g[i] = a[i]
    BY <1>2, <1>3, <1>6, <2>1, <2>2, <2>3
  <2> QED
    BY <1>3, <2>1, <2>3, <2>4, SeqEqual
<1> QED
  BY <1>1, <1>4, <1>5, <1>6, <1>7

LEMMA SubSeqShorter ==
    ASSUME NEW S, NEW s \in Seq(S), 1 <= Len(s)
    PROVE  /\ SubSeq(s, 1, Len(s) - 1) \in Seq(S)
           /\ Len(SubSeq(s, 1, Len(s) - 1)) = Len(s) - 1
<1>1. PICK n : n = Len(s) - 1
  OBVIOUS
<1>2. n \in Nat /\ 1 \in Int /\ \A k \in 1 .. n : s[k] \in S
  BY <1>1, LenProperties, ElementOfSeq
<1>3. /\ SubSeq(s, 1, n) \in Seq(S)
      /\ Len(SubSeq(s, 1, n)) = IF 1 <= n THEN n - 1 + 1 ELSE 0
  BY <1>2, SubSeqProperties
<1> QED
  BY <1>1, <1>2, <1>3

LEMMA TypeInit == Init => TypeInv
<1> SUFFICES ASSUME Init PROVE TypeInv
  OBVIOUS
<1>1. scratch \in Seq(Bytes) /\ Len(scratch) = Capacity /\ Capacity \in Nat
  BY FramerAssumption, MemoryIsSeq DEF Init
<1>2. <<>> \in Seq(Bytes) /\ <<>> \in Seq(Seq(Bytes)) /\ Len(<<>>) = 0
  BY EmptySeq
<1> QED
  BY <1>1, <1>2, FramerAssumption DEF Init, TypeInv

(* The bytes of a line.                                                    *)
LEMMA LineFacts ==
    ASSUME TypeInv, pc = "lines", NEW i \in start + 1 .. write_pos
    PROVE  /\ SubSeq(scratch, start + 1, i - 1) \in Seq(Bytes)
           /\ Len(SubSeq(scratch, start + 1, i - 1)) = i - 1 - start
           /\ \A k \in 1 .. i - 1 - start :
                  SubSeq(scratch, start + 1, i - 1)[k] = scratch[start + k]
<1>1. PICK b : b = i - 1
  OBVIOUS
<1>2. /\ start \in Nat /\ b \in Nat /\ start <= b /\ b <= Len(scratch)
      /\ scratch \in Seq(Bytes)
  BY <1>1, LenProperties DEF TypeInv
<1>3. /\ SubSeq(scratch, start + 1, b) \in Seq(Bytes)
      /\ Len(SubSeq(scratch, start + 1, b)) = b - start
      /\ \A k \in 1 .. b - start : SubSeq(scratch, start + 1, b)[k] = scratch[start + k]
  BY <1>2, PartOf
<1> QED
  BY <1>1, <1>3

LEMMA TypeNext == TypeInv /\ [Next]_vars => TypeInv'
<1> SUFFICES ASSUME TypeInv, [Next]_vars PROVE TypeInv'
  OBVIOUS
<1>1. Len(scratch) \in Nat /\ Len(received) \in Nat /\ Len(emitted) \in Nat
  BY LenProperties DEF TypeInv
<1>2. CASE PrepareRead
  BY <1>2 DEF PrepareRead, TypeInv
<1>3. CASE PrepareReadGrow
  <2>1. write_pos + Capacity \in Nat
    BY FramerAssumption DEF TypeInv
  <2>2. scratch' \in Seq(Bytes) /\ Len(scratch') = write_pos + Capacity
    BY <1>3, <2>1, MemoryIsSeq DEF PrepareReadGrow
  <2>3. forgotten + write_pos \in Nat /\ start = 0
    BY <1>3 DEF PrepareReadGrow, TypeInv
  <2> QED
    BY <1>3, <2>1, <2>2, <2>3 DEF PrepareReadGrow, TypeInv
<1>4. ASSUME NEW n \in Reads, NEW bytes \in Memory(n), OnData(bytes) PROVE TypeInv'
  <2>1. n \in Nat /\ n <= Len(scratch) /\ Len(received) + n <= MaxBytes
    BY FramerAssumption DEF Reads
  <2>2. bytes \in Seq(Bytes) /\ Len(bytes) = n
    BY <2>1, MemoryIsSeq
  <2>3. scratch' \in Seq(Bytes) /\ Len(scratch') = Len(scratch)
    BY <1>4, <2>1, <2>2, FilledFacts DEF OnData
  <2>4. received' \in Seq(Bytes) /\ Len(received') = Len(received) + n
    BY <1>4, <2>2, ConcatProperties DEF OnData, TypeInv
  <2>5. write_pos' = write_pos + n /\ start' = 0
    BY <1>4, <2>2 DEF OnData
  <2>6. pc' = IF write_pos' > Len(scratch) THEN "undefined" ELSE "lines"
    BY <1>4 DEF OnData
  <2>7. UNCHANGED <<emitted, returned, forgotten>> /\ aligned' \in BOOLEAN
    BY <1>4 DEF OnData, TypeInv
  <2> QED
    BY <1>1, <2>1, <2>3, <2>4, <2>5, <2>6, <2>7 DEF TypeInv
<1>5. ASSUME NEW i \in start + 1 .. write_pos, EmitLine(i) PROVE TypeInv'
  <2> DEFINE line == SubSeq(scratch, start + 1, i - 1)
  <2>1. pc = "lines"
    BY <1>5 DEF EmitLine, FindsEnd
  <2>2. line \in Seq(Bytes)
    BY <2>1, LineFacts
  <2>3. /\ emitted' = Append(emitted, line) /\ start' = i
        /\ UNCHANGED <<scratch, write_pos, pc, returned, received, forgotten, aligned>>
    BY <1>5 DEF EmitLine
  <2> HIDE DEF line
  <2>4. emitted' \in Seq(Seq(Bytes)) /\ Len(emitted') = Len(emitted) + 1
    BY <2>2, <2>3, AppendProperties DEF TypeInv
  <2>5. start' \in 0 .. write_pos
    BY <2>3 DEF TypeInv
  <2> QED
    BY <1>1, <2>1, <2>3, <2>4, <2>5 DEF TypeInv
<1>6. ASSUME NEW i \in start + 1 .. write_pos, EmptyLine(i) PROVE TypeInv'
  BY <1>6 DEF EmptyLine, FindsEnd, TypeInv
<1>7. CASE Unwind
  <2>1. /\ returned < Len(emitted) /\ emitted' = SubSeq(emitted, 1, Len(emitted) - 1)
        /\ UNCHANGED <<scratch, write_pos, start, pc, returned, received, forgotten, aligned>>
    BY <1>7 DEF Unwind
  <2>2. 1 <= Len(emitted)
    BY <1>1, <2>1 DEF TypeInv
  <2>3. emitted' \in Seq(Seq(Bytes)) /\ Len(emitted') = Len(emitted) - 1
    BY <2>1, <2>2, SubSeqShorter DEF TypeInv
  <2> QED
    BY <1>1, <2>1, <2>3 DEF TypeInv
<1>8. CASE OnDataReturns
  <2> DEFINE kept == Kept(scratch, write_pos, start)
  <2>1. /\ pc = "lines" /\ pc' = "idle" /\ start' = 0 /\ returned' = Len(emitted)
        /\ scratch' = kept[1] /\ write_pos' = kept[2]
        /\ UNCHANGED <<emitted, received, forgotten, aligned>>
    BY <1>8 DEF OnDataReturns
  <2>2. /\ kept[1] \in Seq(Bytes) /\ Len(kept[1]) = Len(scratch)
        /\ kept[2] = write_pos - start
    BY <2>1, KeptFacts DEF TypeInv
  <2> HIDE DEF kept
  <2> QED
    BY <1>1, <2>1, <2>2 DEF TypeInv
<1>9. ASSUME NEW m \in 1 .. returned, Destroy(m) PROVE TypeInv'
  BY <1>9 DEF Destroy, TypeInv
<1>10. CASE UNCHANGED vars
  BY <1>10 DEF vars, TypeInv
<1> QED
  BY <1>2, <1>3, <1>4, <1>5, <1>6, <1>7, <1>8, <1>9, <1>10 DEF Next

(* The bytes counted, the lines and the kept bytes have their types, the   *)
(* framer's position is inside what was read and that, unless a read left  *)
(* it, inside the buffer.                                                  *)
THEOREM TypeCorrect == Spec => []TypeInv
BY TypeInit, TypeNext, PTL DEF Spec

-----------------------------------------------------------------------------
(* The count of the bytes.                                                 *)

LEMMA CountInit == Init => CountInv
<1> SUFFICES ASSUME Init PROVE CountInv
  OBVIOUS
<1>1. Len(Joined(emitted)) = 0 /\ Len(emitted) = 0 /\ Len(received) = 0
  BY JoinedEmpty, EmptySeq DEF Init
<1> QED
  BY <1>1, FramerAssumption DEF Init, CountInv, BytesCounted

LEMMA CountNext == TypeInv /\ CountInv /\ [Next]_vars => CountInv'
<1> SUFFICES ASSUME TypeInv, CountInv, [Next]_vars PROVE CountInv'
  OBVIOUS
<1>1. /\ Len(scratch) \in Nat /\ Len(received) \in Nat /\ Len(emitted) \in Nat
      /\ Len(Joined(emitted)) \in Nat
  BY LenProperties, JoinedType DEF TypeInv
<1>2. CASE PrepareRead
  BY <1>2 DEF PrepareRead, CountInv, BytesCounted, Working
<1>3. CASE PrepareReadGrow
  BY <1>1, <1>3 DEF PrepareReadGrow, CountInv, BytesCounted, Working, TypeInv
<1>4. ASSUME NEW n \in Reads, NEW bytes \in Memory(n), OnData(bytes) PROVE CountInv'
  <2>1. n \in Nat
    BY FramerAssumption DEF Reads
  <2>2. bytes \in Seq(Bytes) /\ Len(bytes) = n
    BY <2>1, MemoryIsSeq
  <2>3. Len(received') = Len(received) + n
    BY <1>4, <2>2, ConcatProperties DEF OnData, TypeInv
  <2>4. /\ pc = "reading" /\ start = 0
        /\ write_pos' = write_pos + n /\ start' = 0 /\ UNCHANGED <<emitted, forgotten>>
    BY <1>4, <2>2 DEF OnData, TypeInv
  <2>5. /\ Len(Joined(emitted)) + write_pos + forgotten = Len(received)
        /\ Len(emitted) <= Len(Joined(emitted)) /\ Len(emitted) <= MaxBytes
    BY <2>4 DEF CountInv, BytesCounted, Working, TypeInv
  <2>6. write_pos \in Nat /\ forgotten \in Nat
    BY DEF TypeInv
  <2>7. Len(Joined(emitted)) + ((write_pos + n) - 0) + forgotten = Len(received')
    BY <1>1, <2>1, <2>3, <2>5, <2>6
  <2> QED
    BY <2>4, <2>5, <2>7 DEF CountInv, BytesCounted
<1>5. ASSUME NEW i \in start + 1 .. write_pos, EmitLine(i) PROVE CountInv'
  <2> DEFINE line == SubSeq(scratch, start + 1, i - 1)
  <2>1. pc = "lines"
    BY <1>5 DEF EmitLine, FindsEnd
  <2>2. line \in Seq(Bytes) /\ Len(line) = i - 1 - start
    BY <2>1, LineFacts
  <2>3. /\ emitted' = Append(emitted, line) /\ start' = i
        /\ UNCHANGED <<scratch, write_pos, pc, returned, received, forgotten, aligned>>
    BY <1>5 DEF EmitLine
  <2> HIDE DEF line
  <2>4. /\ Len(emitted') = Len(emitted) + 1
        /\ Len(Joined(emitted')) = Len(Joined(emitted)) + Len(line) + 1
    BY <2>2, <2>3, AppendProperties, JoinedAppend DEF TypeInv
  <2>5. /\ start \in Nat /\ write_pos \in Nat /\ i \in Nat /\ start < i /\ i <= write_pos
        /\ forgotten \in Nat /\ Len(received) <= MaxBytes /\ MaxBytes \in Nat
    BY FramerAssumption DEF TypeInv
  <2>6. /\ Len(Joined(emitted)) + (write_pos - start) + forgotten = Len(received)
        /\ Len(emitted) <= Len(Joined(emitted))
    BY <2>1 DEF CountInv, BytesCounted, Working
  <2>7. /\ Len(Joined(emitted')) + (write_pos - i) + forgotten = Len(received)
        /\ Len(emitted') <= Len(Joined(emitted')) /\ Len(emitted') <= MaxBytes
    BY <1>1, <2>2, <2>4, <2>5, <2>6
  <2> QED
    BY <2>3, <2>7 DEF CountInv, BytesCounted, Working
<1>6. ASSUME NEW i \in start + 1 .. write_pos, EmptyLine(i) PROVE CountInv'
  BY <1>6 DEF EmptyLine, CountInv, BytesCounted, Working
<1>7. CASE Unwind
  <2>1. 1 <= Len(emitted)
    BY <1>1, <1>7 DEF Unwind, TypeInv
  <2>2. pc' = "threw" /\ returned < Len(emitted) /\ emitted' = SubSeq(emitted, 1, Len(emitted) - 1)
    BY <1>7 DEF Unwind
  <2>3. Len(emitted') = Len(emitted) - 1
    BY <2>1, <2>2, SubSeqShorter DEF TypeInv
  <2> QED
    BY <1>1, <2>2, <2>3, FramerAssumption DEF CountInv, BytesCounted, Working
<1>8. CASE OnDataReturns
  <2>1. /\ pc = "lines" /\ start' = 0
        /\ write_pos' = Kept(scratch, write_pos, start)[2]
        /\ UNCHANGED <<emitted, received, forgotten>>
    BY <1>8 DEF OnDataReturns
  <2>2. write_pos' = write_pos - start
    BY <2>1, KeptFacts DEF TypeInv
  <2> QED
    BY <1>1, <2>1, <2>2 DEF CountInv, BytesCounted, Working, TypeInv
<1>9. ASSUME NEW m \in 1 .. returned, Destroy(m) PROVE CountInv'
  BY <1>9 DEF Destroy, CountInv, BytesCounted, Working
<1>10. CASE UNCHANGED vars
  BY <1>10 DEF vars, CountInv, BytesCounted, Working
<1> QED
  BY <1>2, <1>3, <1>4, <1>5, <1>6, <1>7, <1>8, <1>9, <1>10 DEF Next

(* However the reads come, the bytes in messages, with the line ends, the  *)
(* bytes left over and those dropped with a buffer are as many as were     *)
(* read, after every turn of OnData's loop.                                *)
THEOREM NoByteMiscounted == Spec => []BytesCounted
<1>1. CountInv => BytesCounted
  BY DEF CountInv
<1> QED
  BY <1>1, TypeCorrect, CountInit, CountNext, PTL DEF Spec

-----------------------------------------------------------------------------
(* The lines.                                                              *)

LEMMA NotInPart ==
    ASSUME NEW s \in Seq(Bytes), \A k \in 1 .. Len(s) : s[k] # NL
    PROVE  NL \notin ToSet(s)
<1>1. \A k \in DOMAIN s : s[k] # NL
  BY LenProperties
<1> QED
  BY <1>1 DEF ToSet

LEMMA PartIsEmpty ==
    ASSUME NEW s \in Seq(Bytes), NEW n \in Nat, n <= Len(s)
    PROVE  SubSeq(s, n + 1, n) = <<>>
<1>1. SubSeq(s, n + 1, n) \in Seq(Bytes) /\ Len(SubSeq(s, n + 1, n)) = n - n
  BY PartOf
<1> QED
  BY <1>1, EmptySeq

(* The bytes not looked at, cut at a line end: the line, its end, and what *)
(* is behind it.                                                           *)
LEMMA CutAt ==
    ASSUME NEW s \in Seq(Bytes), NEW a \in Nat, NEW i \in Nat, NEW n \in Nat,
           a < i, i <= n, n <= Len(s), s[i] = NL
    PROVE  SubSeq(s, a + 1, n) = (SubSeq(s, a + 1, i - 1) \o <<NL>>) \o SubSeq(s, i + 1, n)
<1>1. PICK b : b = i - 1
  OBVIOUS
<1>2. b \in Nat /\ a <= b /\ b <= Len(s) /\ a <= n /\ Len(s) \in Nat /\ i <= Len(s)
  BY <1>1, LenProperties
<1>3. PICK all, line, rest : /\ all = SubSeq(s, a + 1, n)
                             /\ line = SubSeq(s, a + 1, b)
                             /\ rest = SubSeq(s, i + 1, n)
  OBVIOUS
<1>4. /\ all \in Seq(Bytes) /\ Len(all) = n - a
      /\ \A k \in 1 .. n - a : all[k] = s[a + k]
  BY <1>2, <1>3, PartOf
<1>5. /\ line \in Seq(Bytes) /\ Len(line) = b - a
      /\ \A k \in 1 .. b - a : line[k] = s[a + k]
  BY <1>2, <1>3, PartOf
<1>6. /\ rest \in Seq(Bytes) /\ Len(rest) = n - i
      /\ \A k \in 1 .. n - i : rest[k] = s[i + k]
  BY <1>2, <1>3, PartOf
<1>7. PICK end : end = <<NL>>
  OBVIOUS
<1>8. end \in Seq(Bytes) /\ Len(end) = 1 /\ end[1] = NL
  BY <1>7, FramerAssumption
<1>9. PICK head : head = line \o end
  OBVIOUS
<1>10. /\ head \in Seq(Bytes) /\ Len(head) = i - a
       /\ \A k \in 1 .. i - a : head[k] = s[a + k]
  <2>1. /\ head \in Seq(Bytes) /\ Len(head) = Len(line) + Len(end)
        /\ \A k \in 1 .. Len(line) + Len(end) :
               head[k] = IF k <= Len(line) THEN line[k] ELSE end[k - Len(line)]
    BY <1>5, <1>8, <1>9, ConcatProperties
  <2>2. Len(line) + Len(end) = i - a /\ Len(line) = (i - a) - 1
    BY <1>1, <1>5, <1>8
  <2>3. ASSUME NEW k \in 1 .. i - a PROVE head[k] = s[a + k]
    <3>1. CASE k <= Len(line)
      <4>1. k \in 1 .. b - a
        BY <1>5, <3>1
      <4>2. head[k] = line[k]
        BY <2>1, <2>2, <3>1
      <4> QED
        BY <1>5, <4>1, <4>2
    <3>2. CASE ~(k <= Len(line))
      <4>1. k - Len(line) = 1 /\ a + k = i
        BY <1>2, <2>2, <3>2
      <4>2. head[k] = end[k - Len(line)]
        BY <2>1, <2>2, <3>2
      <4> QED
        BY <1>8, <4>1, <4>2
    <3> QED
      BY <3>1, <3>2
  <2> QED
    BY <2>1, <2>2, <2>3
<1>11. PICK both : both = head \o rest
  OBVIOUS
<1>12. /\ both \in Seq(Bytes) /\ Len(both) = n - a
       /\ \A k \in 1 .. n - a : both[k] = s[a + k]
  <2>1. /\ both \in Seq(Bytes) /\ Len(both) = Len(head) + Len(rest)
        /\ \A k \in 1 .. Len(head) + Len(rest) :
               both[k] = IF k <= Len(head) THEN head[k] ELSE rest[k - Len(head)]
    BY <1>6, <1>10, <1>11, ConcatProperties
  <2>2. Len(head) + Len(rest) = n - a
    BY <1>6, <1>10
  <2>3. ASSUME NEW k \in 1 .. n - a PROVE both[k] = s[a + k]
    <3>1. CASE k <= Len(head)
      <4>1. k \in 1 .. i - a
        BY <1>10, <3>1
      <4>2. both[k] = head[k]
        BY <2>1, <2>2, <3>1
      <4> QED
        BY <1>10, <4>1, <4>2
    <3>2. CASE ~(k <= Len(head))
      <4>1. PICK m : m = k - Len(head)
        OBVIOUS
      <4>2. m \in 1 .. n - i /\ i + m = a + k
        BY <1>10, <3>2, <4>1
      <4>3. both[k] = rest[m]
        BY <2>1, <2>2, <3>2, <4>1
      <4> QED
        BY <1>6, <4>2, <4>3
    <3> QED
      BY <3>1, <3>2
  <2> QED
    BY <2>1, <2>2, <2>3
<1>13. all = both
  <2>1. Len(all) = Len(both) /\ \A k \in 1 .. Len(all) : all[k] = both[k]
    BY <1>4, <1>12
  <2> QED
    BY <1>4, <1>12, <2>1, SeqEqual
<1> QED
  BY <1>1, <1>3, <1>7, <1>9, <1>11, <1>13

LEMMA LinesInit == Init => LinesExact
<1> SUFFICES ASSUME Init PROVE LinesExact
  OBVIOUS
<1>1. TypeInv /\ start = 0 /\ write_pos = 0 /\ emitted = <<>> /\ received = <<>>
  BY TypeInit DEF Init
<1>2. SubSeq(scratch, 0 + 1, 0) = <<>> /\ <<>> \in Seq(Bytes)
  <2>1. scratch \in Seq(Bytes) /\ 0 <= Len(scratch)
    BY LenProperties, <1>1 DEF TypeInv
  <2> QED
    BY <2>1, PartIsEmpty, EmptySeq
<1>3. SubSeq(scratch, 1, 0) = <<>>
  BY <1>2
<1>4. Joined(emitted) \o SubSeq(scratch, start + 1, write_pos) = received
  BY <1>1, <1>2, JoinedEmpty, ConcatEmptySeq
<1>5. NL \notin ToSet(<<>>)
  BY DEF ToSet
<1>6. DOMAIN emitted = {}
  BY <1>1
<1> QED
  BY <1>1, <1>3, <1>4, <1>5, <1>6 DEF LinesExact

LEMMA LinesNext == TypeInv /\ LinesExact /\ [Next]_vars => LinesExact'
<1> SUFFICES ASSUME TypeInv, LinesExact, [Next]_vars, aligned', Working'
             PROVE  /\ Joined(emitted') \o SubSeq(scratch', start' + 1, write_pos') = received'
                    /\ \A k \in DOMAIN emitted' : NL \notin ToSet(emitted'[k])
                    /\ pc' # "lines" => NL \notin ToSet(SubSeq(scratch', 1, write_pos'))
  BY DEF LinesExact
<1> DEFINE Goal == /\ Joined(emitted') \o SubSeq(scratch', start' + 1, write_pos') = received'
                   /\ \A k \in DOMAIN emitted' : NL \notin ToSet(emitted'[k])
                   /\ pc' # "lines" => NL \notin ToSet(SubSeq(scratch', 1, write_pos'))
<1>1. /\ scratch \in Seq(Bytes) /\ emitted \in Seq(Seq(Bytes)) /\ received \in Seq(Bytes)
      /\ write_pos \in Nat /\ start \in Nat /\ start <= write_pos
      /\ Len(scratch) \in Nat /\ Joined(emitted) \in Seq(Bytes)
  <2>1. /\ scratch \in Seq(Bytes) /\ emitted \in Seq(Seq(Bytes)) /\ received \in Seq(Bytes)
        /\ write_pos \in Nat /\ start \in Nat /\ start <= write_pos
    BY DEF TypeInv
  <2>2. Joined(emitted) \in Seq(Bytes)
    BY <2>1, JoinedType
  <2> QED
    BY <2>1, <2>2, LenProperties
<1>2. CASE PrepareRead
  BY <1>2 DEF PrepareRead, LinesExact, Working
<1>3. CASE PrepareReadGrow
  <2>1. /\ aligned /\ Working /\ write_pos = 0 /\ start = 0 /\ pc = "idle"
        /\ UNCHANGED <<start, emitted, received>> /\ write_pos' = 0
    BY <1>3 DEF PrepareReadGrow, TypeInv, Working
  <2>2. scratch' \in Seq(Bytes) /\ Len(scratch') \in Nat
    BY TypeNext, LenProperties DEF TypeInv
  <2>3. SubSeq(scratch', 0 + 1, 0) = <<>> /\ SubSeq(scratch, 0 + 1, 0) = <<>>
    BY <1>1, <2>2, PartIsEmpty
  <2>4. SubSeq(scratch', 1, 0) = SubSeq(scratch, 1, 0)
    BY <2>3
  <2>5. SubSeq(scratch', start' + 1, write_pos') = SubSeq(scratch, start + 1, write_pos)
    BY <2>1, <2>3
  <2> QED
    BY <2>1, <2>4, <2>5 DEF LinesExact
<1>4. ASSUME NEW n \in Reads, NEW bytes \in Memory(n), OnData(bytes) PROVE Goal
  <2>1. n \in Nat /\ n <= Len(scratch)
    BY FramerAssumption DEF Reads
  <2>2. bytes \in Seq(Bytes) /\ Len(bytes) = n
    BY <2>1, MemoryIsSeq
  <2>3. /\ aligned /\ write_pos = 0 /\ pc = "reading" /\ start = 0
        /\ emitted' = emitted /\ received' = received \o bytes /\ start' = 0
        /\ scratch' = Filled(bytes) /\ write_pos' = write_pos + Len(bytes)
    BY <1>4 DEF OnData, TypeInv
  <2>4. pc' = "lines"
    BY <1>4 DEF OnData, Working
  <2>5. SubSeq(scratch', start' + 1, write_pos') = bytes
    <3>1. SubSeq(Filled(bytes), 1, Len(bytes)) = bytes
      BY <2>1, <2>2, FilledFacts
    <3>2. start' + 1 = 1 /\ write_pos' = Len(bytes)
      BY <2>1, <2>2, <2>3
    <3> QED
      BY <2>3, <3>1, <3>2
  <2>6. received = Joined(emitted)
    <3>1. SubSeq(scratch, 0 + 1, 0) = <<>>
      BY <1>1, PartIsEmpty
    <3>2. Joined(emitted) \o SubSeq(scratch, start + 1, write_pos) = received
      BY <2>3 DEF LinesExact, Working
    <3>3. Joined(emitted) \o <<>> = received
      BY <2>3, <3>1, <3>2
    <3> QED
      BY <1>1, <3>3, ConcatEmptySeq
  <2>7. \A k \in DOMAIN emitted : NL \notin ToSet(emitted[k])
    BY <2>3 DEF LinesExact, Working
  <2> QED
    BY <2>3, <2>4, <2>5, <2>6, <2>7
<1>5. ASSUME NEW i \in start + 1 .. write_pos, EmitLine(i) PROVE Goal
  <2>1. PICK line : line = SubSeq(scratch, start + 1, i - 1)
    OBVIOUS
  <2>2. /\ pc = "lines" /\ scratch[i] = NL
        /\ \A j \in start + 1 .. i - 1 : scratch[j] # NL
    BY <1>5 DEF EmitLine, FindsEnd
  <2>3. /\ emitted' = Append(emitted, line) /\ start' = i
        /\ UNCHANGED <<scratch, write_pos, pc, received, aligned>>
    BY <1>5, <2>1 DEF EmitLine
  <2>4. /\ line \in Seq(Bytes) /\ Len(line) = i - 1 - start
        /\ \A k \in 1 .. i - 1 - start : line[k] = scratch[start + k]
    BY <2>1, <2>2, LineFacts
  <2>5. /\ Joined(emitted) \o SubSeq(scratch, start + 1, write_pos) = received
        /\ \A k \in DOMAIN emitted : NL \notin ToSet(emitted[k])
    BY <2>2, <2>3 DEF LinesExact, Working
  <2>6. i \in Nat /\ start < i /\ i <= write_pos /\ write_pos <= Len(scratch)
    BY <1>1, <2>2 DEF TypeInv
  <2>7. PICK all, rest : /\ all = SubSeq(scratch, start + 1, write_pos)
                         /\ rest = SubSeq(scratch, i + 1, write_pos)
    OBVIOUS
  <2>8. rest \in Seq(Bytes)
    BY <1>1, <2>6, <2>7, PartOf
  <2>9. PICK end, old : end = <<NL>> /\ old = Joined(emitted)
    OBVIOUS
  <2>10. end \in Seq(Bytes) /\ old \in Seq(Bytes)
    BY <1>1, <2>9, FramerAssumption
  <2>11. all = (line \o end) \o rest
    <3>1. SubSeq(scratch, start + 1, write_pos)
            = (SubSeq(scratch, start + 1, i - 1) \o <<NL>>) \o SubSeq(scratch, i + 1, write_pos)
      BY <1>1, <2>2, <2>6, CutAt
    <3> QED
      BY <2>1, <2>7, <2>9, <3>1
  <2>12. Joined(emitted') = (old \o line) \o end
    BY <1>1, <2>3, <2>4, <2>9, JoinedAppend
  <2>13. (old \o line) \o end = old \o (line \o end)
    BY <2>4, <2>10, ConcatAssociative
  <2>14. line \o end \in Seq(Bytes)
    BY <2>4, <2>10, ConcatProperties
  <2>15. (old \o (line \o end)) \o rest = old \o ((line \o end) \o rest)
    <3>1. PICK head : head = line \o end
      OBVIOUS
    <3>2. head \in Seq(Bytes)
      BY <2>14, <3>1
    <3>3. (old \o head) \o rest = old \o (head \o rest)
      BY <2>8, <2>10, <3>2, ConcatAssociative
    <3> QED
      BY <3>1, <3>3
  <2>16. Joined(emitted') \o rest = received
    BY <2>5, <2>7, <2>9, <2>11, <2>12, <2>13, <2>15
  <2>17. NL \notin ToSet(line)
    <3>1. \A k \in 1 .. Len(line) : line[k] # NL
      <4> SUFFICES ASSUME NEW k \in 1 .. Len(line) PROVE line[k] # NL
        OBVIOUS
      <4>1. k \in 1 .. i - 1 - start
        BY <2>4
      <4>2. start + k \in start + 1 .. i - 1
        BY <1>1, <2>6, <4>1
      <4> QED
        BY <2>2, <2>4, <4>1, <4>2
    <3> QED
      BY <2>4, <3>1, NotInPart
  <2>18. ASSUME NEW k \in DOMAIN emitted' PROVE NL \notin ToSet(emitted'[k])
    <3>1. /\ Len(emitted) \in Nat /\ DOMAIN emitted = 1 .. Len(emitted)
          /\ emitted' \in Seq(Seq(Bytes)) /\ Len(emitted') = Len(emitted) + 1
          /\ \A j \in 1 .. Len(emitted) : emitted'[j] = emitted[j]
          /\ emitted'[Len(emitted) + 1] = line
      BY <1>1, <2>3, <2>4, AppendProperties, LenProperties
    <3>2. k \in 1 .. Len(emitted) + 1
      BY <3>1, LenProperties
    <3>3. k \in DOMAIN emitted \/ k = Len(emitted) + 1
      BY <3>1, <3>2
    <3> QED
      BY <2>5, <2>17, <3>1, <3>3
  <2> QED
    BY <2>2, <2>3, <2>7, <2>16, <2>18
<1>6. ASSUME NEW i \in start + 1 .. write_pos, EmptyLine(i) PROVE Goal
  BY <1>6 DEF EmptyLine, Working
<1>7. CASE Unwind
  BY <1>7 DEF Unwind, Working
<1>8. CASE OnDataReturns
  <2>1. PICK kept : kept = Kept(scratch, write_pos, start)
    OBVIOUS
  <2>2. /\ pc = "lines" /\ \A j \in start + 1 .. write_pos : scratch[j] # NL
        /\ scratch' = kept[1] /\ write_pos' = kept[2] /\ start' = 0
        /\ UNCHANGED <<emitted, received, aligned>>
    BY <1>8, <2>1 DEF OnDataReturns
  <2>3. start \in 0 .. write_pos /\ write_pos <= Len(scratch)
    BY <2>2 DEF TypeInv
  <2>4. /\ kept[2] = write_pos - start
        /\ SubSeq(kept[1], 1, write_pos - start) = SubSeq(scratch, start + 1, write_pos)
    BY <1>1, <2>1, <2>3, KeptFacts
  <2>5. PICK rest : rest = SubSeq(scratch, start + 1, write_pos)
    OBVIOUS
  <2>6. SubSeq(scratch', 1, write_pos') = rest /\ start' + 1 = 1
    <3>1. scratch' = kept[1] /\ write_pos' = write_pos - start
      BY <2>2, <2>4
    <3>2. SubSeq(scratch', 1, write_pos') = SubSeq(kept[1], 1, write_pos - start)
      BY <3>1
    <3>3. SubSeq(scratch', 1, write_pos') = rest
      BY <2>4, <2>5, <3>2
    <3>4. start' + 1 = 1
      BY <2>2
    <3> QED
      BY <3>3, <3>4
  <2>7. /\ Joined(emitted) \o rest = received
        /\ \A k \in DOMAIN emitted : NL \notin ToSet(emitted[k])
    BY <2>2, <2>5 DEF LinesExact, Working
  <2>8. NL \notin ToSet(rest)
    <3>1. /\ rest \in Seq(Bytes) /\ Len(rest) = write_pos - start
          /\ \A k \in 1 .. write_pos - start : rest[k] = scratch[start + k]
      BY <1>1, <2>3, <2>5, PartOf
    <3>2. ASSUME NEW k \in 1 .. Len(rest) PROVE rest[k] # NL
      <4>1. k \in 1 .. write_pos - start
        BY <3>1
      <4>2. start + k \in start + 1 .. write_pos
        BY <1>1, <4>1
      <4> QED
        BY <2>2, <3>1, <4>1, <4>2
    <3> QED
      BY <3>1, <3>2, NotInPart
  <2> QED
    BY <2>2, <2>6, <2>7, <2>8
<1>9. ASSUME NEW m \in 1 .. returned, Destroy(m) PROVE Goal
  BY <1>9 DEF Destroy, LinesExact, Working
<1>10. CASE UNCHANGED vars
  BY <1>10 DEF vars, LinesExact, Working
<1> QED
  BY <1>2, <1>3, <1>4, <1>5, <1>6, <1>7, <1>8, <1>9, <1>10 DEF Next

(* While no read begins with bytes left over, the messages, each with its  *)
(* line end, followed by the bytes not looked at are the stream, no        *)
(* message holds a line end, and what is kept between reads holds none:    *)
(* OnData cuts the stream at its line ends and nowhere else.               *)
THEOREM StreamCutAtLineEnds == Spec => []LinesExact
BY TypeCorrect, LinesInit, LinesNext, PTL DEF Spec

-----------------------------------------------------------------------------
(* The buffers.                                                            *)

LEMMA ObjectNames ==
    /\ Scratch \in Objects /\ Local \in Objects /\ Scratch # Local
    /\ \A m \in 1 .. MaxBytes : m \in Objects /\ m # Scratch /\ m # Local
BY FramerAssumption DEF Objects, Scratch, Local

LEMMA NewHeapSettled ==
    /\ NewHeap(Objects) \in Heaps /\ AllSettled(NewHeap(Objects))
    /\ NewHeap(Objects).data = [o \in Objects |-> 0] /\ NewHeap(Objects).leaked = {}
<1>1. PICK h : h = NewHeap(Objects)
  OBVIOUS
<1>2. /\ h = [data |-> [o \in Objects |-> 0], freed |-> <<>>, leaked |-> {}]
      /\ h.data = [o \in Objects |-> 0] /\ h.freed = <<>> /\ h.leaked = {}
  BY <1>1 DEF NewHeap
<1>3. <<>> \in Seq(Nat) /\ Len(<<>>) = 0
  BY EmptySeq
<1>4. h \in HeapType
  BY <1>2, <1>3 DEF HeapType
<1>5. h \in Heaps
  BY <1>2, <1>3, <1>4 DEF Heaps
<1>6. Blocks(h) = {}
  BY <1>2, <1>3 DEF Blocks
<1>7. AllSettled(h)
  BY <1>6 DEF AllSettled
<1> QED
  BY <1>1, <1>2, <1>5, <1>7

(* A new scratch_: no other buffer changes hands, and nothing leaks.       *)
LEMMA ReplacedSettled ==
    ASSUME NEW h \in Heaps, AllSettled(h), h.data[Local] = 0, NEW n, n # 0
    PROVE  /\ Replaced(h, n) \in Heaps /\ AllSettled(Replaced(h, n))
           /\ Replaced(h, n).data[Local] = 0
           /\ \A m \in 1 .. MaxBytes : Replaced(h, n).data[m] = h.data[m]
           /\ Replaced(h, n).leaked = h.leaked
<1>1. PICK a : a = Make(h, Local, n)
  OBVIOUS
<1>2. /\ a \in Heaps /\ AllSettled(a) /\ a.leaked = h.leaked
      /\ a.data = [h.data EXCEPT ![Local] = Len(h.freed) + 1]
  BY <1>1, ObjectNames, MakeSettled
<1>3. PICK b : b = Reset(a, Scratch)
  OBVIOUS
<1>4. /\ b \in Heaps /\ AllSettled(b) /\ b.leaked = a.leaked
      /\ b.data = [a.data EXCEPT ![Scratch] = 0]
  BY <1>2, <1>3, ObjectNames, ResetSettled
<1>5. b.data[Scratch] = 0
  BY <1>2, <1>4, ObjectNames, HeapFields
<1>6. PICK c : c = MoveFrom(b, Scratch, Local)
  OBVIOUS
<1>7. /\ c \in Heaps /\ AllSettled(c) /\ c.leaked = b.leaked
      /\ c.data = [b.data EXCEPT ![Scratch] = b.data[Local], ![Local] = 0]
  <2>1. PICK o, p : o = Scratch /\ p = Local
    OBVIOUS
  <2>2. /\ o \in Objects /\ p \in Objects /\ o # p /\ b.data[o] = 0
        /\ b \in Heaps /\ AllSettled(b)
    BY <1>4, <1>5, <2>1, ObjectNames
  <2>3. /\ MoveFrom(b, o, p) \in Heaps /\ AllSettled(MoveFrom(b, o, p))
        /\ MoveFrom(b, o, p).data = [b.data EXCEPT ![o] = b.data[p], ![p] = 0]
        /\ MoveFrom(b, o, p).leaked = b.leaked
    BY <2>2, MoveSettled
  <2> QED
    BY <1>6, <2>1, <2>3
<1>8. PICK d : d = Reset(c, Local)
  OBVIOUS
<1>9. /\ d \in Heaps /\ AllSettled(d) /\ d.leaked = c.leaked
      /\ d.data = [c.data EXCEPT ![Local] = 0]
  BY <1>7, <1>8, ObjectNames, ResetSettled
<1>10. Replaced(h, n) = d
  <2>1. MoveAssign(a, Scratch, Local) = c
    BY <1>3, <1>6, ObjectNames DEF MoveAssign
  <2> QED
    BY <1>1, <1>8, <2>1 DEF Replaced
<1>11. /\ h.data \in [Objects -> Nat] /\ a.data \in [Objects -> Nat]
       /\ b.data \in [Objects -> Nat] /\ c.data \in [Objects -> Nat]
  BY <1>2, <1>4, <1>7, HeapFields
<1>12. d.data[Local] = 0
  BY <1>9, <1>11, ObjectNames
<1>13. ASSUME NEW m \in 1 .. MaxBytes PROVE d.data[m] = h.data[m]
  <2>1. m \in Objects /\ m # Scratch /\ m # Local
    BY ObjectNames
  <2>2. a.data[m] = h.data[m]
    BY <1>2, <1>11, <2>1
  <2>3. b.data[m] = a.data[m]
    BY <1>4, <1>11, <2>1
  <2>4. c.data[m] = b.data[m]
    BY <1>7, <1>11, <2>1
  <2>5. d.data[m] = c.data[m]
    BY <1>9, <1>11, <2>1
  <2> QED
    BY <2>2, <2>3, <2>4, <2>5
<1> QED
  BY <1>2, <1>4, <1>7, <1>9, <1>10, <1>12, <1>13

LEMMA HeapInit == Init => HeapInv
<1> SUFFICES ASSUME Init PROVE HeapInv
  OBVIOUS
<1>1. PICK new : new = NewHeap(Objects)
  OBVIOUS
<1>2. /\ new \in Heaps /\ AllSettled(new) /\ new.leaked = {}
      /\ new.data = [o \in Objects |-> 0]
  BY <1>1, NewHeapSettled
<1>3. new.data[Local] = 0 /\ \A m \in 1 .. MaxBytes : new.data[m] = 0
  BY <1>2, ObjectNames
<1>4. heap = Replaced(new, Capacity) /\ Capacity # 0
  BY <1>1, FramerAssumption DEF Init
<1>5. /\ heap \in Heaps /\ AllSettled(heap) /\ heap.data[Local] = 0
      /\ \A m \in 1 .. MaxBytes : heap.data[m] = new.data[m]
      /\ heap.leaked = new.leaked
  BY <1>2, <1>3, <1>4, ReplacedSettled
<1> QED
  BY <1>2, <1>3, <1>5 DEF HeapInv

LEMMA HeapNext == TypeInv /\ CountInv /\ HeapInv /\ [Next]_vars => HeapInv'
<1> SUFFICES ASSUME TypeInv, CountInv, HeapInv, [Next]_vars PROVE HeapInv'
  OBVIOUS
<1>1. /\ heap \in Heaps /\ AllSettled(heap) /\ heap.data[Local] = 0
      /\ \A m \in 1 .. MaxBytes : m > Len(emitted) => heap.data[m] = 0
      /\ heap.leaked # {} => pc = "threw"
      /\ heap.data \in [Objects -> Nat]
  BY HeapFields DEF HeapInv
<1>2. /\ Len(emitted) \in Nat /\ Len(emitted) <= MaxBytes /\ MaxBytes \in Nat
      /\ returned \in Nat /\ returned <= Len(emitted)
  BY LenProperties, FramerAssumption DEF TypeInv, CountInv
<1>3. CASE PrepareRead
  BY <1>1, <1>3 DEF PrepareRead, HeapInv
<1>4. CASE PrepareReadGrow
  <2>1. PICK n, h : n = write_pos + Capacity /\ h = Reset(heap, Scratch)
    OBVIOUS
  <2>2. n # 0
    BY <2>1, FramerAssumption DEF TypeInv
  <2>3. /\ h \in Heaps /\ AllSettled(h) /\ h.leaked = heap.leaked
        /\ h.data = [heap.data EXCEPT ![Scratch] = 0]
    BY <1>1, <2>1, ObjectNames, ResetSettled
  <2>4. h.data[Local] = 0 /\ \A m \in 1 .. MaxBytes : h.data[m] = heap.data[m]
    BY <1>1, <2>3, ObjectNames
  <2>5. heap' = Replaced(h, n) /\ pc = "idle" /\ emitted' = emitted
    BY <1>4, <2>1 DEF PrepareReadGrow
  <2>6. PICK r : r = Replaced(h, n)
    OBVIOUS
  <2>7. /\ r \in Heaps /\ AllSettled(r) /\ r.data[Local] = 0
        /\ \A m \in 1 .. MaxBytes : r.data[m] = h.data[m]
        /\ r.leaked = h.leaked
    <3>1. h \in Heaps /\ AllSettled(h) /\ h.data[Local] = 0
      BY <2>3, <2>4
    <3>2. /\ Replaced(h, n) \in Heaps /\ AllSettled(Replaced(h, n))
          /\ Replaced(h, n).data[Local] = 0
          /\ \A m \in 1 .. MaxBytes : Replaced(h, n).data[m] = h.data[m]
          /\ Replaced(h, n).leaked = h.leaked
      BY <2>2, <3>1, ReplacedSettled
    <3> QED
      BY <2>6, <3>2
  <2>8. heap' = r
    BY <2>5, <2>6
  <2> QED
    BY <1>1, <2>3, <2>4, <2>5, <2>7, <2>8 DEF HeapInv
<1>5. ASSUME NEW n \in Reads, NEW bytes \in Memory(n), OnData(bytes) PROVE HeapInv'
  <2>1. heap' = heap /\ emitted' = emitted /\ pc = "reading"
    BY <1>5 DEF OnData
  <2> QED
    BY <1>1, <2>1 DEF HeapInv
<1>6. ASSUME NEW i \in start + 1 .. write_pos, EmitLine(i) PROVE HeapInv'
  <2>1. PICK line, m : line = SubSeq(scratch, start + 1, i - 1) /\ m = Len(emitted) + 1
    OBVIOUS
  <2>2. /\ pc = "lines" /\ line # <<>>
        /\ heap' = Reset(MoveFrom(Make(heap, Local, Len(line)), m, Local), Local)
        /\ emitted' = Append(emitted, line) /\ pc' = pc
    BY <1>6, <2>1 DEF EmitLine, FindsEnd
  <2>3. line \in Seq(Bytes)
    BY <2>1, <2>2, LineFacts
  <2>4. Len(line) # 0
    BY <2>2, <2>3, EmptySeq
  <2>5. Len(emitted') = m
    BY <2>1, <2>2, <2>3, AppendProperties DEF TypeInv
  <2>6. Len(emitted') <= MaxBytes
    BY CountNext DEF CountInv
  <2>7. m \in 1 .. MaxBytes /\ m > Len(emitted)
    BY <1>2, <2>1, <2>5, <2>6
  <2>8. m \in Objects /\ m # Local /\ Local \in Objects /\ heap.data[m] = 0
    BY <1>1, <2>7, ObjectNames
  <2>9. PICK a : a = Make(heap, Local, Len(line))
    OBVIOUS
  <2>10. /\ a \in Heaps /\ AllSettled(a) /\ a.leaked = heap.leaked
         /\ a.data = [heap.data EXCEPT ![Local] = Len(heap.freed) + 1]
    BY <1>1, <2>4, <2>8, <2>9, MakeSettled
  <2>11. a.data[m] = 0 /\ a.data \in [Objects -> Nat]
    BY <1>1, <2>8, <2>10, HeapFields
  <2>12. PICK b : b = MoveFrom(a, m, Local)
    OBVIOUS
  <2>13. /\ b \in Heaps /\ AllSettled(b) /\ b.leaked = a.leaked
         /\ b.data = [a.data EXCEPT ![m] = a.data[Local], ![Local] = 0]
    BY <2>8, <2>10, <2>11, <2>12, MoveSettled
  <2>14. PICK c : c = Reset(b, Local)
    OBVIOUS
  <2>15. /\ c \in Heaps /\ AllSettled(c) /\ c.leaked = b.leaked
         /\ c.data = [b.data EXCEPT ![Local] = 0]
    BY <2>8, <2>13, <2>14, ResetSettled
  <2>16. b.data \in [Objects -> Nat]
    BY <2>13, HeapFields
  <2>17. c.data[Local] = 0
    BY <2>8, <2>15, <2>16
  <2>18. ASSUME NEW k \in 1 .. MaxBytes, k > Len(emitted') PROVE c.data[k] = 0
    <3>1. k \in Objects /\ k # Local /\ k # m /\ k > Len(emitted)
      BY <1>2, <2>1, <2>5, <2>18, ObjectNames
    <3>2. heap.data[k] = 0
      BY <1>1, <3>1
    <3>3. a.data[k] = 0
      BY <1>1, <2>10, <3>1, <3>2
    <3>4. b.data[k] = 0
      BY <2>11, <2>13, <3>1, <3>3
    <3> QED
      BY <2>15, <2>16, <3>1, <3>4
  <2>19. heap' = c
    BY <2>2, <2>9, <2>12, <2>14
  <2>20. c.leaked = {}
    BY <1>1, <2>2, <2>10, <2>13, <2>15
  <2> QED
    BY <2>15, <2>17, <2>18, <2>19, <2>20 DEF HeapInv
<1>7. ASSUME NEW i \in start + 1 .. write_pos, EmptyLine(i) PROVE HeapInv'
  <2>1. heap' = Make(heap, Local, 0) /\ pc' = "threw" /\ emitted' = emitted
    BY <1>7 DEF EmptyLine
  <2>2. PICK h : h = Make(heap, Local, 0)
    OBVIOUS
  <2>3. h \in Heaps /\ AllSettled(h) /\ h.data = heap.data
    <3>1. PICK size : size = 0
      OBVIOUS
    <3>2. /\ Make(heap, Local, size) \in Heaps /\ AllSettled(Make(heap, Local, size))
          /\ size = 0 => Make(heap, Local, size).data = heap.data
      BY <1>1, ObjectNames, MakeSettled
    <3> QED
      BY <2>2, <3>1, <3>2
  <2>4. heap' = h
    BY <2>1, <2>2
  <2> QED
    BY <1>1, <2>1, <2>3, <2>4 DEF HeapInv
<1>8. CASE Unwind
  <2>1. PICK n, h : n = Len(emitted) /\ h = Reset(heap, n)
    OBVIOUS
  <2>2. /\ pc' = "threw" /\ returned < n /\ heap' = h
        /\ emitted' = SubSeq(emitted, 1, n - 1)
    BY <1>8, <2>1 DEF Unwind
  <2>3. n \in 1 .. MaxBytes
    BY <1>2, <2>1, <2>2
  <2>4. Len(emitted') = n - 1
    <3>1. 1 <= Len(emitted) /\ emitted \in Seq(Seq(Bytes))
      BY <2>1, <2>3 DEF TypeInv
    <3> QED
      BY <2>1, <2>2, <3>1, SubSeqShorter
  <2>5. n \in Objects /\ n # Local /\ Local \in Objects
    BY <2>3, ObjectNames
  <2>6. h \in Heaps /\ AllSettled(h) /\ h.data = [heap.data EXCEPT ![n] = 0]
    BY <1>1, <2>1, <2>5, ResetSettled
  <2>7. h.data[Local] = 0
    BY <1>1, <2>5, <2>6
  <2>8. ASSUME NEW k \in 1 .. MaxBytes, k > Len(emitted') PROVE h.data[k] = 0
    <3>1. k \in Objects
      BY ObjectNames
    <3>2. k = n \/ k > Len(emitted)
      BY <2>1, <2>3, <2>4, <2>8
    <3>3. k = n \/ heap.data[k] = 0
      BY <1>1, <3>2
    <3> QED
      BY <1>1, <2>6, <3>1, <3>3
  <2> QED
    BY <2>2, <2>6, <2>7, <2>8 DEF HeapInv
<1>9. CASE OnDataReturns
  <2>1. heap' = heap /\ emitted' = emitted /\ pc = "lines"
    BY <1>9 DEF OnDataReturns
  <2> QED
    BY <1>1, <2>1 DEF HeapInv
<1>10. ASSUME NEW m \in 1 .. returned, Destroy(m) PROVE HeapInv'
  <2>1. heap' = Reset(heap, m) /\ emitted' = emitted /\ pc' = pc
    BY <1>10 DEF Destroy
  <2>2. m \in 1 .. MaxBytes
    BY <1>2
  <2>3. m \in Objects /\ Local \in Objects
    BY <2>2, ObjectNames
  <2>4. PICK h : h = Reset(heap, m)
    OBVIOUS
  <2>5. /\ h \in Heaps /\ AllSettled(h) /\ h.data = [heap.data EXCEPT ![m] = 0]
        /\ h.leaked = heap.leaked
    BY <1>1, <2>3, <2>4, ResetSettled
  <2>6. h.data[Local] = 0 /\ \A k \in 1 .. MaxBytes : heap.data[k] = 0 => h.data[k] = 0
    BY <1>1, <2>3, <2>5, ObjectNames
  <2>7. heap' = h
    BY <2>1, <2>4
  <2> QED
    BY <1>1, <2>1, <2>5, <2>6, <2>7 DEF HeapInv
<1>11. CASE UNCHANGED vars
  BY <1>11 DEF vars, HeapInv
<1> QED
  BY <1>3, <1>4, <1>5, <1>6, <1>7, <1>8, <1>9, <1>10, <1>11 DEF Next

(* Through every read, replaced buffer, line, empty line, unwinding and    *)
(* destruction of a message, each block of memory the framer allocated has *)
(* one owner or was freed once, and one leaks only where the empty line    *)
(* threw.                                                                  *)
THEOREM BuffersStaySound == Spec => []BuffersSound
<1>1. HeapInv => BuffersSound
  BY SoundIsSettled DEF HeapInv, BuffersSound
<1> QED
  BY <1>1, TypeCorrect, CountInit, CountNext, HeapInit, HeapNext, PTL DEF Spec
=============================================================================
