------------------------ MODULE TaskAccounting_proofs ------------------------
(***************************************************************************)
(* Theorems about the tasks of TaskMultiProcessor: where they are, what    *)
(* becomes of their futures, and in which order they run in FIFO mode; for *)
(* any number of workers, submitters and tasks.                            *)
(***************************************************************************)
EXTENDS TaskMultiProcessor_proofs

-----------------------------------------------------------------------------
(* The inductive invariant.  A task is in the queues, in a worker's hands  *)
(* or in the log, at one position of one of them.                          *)

At(w, i, t) == w \in Workers /\ i \in 1 .. Len(queues[w]) /\ queues[w][i] = t

Holds(w, t) == w \in Workers /\ ti[w] = t /\ wpc[w] \in {"uncount", "callbacks"}

Logged(i, t) == i \in 1 .. Len(ran) /\ ran[i] = t

InQueue(t) == \E w \in Workers : \E i \in 1 .. Len(queues[w]) : At(w, i, t)
IsHeld(t)  == \E w \in Workers : Holds(w, t)
IsDone(t)  == \E i \in 1 .. Len(ran) : Logged(i, t)

Once(t) ==
    /\ \A v, w \in Workers : \A i \in 1 .. Len(queues[v]), j \in 1 .. Len(queues[w]) :
           At(v, i, t) /\ At(w, j, t) => v = w /\ i = j
    /\ \A v, w \in Workers : Holds(v, t) /\ Holds(w, t) => v = w
    /\ \A i, j \in 1 .. Len(ran) : Logged(i, t) /\ Logged(j, t) => i = j

Apart(t) ==
    /\ ~(InQueue(t) /\ IsHeld(t))
    /\ ~(InQueue(t) /\ IsDone(t))
    /\ ~(IsHeld(t) /\ IsDone(t))

(* Two calls never submit the same task, and a task they are about to      *)
(* queue was not queued before.                                            *)
Calling(s) == spc[s] \in {"load", "index", "push"}

CallInv ==
    \A s \in Submitters : Calling(s) =>
        /\ fate[item[s]] = "calling"
        /\ \A r \in Submitters : Calling(r) /\ item[r] = item[s] => r = s

(* A task that was queued is in one place, any other task is in none.      *)
Where(t) ==
    /\ Once(t) /\ Apart(t)
    /\ fate[t] = "queued" <=> InQueue(t) \/ IsHeld(t) \/ IsDone(t)

PlaceInv == CallInv /\ \A t \in Tasks : Where(t)

(* A worker fulfils the promise of a task it has shown to the callbacks,   *)
(* and no other worker does.                                               *)
WrapInv ==
    \A w \in Workers : wpc[w] = "wrappers" =>
        /\ IsDone(ti[w])
        /\ \A v \in Workers : wpc[v] = "wrappers" /\ ti[v] = ti[w] => v = w

(* The tasks whose promise may still be fulfilled by a thread of the pool. *)
Open(t) ==
    \/ fate[t] = "calling"
    \/ fate[t] = "queued" /\ ~IsDone(t)
    \/ \E w \in Workers : wpc[w] = "wrappers" /\ ti[w] = t

FutureInv ==
    /\ \A t \in Tasks : fate[t] = "new" => fut[t] = "none"
    /\ dpc = "dead" => \A w \in Workers : wpc[w] = "exited"
    /\ dpc # "dead" => \A t \in Tasks : Open(t) =>
           fut[t] = IF kind[t] = "result" THEN "pending" ELSE "none"

-----------------------------------------------------------------------------
(* Which steps move a task.                                                *)

InHand == {"uncount", "callbacks"}

(* A step that leaves every task where it is, and opens no call.           *)
Still ==
    /\ UNCHANGED <<queues, ran, fate>>
    /\ \A w \in Workers : /\ wpc'[w] \in InHand <=> wpc[w] \in InHand
                          /\ wpc[w] \in InHand => ti'[w] = ti[w]
    /\ \A s \in Submitters : Calling(s)' => Calling(s) /\ item'[s] = item[s]

(* It also leaves the promises alone.                                      *)
Plain ==
    /\ Still
    /\ UNCHANGED <<ti, kind, fut>>
    /\ dpc' = "dead" <=> dpc = "dead"
    /\ \A w \in Workers : /\ wpc'[w] = "wrappers" <=> wpc[w] = "wrappers"
                          /\ wpc[w] = "exited" => wpc'[w] = "exited"

LEMMA NextSplit ==
    ASSUME TypeOK, [Next]_vars
    PROVE  \/ Plain \/ DtorJoin
           \/ \E s \in Submitters, t \in Tasks, k \in Kinds,
                 cancelled, expired \in BOOLEAN : Call(s, t, k, cancelled, expired)
           \/ \E s \in Submitters : SubmitDrop(s) \/ SubmitPush(s)
           \/ \E w \in Workers :
                 \/ PopOwn(w) \/ GlobalCallbacks(w)
                 \/ \E vic \in Workers : StealBack(w, vic)
                 \/ \E outcome \in {"none", "cancelled", "value", "exception"} :
                       Wrappers(w, outcome)
<1> USE DEF config, pool, stats, flags, caller, worker, owner, app, TypeOK, Plain, Still, Calling, InHand
<1>1. CASE UNCHANGED vars
  BY <1>1 DEF vars
<1>2. CASE \/ \E t \in Tasks : Cancel(t)
           \/ \E c \in Configs : UpdateConfig(c)
           \/ GetDroppedCount
  BY <1>2 DEF Cancel, UpdateConfig, GetDroppedCount
<1>3. CASE DtorStop \/ DtorDrained \/ DtorTimeout
  BY <1>3 DEF DtorStop, DtorDrained, DtorTimeout
<1>4. CASE DtorWake
  BY <1>4 DEF DtorWake, Woken
<1>5. ASSUME NEW s \in Submitters,
             SubmitLoad(s) \/ SubmitIndex(s) \/ SubmitUndefined(s) \/ SubmitCount(s)
      PROVE  Plain
  BY <1>5 DEF SubmitLoad, SubmitIndex, SubmitUndefined, SubmitCount
<1>6. ASSUME NEW s \in Submitters, SubmitSignal(s) PROVE Plain
  BY <1>6 DEF SubmitSignal, Woken, Return
<1>7. ASSUME NEW w \in Workers, LoopTest(w) \/ WaitTest(w) \/ Wait(w) \/ SpuriousWakeup(w)
      PROVE  Plain
  BY <1>7 DEF LoopTest, WaitTest, Wait, SpuriousWakeup
<1>8. ASSUME NEW w \in Workers,
             PopEmpty(w) \/ StealSizes(w) \/ StealUndefined(w) \/ Uncount(w)
      PROVE  Plain
  <2>1. CASE PopEmpty(w)
    BY <2>1 DEF PopEmpty
  <2>2. CASE StealSizes(w)
    BY <2>2 DEF StealSizes
  <2>3. CASE StealUndefined(w)
    BY <2>3 DEF StealUndefined
  <2>4. CASE Uncount(w)
    BY <2>4 DEF Uncount
  <2> QED
    BY ONLY <1>8, <2>1, <2>2, <2>3, <2>4
<1>9. ASSUME NEW w \in Workers, HandleDrops(w) \/ Leave(w) PROVE Plain
  BY <1>9 DEF HandleDrops, Leave
<1>10. ASSUME NEW w \in Workers, NEW vic \in Workers, StealNothing(w, vic) PROVE Plain
  BY <1>10 DEF StealNothing
<1> HIDE DEF Plain, TypeOK, pool, stats, flags, caller, worker, owner, app
<1> QED
  BY <1>1, <1>2, <1>3, <1>4, <1>5, <1>6, <1>7, <1>8, <1>9, <1>10
  DEF Next, AppStep, SubmitStep, WorkerStep, DtorStep, Terminated

-----------------------------------------------------------------------------
(* Every task is in one place.                                             *)

LEMMA StillPlaces ==
    ASSUME PlaceInv, Still PROVE PlaceInv'
<1>1. CallInv'
  BY DEF PlaceInv, CallInv, Still
<1>2. ASSUME NEW t \in Tasks
      PROVE  Where(t)'
  <2>1. \A w \in Workers : Holds(w, t)' <=> Holds(w, t)
    BY DEF Still, Holds, InHand
  <2>2. /\ \A w, i : At(w, i, t)' <=> At(w, i, t)
        /\ \A i : Logged(i, t)' <=> Logged(i, t)
        /\ UNCHANGED <<queues, ran, fate>>
    BY DEF Still, At, Logged
  <2>3. (InQueue(t)' <=> InQueue(t)) /\ (IsHeld(t)' <=> IsHeld(t)) /\ (IsDone(t)' <=> IsDone(t))
    BY <2>1, <2>2 DEF InQueue, IsHeld, IsDone
  <2>4. Once(t)'
    BY <2>1, <2>2 DEF PlaceInv, Where, Once
  <2> QED
    BY <2>2, <2>3, <2>4 DEF PlaceInv, Where, Apart
<1> QED
  BY <1>1, <1>2 DEF PlaceInv

LEMMA PushPlaces ==
    ASSUME TypeOK, PlaceInv, NEW s \in Submitters, SubmitPush(s)
    PROVE  PlaceInv'
<1> USE DEF config, pool, stats, flags, caller, worker, owner, app
<1> DEFINE u == item[s]
           w == idx[s]
           n == Len(queues[w])
<1>1. /\ u \in Tasks /\ w \in Workers /\ queues[w] \in Seq(Tasks) /\ n \in Nat
      /\ \A v \in Workers : Len(queues[v]) \in Nat
  BY DEF TypeOK, SubmitPush
<1>2. /\ queues' = [queues EXCEPT ![w] = Append(queues[w], u)]
      /\ fate' = [fate EXCEPT ![u] = "queued"]
      /\ spc' = [spc EXCEPT ![s] = "count"] /\ spc[s] = "push"
      /\ UNCHANGED <<item, ti, wpc, ran>>
  BY DEF SubmitPush, PushBack
<1>3. fate[u] = "calling" /\ \A r \in Submitters : Calling(r) /\ item[r] = u => r = s
  BY <1>2 DEF PlaceInv, CallInv, Calling
<1>4. ~InQueue(u) /\ ~IsHeld(u) /\ ~IsDone(u)
  BY <1>1, <1>3 DEF PlaceInv, Where
<1>5. CallInv'
  <2>1. \A r \in Submitters : Calling(r)' => Calling(r) /\ r # s
    BY <1>2 DEF Calling, TypeOK
  <2>2. \A r \in Submitters : Calling(r)' => item[r] # u
    BY <1>3, <2>1
  <2>3. \A r \in Submitters : Calling(r)' => item[r] \in Tasks
    BY <2>1 DEF Calling, TypeOK
  <2>4. \A r \in Submitters : Calling(r)' => fate'[item[r]] = "calling"
    BY <1>2, <2>1, <2>2, <2>3 DEF PlaceInv, CallInv, TypeOK
  <2> QED
    BY <1>2, <2>1, <2>4 DEF PlaceInv, CallInv
<1>6. /\ Len(queues'[w]) = n + 1 /\ queues'[w][n + 1] = u
      /\ \A i \in 1 .. n : queues'[w][i] = queues[w][i]
      /\ \A v \in Workers : v # w => queues'[v] = queues[v]
  BY <1>1, <1>2, AppendProperties DEF TypeOK
<1> HIDE DEF u, w, n
<1>7. ASSUME NEW t \in Tasks PROVE Where(t)'
  <2>1. \A v \in Workers : \A i \in 1 .. Len(queues'[v]) :
           At(v, i, t)' <=> At(v, i, t) \/ (t = u /\ v = w /\ i = n + 1)
    <3> SUFFICES ASSUME NEW v \in Workers, NEW i \in 1 .. Len(queues'[v])
                 PROVE  At(v, i, t)' <=> At(v, i, t) \/ (t = u /\ v = w /\ i = n + 1)
      OBVIOUS
    <3>1. CASE v # w
      BY <1>6, <3>1 DEF At
    <3>2. CASE v = w /\ i = n + 1
      <4>1. ~(i \in 1 .. n)
        BY <1>1, <3>2
      <4>2. Len(queues[v]) = n
        BY <3>2 DEF n
      <4> QED
        BY <1>6, <3>2, <4>1, <4>2 DEF At
    <3>3. CASE v = w /\ i # n + 1
      <4>1. i \in 1 .. n
        BY <1>1, <1>6, <3>3
      <4>2. Len(queues[v]) = n
        BY <3>3 DEF n
      <4> QED
        BY <1>6, <3>3, <4>1, <4>2 DEF At
    <3> QED
      BY <3>1, <3>2, <3>3
  <2>2. /\ \A v : Holds(v, t)' <=> Holds(v, t)
        /\ \A i : Logged(i, t)' <=> Logged(i, t)
        /\ ran' = ran
    BY <1>2 DEF Holds, Logged
  <2>3. (IsHeld(t)' <=> IsHeld(t)) /\ (IsDone(t)' <=> IsDone(t))
    BY <2>2 DEF IsHeld, IsDone
  <2>4. \A v \in Workers : \A i : At(v, i, t) => i \in 1 .. Len(queues'[v])
    <3>1. \A v \in Workers : \A i \in 1 .. Len(queues[v]) : i \in 1 .. Len(queues'[v])
      BY <1>1, <1>6 DEF n
    <3> QED
      BY <3>1 DEF At
  <2>5. CASE t = u
    <3>1. \A v \in Workers : \A i : ~At(v, i, t)
      BY <1>4, <2>5 DEF InQueue, At
    <3>2. InQueue(t)'
      <4>1. n + 1 \in 1 .. Len(queues'[w])
        BY <1>1, <1>6
      <4> QED
        BY <1>1, <2>1, <2>5, <4>1 DEF InQueue
    <3>3. Once(t)'
      BY <2>1, <2>2, <2>5, <3>1, <1>1 DEF Once, PlaceInv, Where
    <3>4. fate'[t] = "queued"
      BY <1>2, <2>5, <1>1 DEF TypeOK
    <3> QED
      BY <1>4, <2>3, <2>5, <3>2, <3>3, <3>4 DEF Where, Apart
  <2>6. CASE t # u
    <3>1. \A v \in Workers : \A i \in 1 .. Len(queues'[v]) : At(v, i, t)' <=> At(v, i, t)
      BY <2>1, <2>6
    <3>2. InQueue(t)' <=> InQueue(t)
      BY <2>4, <3>1 DEF InQueue, At
    <3>3. \A v \in Workers : \A i \in 1 .. Len(queues'[v]) : At(v, i, t)' => i \in 1 .. Len(queues[v])
      BY <3>1 DEF At
    <3>4. Once(t)'
      BY <2>2, <3>1, <3>3 DEF Once, PlaceInv, Where
    <3>5. fate'[t] = fate[t]
      BY <1>2, <2>6 DEF TypeOK
    <3> QED
      BY <2>3, <3>2, <3>4, <3>5 DEF Where, Apart, PlaceInv
  <2> QED
    BY <2>5, <2>6
<1> QED
  BY <1>5, <1>7 DEF PlaceInv

(* A worker takes the task at position k of a queue, and what is behind it *)
(* moves up: from the front of its own queue, or the back of a victim's.   *)
LEMMA TakePlaces ==
    ASSUME TypeOK, PlaceInv,
           NEW w \in Workers, NEW v \in Workers, NEW k \in 1 .. Len(queues[v]),
           NEW q \in Seq(Tasks), Len(q) = Len(queues[v]) - 1,
           \A i \in 1 .. Len(q) : q[i] = queues[v][IF i < k THEN i ELSE i + 1],
           wpc[w] \notin InHand,
           wpc' = [wpc EXCEPT ![w] = "uncount"],
           ti' = [ti EXCEPT ![w] = queues[v][k]],
           queues' = [queues EXCEPT ![v] = q],
           UNCHANGED <<ran, fate, spc, item>>
    PROVE  PlaceInv'
<1> DEFINE u == queues[v][k]
           n == Len(queues[v])
           Old(x, i) == IF x = v /\ i >= k THEN i + 1 ELSE i
<1>1. /\ n \in Nat \ {0} /\ k \in 1 .. n /\ Len(q) = n - 1
      /\ queues'[v] = q /\ \A x \in Workers : x # v => queues'[x] = queues[x]
      /\ \A x \in Workers : Len(queues[x]) \in Nat
  BY DEF TypeOK
<1>2. CallInv'
  BY DEF PlaceInv, CallInv, Calling
<1>3. ASSUME NEW x \in Workers, NEW i \in 1 .. Len(queues'[x])
      PROVE  /\ Old(x, i) \in 1 .. Len(queues[x])
             /\ queues'[x][i] = queues[x][Old(x, i)]
             /\ ~(x = v /\ Old(x, i) = k)
  <2>1. CASE x = v
    BY <1>1, <2>1
  <2>2. CASE x # v
    BY <1>1, <2>2
  <2> QED
    BY <2>1, <2>2
<1>4. ASSUME NEW x \in Workers, NEW j \in 1 .. Len(queues[x]), ~(x = v /\ j = k)
      PROVE  \E i \in 1 .. Len(queues'[x]) : Old(x, i) = j
  <2>1. CASE x = v /\ j > k
    <3>1. j - 1 \in 1 .. Len(queues'[x]) /\ Old(x, j - 1) = j
      BY <1>1, <2>1
    <3> QED
      BY <3>1
  <2>2. CASE x = v /\ j < k
    <3>1. j \in 1 .. Len(queues'[x]) /\ Old(x, j) = j
      BY <1>1, <2>2
    <3> QED
      BY <3>1
  <2>3. CASE x # v
    <3>1. j \in 1 .. Len(queues'[x]) /\ Old(x, j) = j
      BY <1>1, <2>3
    <3> QED
      BY <3>1
  <2> QED
    BY <1>1, <1>4, <2>1, <2>2, <2>3
<1>5. ASSUME NEW x \in Workers, NEW i \in 1 .. Len(queues'[x]),
             NEW j \in 1 .. Len(queues'[x]), Old(x, i) = Old(x, j)
      PROVE  i = j
  BY <1>1, <1>5
<1>6. u \in Tasks /\ At(v, k, u)
  BY ElementOfSeq, <1>1 DEF TypeOK, At
<1> HIDE DEF Old, u
<1>7. ASSUME NEW t \in Tasks PROVE Where(t)'
  <2>1. \A x \in Workers : \A i \in 1 .. Len(queues'[x]) : At(x, i, t)' <=> At(x, Old(x, i), t)
    BY <1>3 DEF At
  <2>2. /\ \A i : Logged(i, t)' <=> Logged(i, t)
        /\ IsDone(t)' <=> IsDone(t)
        /\ ran' = ran /\ fate' = fate
    BY DEF Logged, IsDone
  <2>3. \A x \in Workers : Holds(x, t)' <=> Holds(x, t) \/ (x = w /\ t = u)
    BY DEF Holds, InHand, TypeOK, u
  <2>4. Where(t)
    BY DEF PlaceInv
  <2>5. CASE t = u
    <3>1. InQueue(t) /\ ~IsHeld(t) /\ ~IsDone(t)
      BY <1>6, <2>4, <2>5 DEF Where, Apart, InQueue
    <3>2. \A x \in Workers : \A i \in 1 .. Len(queues[x]) : At(x, i, t) => x = v /\ i = k
      BY <1>6, <2>4, <2>5 DEF Where, Once
    <3>3. \A x \in Workers : \A i \in 1 .. Len(queues'[x]) : ~At(x, i, t)'
      BY <1>3, <2>1, <3>2
    <3>4. ~InQueue(t)'
      BY <3>3 DEF InQueue
    <3>5. \A x \in Workers : Holds(x, t)' <=> x = w
      BY <2>3, <2>5, <3>1 DEF IsHeld
    <3>6. IsHeld(t)'
      BY <3>5 DEF IsHeld
    <3>7. Once(t)'
      BY <2>2, <2>4, <3>3, <3>5 DEF Once, Where
    <3> QED
      BY <2>2, <2>4, <3>1, <3>4, <3>6, <3>7 DEF Where, Apart
  <2>6. CASE t # u
    <3>1. \A x \in Workers : Holds(x, t)' <=> Holds(x, t)
      BY <2>3, <2>6
    <3>2. IsHeld(t)' <=> IsHeld(t)
      BY <3>1 DEF IsHeld
    <3>3. InQueue(t)' => InQueue(t)
      BY <1>3, <2>1 DEF InQueue
    <3>4. InQueue(t) => InQueue(t)'
      <4> SUFFICES ASSUME NEW x \in Workers, NEW j \in 1 .. Len(queues[x]), At(x, j, t)
                   PROVE  InQueue(t)'
        BY DEF InQueue
      <4>1. ~(x = v /\ j = k)
        BY <2>6 DEF At, u
      <4>2. PICK i \in 1 .. Len(queues'[x]) : Old(x, i) = j
        BY <1>4, <4>1
      <4>3. At(x, i, t)'
        BY <2>1, <4>2
      <4> QED
        BY <4>3 DEF InQueue
    <3>5. Once(t)'
      <4>1. ASSUME NEW x \in Workers, NEW y \in Workers,
                   NEW i \in 1 .. Len(queues'[x]), NEW j \in 1 .. Len(queues'[y]),
                   At(x, i, t)', At(y, j, t)'
            PROVE  x = y /\ i = j
        <5>1. At(x, Old(x, i), t) /\ At(y, Old(y, j), t)
          BY <2>1, <4>1
        <5>2. x = y /\ Old(x, i) = Old(y, j)
          BY <1>3, <2>4, <5>1 DEF Where, Once
        <5> QED
          BY <1>5, <5>2
      <4> QED
        BY <2>2, <2>4, <3>1, <4>1 DEF Once, Where
    <3> QED
      BY <2>2, <2>4, <3>2, <3>3, <3>4, <3>5 DEF Where, Apart
  <2> QED
    BY <2>5, <2>6
<1> QED
  BY <1>2, <1>7 DEF PlaceInv

(* The callbacks see the task a worker holds.                              *)
LEMMA LogPlaces ==
    ASSUME TypeOK, PlaceInv, NEW w \in Workers, GlobalCallbacks(w)
    PROVE  PlaceInv'
<1> USE DEF config, pool, stats, flags, caller, worker, owner, app
<1> DEFINE u == ti[w]
           n == Len(ran)
<1>1. /\ u \in Tasks /\ Holds(w, u) /\ n \in Nat
      /\ ran' = Append(ran, u) /\ wpc' = [wpc EXCEPT ![w] = "wrappers"]
      /\ UNCHANGED <<queues, fate, spc, item, ti>>
  BY DEF GlobalCallbacks, TypeOK, Holds
<1>2. CallInv'
  BY <1>1 DEF PlaceInv, CallInv, Calling
<1>3. Len(ran') = n + 1 /\ ran'[n + 1] = u /\ \A i \in 1 .. n : ran'[i] = ran[i]
  BY <1>1, AppendProperties DEF TypeOK
<1> HIDE DEF u
<1>4. ASSUME NEW t \in Tasks PROVE Where(t)'
  <2>1. /\ \A x, i : At(x, i, t)' <=> At(x, i, t)
        /\ InQueue(t)' <=> InQueue(t)
        /\ queues' = queues /\ fate' = fate
    BY <1>1 DEF At, InQueue
  <2>2. \A i \in 1 .. (n + 1) : Logged(i, t)' <=> Logged(i, t) \/ (i = n + 1 /\ t = u)
    BY <1>1, <1>3 DEF Logged
  <2>3. \A x \in Workers : Holds(x, t)' <=> Holds(x, t) /\ x # w
    BY <1>1 DEF Holds, TypeOK
  <2>4. Where(t)
    BY DEF PlaceInv
  <2>5. CASE t = u
    <3>1. IsHeld(t) /\ ~InQueue(t) /\ ~IsDone(t) /\ \A x \in Workers : Holds(x, t) => x = w
      BY <1>1, <2>4, <2>5 DEF Where, Apart, Once, IsHeld
    <3>2. \A x \in Workers : ~Holds(x, t)'
      BY <2>3, <3>1
    <3>3. \A i \in 1 .. (n + 1) : Logged(i, t)' <=> i = n + 1
      BY <2>2, <2>5, <3>1 DEF IsDone, Logged
    <3>4. n + 1 \in 1 .. (n + 1)
      BY <1>1
    <3>5. IsDone(t)' /\ ~IsHeld(t)'
      BY <1>3, <3>2, <3>3, <3>4 DEF IsDone, IsHeld
    <3>6. Once(t)'
      BY <1>3, <2>1, <2>4, <3>2, <3>3 DEF Once, Where
    <3> QED
      BY <2>1, <2>4, <3>1, <3>5, <3>6 DEF Where, Apart
  <2>6. CASE t # u
    <3>1. \A x \in Workers : Holds(x, t)' <=> Holds(x, t)
      BY <2>3, <2>6 DEF Holds, u
    <3>2. \A i \in 1 .. (n + 1) : Logged(i, t)' <=> Logged(i, t)
      BY <2>2, <2>6
    <3>3. \A i \in 1 .. n : i \in 1 .. (n + 1)
      BY <1>1
    <3>4. (IsDone(t)' <=> IsDone(t)) /\ (IsHeld(t)' <=> IsHeld(t))
      BY <1>3, <3>1, <3>2, <3>3 DEF IsDone, IsHeld, Logged
    <3>5. Once(t)'
      BY <1>3, <2>1, <2>4, <3>1, <3>2 DEF Once, Where, Logged
    <3> QED
      BY <2>1, <2>4, <3>4, <3>5 DEF Where, Apart
  <2> QED
    BY <2>5, <2>6
<1> QED
  BY <1>2, <1>4 DEF PlaceInv

(* A call that begins or gives up moves no task.                           *)
LEMMA CallPlaces ==
    ASSUME PlaceInv, CallInv', UNCHANGED <<queues, ran, ti, wpc>>,
           \A t \in Tasks : fate'[t] = "queued" <=> fate[t] = "queued"
    PROVE  PlaceInv'
<1>1. ASSUME NEW t \in Tasks PROVE Where(t)'
  <2>1. /\ \A w, i : At(w, i, t)' <=> At(w, i, t)
        /\ \A w : Holds(w, t)' <=> Holds(w, t)
        /\ \A i : Logged(i, t)' <=> Logged(i, t)
    BY DEF At, Holds, Logged
  <2>2. (InQueue(t)' <=> InQueue(t)) /\ (IsHeld(t)' <=> IsHeld(t)) /\ (IsDone(t)' <=> IsDone(t))
    BY <2>1 DEF InQueue, IsHeld, IsDone
  <2>3. Once(t)'
    BY <2>1 DEF PlaceInv, Where, Once
  <2> QED
    BY <2>2, <2>3 DEF PlaceInv, Where, Apart
<1> QED
  BY <1>1 DEF PlaceInv

LEMMA PlaceNext == TypeOK /\ PlaceInv /\ [Next]_vars => PlaceInv'
<1> SUFFICES ASSUME TypeOK, PlaceInv, [Next]_vars PROVE PlaceInv'
  OBVIOUS
<1> USE DEF config, pool, stats, flags, caller, worker, owner, app
<1>1. CASE Plain
  BY <1>1, StillPlaces DEF Plain
<1>2. CASE DtorJoin
  <2>1. Still
    BY <1>2 DEF DtorJoin, Still, Calling
  <2> QED
    BY <2>1, StillPlaces
<1>3. ASSUME NEW s \in Submitters, NEW t \in Tasks, NEW k \in Kinds,
             NEW cancelled \in BOOLEAN, NEW expired \in BOOLEAN,
             Call(s, t, k, cancelled, expired)
      PROVE  PlaceInv'
  <2>1. /\ fate[t] = "new" /\ spc[s] = "idle"
        /\ UNCHANGED <<queues, ran, ti, wpc>>
    BY <1>3 DEF Call
  <2>2. \A r \in Submitters : Calling(r) => item[r] \in Tasks /\ item[r] # t
    BY <2>1 DEF PlaceInv, CallInv, Calling, TypeOK
  <2>3. \/ /\ fate' = [fate EXCEPT ![t] = "rejected"] /\ UNCHANGED <<spc, item>>
        \/ /\ fate' = [fate EXCEPT ![t] = "calling"]
           /\ spc' = [spc EXCEPT ![s] = "load"] /\ item' = [item EXCEPT ![s] = t]
    BY <1>3 DEF Call
  <2>4. /\ \A u \in Tasks : u # t => fate'[u] = fate[u]
        /\ fate'[t] # "queued"
        /\ \A r \in Submitters : r # s => spc'[r] = spc[r] /\ item'[r] = item[r]
        /\ Calling(s)' => fate'[t] = "calling" /\ item'[s] = t
    BY <2>1, <2>3 DEF TypeOK, Calling
  <2>5. CallInv'
    <3>1. ASSUME NEW r \in Submitters, Calling(r)', r # s
          PROVE  Calling(r) /\ item'[r] = item[r] /\ item[r] # t /\ fate'[item'[r]] = "calling"
      <4>1. Calling(r) /\ item'[r] = item[r]
        BY <2>4, <3>1 DEF Calling
      <4>2. fate[item[r]] = "calling"
        BY <4>1 DEF PlaceInv, CallInv
      <4> QED
        BY <2>2, <2>4, <4>1, <4>2
    <3> QED
      BY <2>4, <3>1 DEF PlaceInv, CallInv
  <2>6. \A u \in Tasks : fate'[u] = "queued" <=> fate[u] = "queued"
    BY <2>1, <2>4
  <2> QED
    BY <2>1, <2>5, <2>6, CallPlaces
<1>4. ASSUME NEW s \in Submitters, SubmitDrop(s) PROVE PlaceInv'
  <2> DEFINE u == item[s]
  <2>1. /\ spc[s] = "load" /\ u \in Tasks
        /\ fate' = [fate EXCEPT ![u] = "dropped"]
        /\ spc' = [spc EXCEPT ![s] = "idle"] /\ item' = [item EXCEPT ![s] = None]
        /\ UNCHANGED <<queues, ran, ti, wpc>>
    BY <1>4 DEF SubmitDrop, Return, TypeOK
  <2>2. fate[u] = "calling" /\ \A r \in Submitters : Calling(r) /\ item[r] = u => r = s
    BY <2>1 DEF PlaceInv, CallInv, Calling
  <2> HIDE DEF u
  <2>3. \A r \in Submitters : Calling(r)' => Calling(r) /\ r # s /\ item'[r] = item[r]
    BY <2>1 DEF Calling, TypeOK
  <2>4. \A t \in Tasks : t # u => fate'[t] = fate[t]
    BY <2>1 DEF TypeOK
  <2>5. CallInv'
    <3>1. \A r \in Submitters : Calling(r) => item[r] \in Tasks
      BY DEF Calling, TypeOK
    <3> QED
      BY <2>2, <2>3, <2>4, <3>1 DEF PlaceInv, CallInv
  <2>6. \A t \in Tasks : fate'[t] = "queued" <=> fate[t] = "queued"
    BY <2>1, <2>2, <2>4 DEF TypeOK
  <2> QED
    BY <2>1, <2>5, <2>6, CallPlaces
<1>5. ASSUME NEW s \in Submitters, SubmitPush(s) PROVE PlaceInv'
  BY <1>5, PushPlaces
<1>6. ASSUME NEW w \in Workers, PopOwn(w) PROVE PlaceInv'
  <2> DEFINE q == Tail(queues[w])
  <2>1. queues[w] \in Seq(Tasks) /\ queues[w] # <<>>
    BY <1>6 DEF PopOwn, TypeOK
  <2>2. /\ q \in Seq(Tasks) /\ Len(q) = Len(queues[w]) - 1
        /\ Len(queues[w]) \in Nat \ {0} /\ Head(queues[w]) = queues[w][1]
        /\ \A i \in 1 .. Len(q) : q[i] = queues[w][i + 1]
    BY <2>1, HeadTailProperties, EmptySeq, LenProperties
  <2>3. /\ wpc[w] \notin InHand /\ wpc' = [wpc EXCEPT ![w] = "uncount"]
        /\ ti' = [ti EXCEPT ![w] = queues[w][1]]
        /\ queues' = [queues EXCEPT ![w] = q]
        /\ UNCHANGED <<ran, fate, spc, item>>
    BY <1>6, <2>2 DEF PopOwn, InHand
  <2>4. 1 \in 1 .. Len(queues[w])
    BY <2>2
  <2> HIDE DEF q
  <2>5. \A i \in 1 .. Len(q) : q[i] = queues[w][IF i < 1 THEN i ELSE i + 1]
    BY <2>2
  <2> QED
    BY <2>2, <2>3, <2>4, <2>5, TakePlaces
<1>7. ASSUME NEW w \in Workers, NEW vic \in Workers, StealBack(w, vic) PROVE PlaceInv'
  <2> DEFINE q == PopBack(queues[vic])
             n == Len(queues[vic])
  <2>1. queues[vic] \in Seq(Tasks) /\ queues[vic] # <<>>
    BY <1>7 DEF StealBack, TypeOK
  <2>2. q \in Seq(Tasks) /\ Len(q) = n - 1 /\ n \in Nat \ {0}
    BY <2>1, PopBackType, EmptySeq
  <2>3. \A i \in 1 .. Len(q) : q[i] = queues[vic][i]
    <3>1. \A i \in 1 .. n : queues[vic][i] \in Tasks
      BY <2>1, ElementOfSeq
    <3>2. 1 \in Int /\ n - 1 \in Int /\ \A i \in 1 .. n - 1 : queues[vic][i] \in Tasks
      BY <2>2, <3>1
    <3> HIDE DEF n
    <3>3. \A i \in 1 .. (n - 1) - 1 + 1 : SubSeq(queues[vic], 1, n - 1)[i] = queues[vic][1 + i - 1]
      BY <3>2, SubSeqProperties
    <3>4. \A i \in 1 .. n - 1 : SubSeq(queues[vic], 1, n - 1)[i] = queues[vic][i]
      BY <2>2, <3>3
    <3> QED
      BY <2>2, <3>4 DEF PopBack, n
  <2>4. /\ wpc[w] \notin InHand /\ wpc' = [wpc EXCEPT ![w] = "uncount"]
        /\ ti' = [ti EXCEPT ![w] = queues[vic][n]]
        /\ queues' = [queues EXCEPT ![vic] = q]
        /\ UNCHANGED <<ran, fate, spc, item>>
    BY <1>7 DEF StealBack, InHand
  <2>5. n \in 1 .. Len(queues[vic])
    BY <2>2
  <2> HIDE DEF q
  <2>6. \A i \in 1 .. Len(q) : q[i] = queues[vic][IF i < n THEN i ELSE i + 1]
    BY <2>2, <2>3
  <2> QED
    BY <2>2, <2>4, <2>5, <2>6, TakePlaces
<1>8. ASSUME NEW w \in Workers, GlobalCallbacks(w) PROVE PlaceInv'
  BY <1>8, LogPlaces
<1>9. ASSUME NEW w \in Workers,
             NEW outcome \in {"none", "cancelled", "value", "exception"},
             Wrappers(w, outcome)
      PROVE  PlaceInv'
  <2>1. Still
    BY <1>9 DEF Wrappers, Still, Calling, InHand, TypeOK
  <2> QED
    BY <2>1, StillPlaces
<1> QED
  BY <1>1, <1>2, <1>3, <1>4, <1>5, <1>6, <1>7, <1>8, <1>9, NextSplit

LEMMA PlaceInit == Init => PlaceInv
<1> SUFFICES ASSUME Init PROVE PlaceInv
  OBVIOUS
<1>1. CallInv
  BY DEF Init, CallInv, Calling
<1>2. Len(ran) = 0 /\ \A w \in Workers : Len(queues[w]) = 0
  BY DEF Init
<1>3. \A t : ~InQueue(t) /\ ~IsHeld(t) /\ ~IsDone(t)
  BY <1>2 DEF Init, InQueue, IsHeld, IsDone, Holds
<1>4. \A t \in Tasks : Once(t)
  BY <1>2, <1>3 DEF Once, IsHeld
<1> QED
  BY <1>1, <1>3, <1>4 DEF Init, PlaceInv, Where, Apart

LEMMA PlaceInvariant == Spec => [](TypeOK /\ PlaceInv)
BY TypeInit, TypeNext, PlaceInit, PlaceNext, PTL DEF Spec

(* Counting the places.                                                    *)
LEMMA PlaceCount ==
    ASSUME TypeOK, PlaceInv
    PROVE  TaskAccounted
<1> SUFFICES ASSUME NEW t \in Tasks
             PROVE  Cardinality({p \in Slots : queues[p[1]][p[2]] = t})
                    + Cardinality({w \in Workers : ti[w] = t /\ wpc[w] \in {"uncount", "callbacks"}})
                    + Cardinality({i \in DOMAIN ran : ran[i] = t})
                    = IF fate[t] = "queued" THEN 1 ELSE 0
  BY DEF TaskAccounted
<1> DEFINE queued == {p \in Slots : queues[p[1]][p[2]] = t}
           held   == {w \in Workers : ti[w] = t /\ wpc[w] \in {"uncount", "callbacks"}}
           done   == {i \in DOMAIN ran : ran[i] = t}
<1>1. Once(t) /\ Apart(t) /\ (fate[t] = "queued" <=> InQueue(t) \/ IsHeld(t) \/ IsDone(t))
  BY DEF PlaceInv, Where
<1>2. DOMAIN ran = 1 .. Len(ran)
  BY LenProperties DEF TypeOK
<1>3. \A p : p \in queued <=> \E w \in Workers : \E i \in 1 .. Len(queues[w]) :
                               p = <<w, i>> /\ At(w, i, t)
  BY SlotsMember DEF At
<1>4. \A w : w \in held <=> w \in Workers /\ Holds(w, t)
  BY DEF Holds
<1>5. \A i : i \in done <=> i \in 1 .. Len(ran) /\ Logged(i, t)
  BY <1>2 DEF Logged
<1> HIDE DEF queued, held, done
<1>6. Cardinality(queued) = IF InQueue(t) THEN 1 ELSE 0
  <2>1. CASE InQueue(t)
    <3>1. PICK w \in Workers : \E i \in 1 .. Len(queues[w]) : At(w, i, t)
      BY <2>1 DEF InQueue
    <3>2. PICK i \in 1 .. Len(queues[w]) : At(w, i, t)
      BY <3>1
    <3>3. queued = {<<w, i>>}
      BY <1>1, <1>3, <3>2 DEF Once
    <3> QED
      BY <2>1, <3>3, FS_Singleton
  <2>2. CASE ~InQueue(t)
    <3>1. queued = {}
      BY <1>3, <2>2 DEF InQueue
    <3> QED
      BY <2>2, <3>1, FS_EmptySet
  <2> QED
    BY <2>1, <2>2
<1>7. Cardinality(held) = IF IsHeld(t) THEN 1 ELSE 0
  <2>1. CASE IsHeld(t)
    <3>1. PICK w \in Workers : Holds(w, t)
      BY <2>1 DEF IsHeld
    <3>2. held = {w}
      BY <1>1, <1>4, <3>1 DEF Once
    <3> QED
      BY <2>1, <3>2, FS_Singleton
  <2>2. CASE ~IsHeld(t)
    <3>1. held = {}
      BY <1>4, <2>2 DEF IsHeld
    <3> QED
      BY <2>2, <3>1, FS_EmptySet
  <2> QED
    BY <2>1, <2>2
<1>8. Cardinality(done) = IF IsDone(t) THEN 1 ELSE 0
  <2>1. CASE IsDone(t)
    <3>1. PICK i \in 1 .. Len(ran) : Logged(i, t)
      BY <2>1 DEF IsDone
    <3>2. done = {i}
      BY <1>1, <1>5, <3>1 DEF Once
    <3> QED
      BY <2>1, <3>2, FS_Singleton
  <2>2. CASE ~IsDone(t)
    <3>1. done = {}
      BY <1>5, <2>2 DEF IsDone
    <3> QED
      BY <2>2, <3>1, FS_EmptySet
  <2> QED
    BY <2>1, <2>2
<1>9. Cardinality(queued) + Cardinality(held) + Cardinality(done)
         = IF fate[t] = "queued" THEN 1 ELSE 0
  BY <1>1, <1>6, <1>7, <1>8 DEF Apart
<1> QED
  BY <1>9 DEF queued, held, done

(* Owners pop the front of their deque, thieves the back of another's, and *)
(* both under different mutexes while submitters push: still a task that   *)
(* SubmitImpl queued is in exactly one place, a slot of a deque, the hands *)
(* of a worker or the log of the callbacks, so it is neither lost nor run  *)
(* twice; a task that was dropped or rejected is in none.                  *)
THEOREM NoTaskLostOrRepeated == Spec => []TaskAccounted
BY PlaceInvariant, PlaceCount, PTL

-----------------------------------------------------------------------------
(* The counter and the wake-ups with the circuit breaker off, or without a *)
(* cap: what is queued is then bounded by what was submitted.              *)

FewTasks == IsFiniteSet(Tasks) /\ Cardinality(Tasks) < SizeMod

(* No two slots hold the same task, and no two workers.                    *)
LEMMA SlotsWithinTasks ==
    ASSUME TypeOK, PlaceInv, IsFiniteSet(Tasks)
    PROVE  /\ IsFiniteSet(Slots) /\ Cardinality(Slots) \in Nat
           /\ Cardinality(Slots) + Cardinality(Popped) <= Cardinality(Tasks)
<1> DEFINE InSlots == {t \in Tasks : InQueue(t)}
           InHands == {t \in Tasks : IsHeld(t)}
           f == [p \in Slots |-> queues[p[1]][p[2]]]
           g == [w \in Popped |-> ti[w]]
<1>1. ASSUME NEW p \in Slots
      PROVE  f[p] \in InSlots /\ \A r \in Slots : f[p] = f[r] => p = r
  <2>1. PICK w \in Workers : \E i \in 1 .. Len(queues[w]) : p = <<w, i>>
    BY SlotsMember
  <2>2. PICK i \in 1 .. Len(queues[w]) : p = <<w, i>>
    BY <2>1
  <2>3. queues[w] \in Seq(Tasks) /\ f[p] = queues[w][i]
    BY <2>2 DEF TypeOK
  <2>4. f[p] \in Tasks
    BY <2>3, ElementOfSeq
  <2>5. At(w, i, f[p])
    BY <2>3 DEF At
  <2>6. f[p] \in InSlots
    BY <2>4, <2>5 DEF InQueue
  <2>7. ASSUME NEW r \in Slots, f[p] = f[r] PROVE p = r
    <3>1. PICK v \in Workers : \E j \in 1 .. Len(queues[v]) : r = <<v, j>>
      BY SlotsMember
    <3>2. PICK j \in 1 .. Len(queues[v]) : r = <<v, j>>
      BY <3>1
    <3>3. f[r] = queues[v][j]
      BY <3>2
    <3>4. At(v, j, f[p])
      BY <2>7, <3>3 DEF At
    <3>5. Once(f[p])
      BY <2>4 DEF PlaceInv, Where
    <3>6. w = v /\ i = j
      BY <2>5, <3>4, <3>5 DEF Once
    <3> QED
      BY <2>2, <3>2, <3>6
  <2> QED
    BY <2>6, <2>7
<1>2. ASSUME NEW w \in Popped
      PROVE  g[w] \in InHands /\ \A v \in Popped : g[w] = g[v] => w = v
  <2>1. w \in Workers /\ wpc[w] = "uncount" /\ g[w] = ti[w] /\ ti[w] \in Tasks
    BY DEF Popped, TypeOK
  <2>2. Holds(w, ti[w])
    BY <2>1 DEF Holds
  <2>3. g[w] \in InHands
    BY <2>1, <2>2 DEF IsHeld
  <2>4. ASSUME NEW v \in Popped, g[w] = g[v] PROVE w = v
    <3>1. v \in Workers /\ Holds(v, ti[w])
      BY <2>1, <2>4 DEF Popped, Holds
    <3>2. Once(ti[w])
      BY <2>1 DEF PlaceInv, Where
    <3> QED
      BY <2>1, <2>2, <3>1, <3>2 DEF Once
  <2> QED
    BY <2>3, <2>4
<1>3. f \in Injection(Slots, InSlots)
  <2>1. f \in [Slots -> InSlots]
    BY <1>1
  <2> HIDE DEF f, InSlots
  <2> QED
    BY <1>1, <2>1 DEF Injection, IsInjective
<1>4. g \in Injection(Popped, InHands)
  <2>1. g \in [Popped -> InHands]
    BY <1>2
  <2> HIDE DEF g, InHands
  <2> QED
    BY <1>2, <2>1 DEF Injection, IsInjective
<1>5. InSlots \in SUBSET Tasks /\ InHands \in SUBSET Tasks /\ InSlots \cap InHands = {}
  BY DEF PlaceInv, Where, Apart
<1> HIDE DEF InSlots, InHands, f, g
<1>6. IsFiniteSet(InSlots) /\ IsFiniteSet(InHands)
  BY <1>5, FS_Subset
<1>7. IsFiniteSet(Slots) /\ Cardinality(Slots) <= Cardinality(InSlots)
  BY <1>3, <1>6, FS_Injection
<1>8. IsFiniteSet(Popped) /\ Cardinality(Popped) <= Cardinality(InHands)
  BY <1>4, <1>6, FS_Injection
<1>9. Cardinality(InSlots \cup InHands) = Cardinality(InSlots) + Cardinality(InHands)
  <2>1. Cardinality(InSlots \cup InHands)
           = Cardinality(InSlots) + Cardinality(InHands) - Cardinality(InSlots \cap InHands)
    BY <1>6, FS_Union
  <2>2. Cardinality(InSlots \cap InHands) = 0
    BY <1>5, FS_EmptySet
  <2>3. Cardinality(InSlots) \in Nat /\ Cardinality(InHands) \in Nat
    BY <1>6, FS_CardinalityType
  <2> QED
    BY <2>1, <2>2, <2>3
<1>10. Cardinality(InSlots \cup InHands) <= Cardinality(Tasks)
  <2>1. InSlots \cup InHands \in SUBSET Tasks
    BY <1>5
  <2> QED
    BY <2>1, FS_Subset
<1>11. /\ Cardinality(InSlots) \in Nat /\ Cardinality(InHands) \in Nat
       /\ Cardinality(Slots) \in Nat /\ Cardinality(Popped) \in Nat
       /\ Cardinality(Tasks) \in Nat
  BY <1>6, <1>7, <1>8, FS_CardinalityType
<1> QED
  BY <1>7, <1>8, <1>9, <1>10, <1>11

(* So the counter never comes round to zero from above, and it comes       *)
(* below zero only by the submitters that have not counted yet.            *)
InRange ==
    /\ Backlog \in Int /\ -Cardinality(Submitters) <= Backlog /\ Backlog < SizeMod
    /\ IsFiniteSet(Slots) /\ Cardinality(Slots) \in Nat

LEMMA BacklogRange ==
    ASSUME TypeOK, PlaceInv, FewTasks
    PROVE  InRange
<1>1. /\ IsFiniteSet(Slots) /\ Cardinality(Slots) \in Nat
      /\ Cardinality(Slots) + Cardinality(Popped) <= Cardinality(Tasks)
      /\ Cardinality(Tasks) \in Nat /\ Cardinality(Tasks) < SizeMod
  BY SlotsWithinTasks, FS_CardinalityType DEF FewTasks
<1> QED
  BY <1>1, GroupSizes, SizeModAssumption DEF InRange, Backlog

LEMMA WrapWithin ==
    ASSUME NEW n \in Int, -Cardinality(Submitters) <= n, n < SizeMod
    PROVE  /\ n + 1 < SizeMod => Inc(Wrap(n)) = Wrap(n + 1)
           /\ -Cardinality(Submitters) <= n - 1 => Dec(Wrap(n)) = Wrap(n - 1)
<1>1. Cardinality(Submitters) \in Nat
  BY GroupSizes
<1> QED
  BY <1>1, SizeModAssumption, ConfigsAssumption, NumThreadsAssumption DEF Inc, Dec, Wrap

LEMMA FitsNext ==
    ASSUME TypeOK, InRange, InRange', CounterFits, [Next]_vars
    PROVE  CounterFits'
<1> USE DEF config, pool, caller, worker
<1>1. /\ Backlog \in Int /\ -Cardinality(Submitters) <= Backlog /\ Backlog < SizeMod
      /\ IsFiniteSet(Slots) /\ Cardinality(Slots) \in Nat
  BY DEF InRange
<1>2. IsFiniteSet(Slots') /\ Backlog' < SizeMod /\ -Cardinality(Submitters) <= Backlog'
  BY DEF InRange
<1>3. ASSUME UNCHANGED tasks_in_queue, Backlog' = Backlog PROVE CounterFits'
  BY <1>2, <1>3 DEF CounterFits
<1>4. CASE Same
  <2>1. Slots' = Slots
    BY <1>4 DEF Same, Slots
  <2> QED
    BY <1>3, <1>4, <2>1 DEF Same, Backlog
<1>5. ASSUME NEW s \in Submitters, SubmitLoad(s) PROVE CounterFits'
  <2>1. Slots' = Slots /\ Pushed' = Pushed /\ Popped' = Popped
    BY <1>5 DEF SubmitLoad, Slots, Pushed, Popped, TypeOK
  <2> QED
    BY <1>3, <1>5, <2>1 DEF SubmitLoad, Backlog
<1>6. ASSUME NEW s \in Submitters, SubmitPush(s) PROVE CounterFits'
  <2>1. PICK q : q = PushBack(queues[idx[s]], item[s])
    OBVIOUS
  <2>2. /\ spc[s] = "push" /\ spc' = [spc EXCEPT ![s] = "count"]
        /\ queues' = [queues EXCEPT ![idx[s]] = q]
        /\ UNCHANGED <<tasks_in_queue, wpc>>
    BY <1>6, <2>1 DEF SubmitPush
  <2>3. q \in Seq(Tasks) /\ Len(q) = Len(queues[idx[s]]) + 1 /\ idx[s] \in Workers
    BY <2>1, <2>2 DEF PushBack, TypeOK
  <2>4. Cardinality(Slots') = Cardinality(Slots) + 1
    BY <1>1, <2>2, <2>3, SlotAdded
  <2>5. Popped' = Popped /\ Pushed' = Pushed \cup {s} /\ s \notin Pushed
    BY <2>2 DEF Popped, Pushed, TypeOK
  <2>6. Cardinality(Pushed') = Cardinality(Pushed) + 1
    BY <2>5, GroupSizes, FS_AddElement
  <2>7. Backlog' = Backlog
    BY <1>1, <2>4, <2>5, <2>6, GroupSizes DEF Backlog
  <2> QED
    BY <1>3, <2>2, <2>7
<1>7. ASSUME NEW s \in Submitters, SubmitCount(s) PROVE CounterFits'
  <2>1. /\ spc[s] = "count" /\ spc' = [spc EXCEPT ![s] = "signal"]
        /\ tasks_in_queue' = Inc(tasks_in_queue) /\ UNCHANGED <<queues, wpc>>
    BY <1>7 DEF SubmitCount
  <2>2. Slots' = Slots /\ Popped' = Popped /\ Pushed' = Pushed \ {s} /\ s \in Pushed
    <3>1. Slots' = Slots /\ Popped' = Popped
      BY <2>1 DEF Slots, Popped
    <3> QED
      BY <2>1, <3>1 DEF Pushed, TypeOK
  <2>3. Cardinality(Pushed') = Cardinality(Pushed) - 1
    BY <2>2, GroupSizes, FS_RemoveElement
  <2>4. Backlog' = Backlog + 1
    BY <1>1, <2>2, <2>3, GroupSizes DEF Backlog
  <2>5. Inc(Wrap(Backlog)) = Wrap(Backlog + 1)
    BY <1>1, <1>2, <2>4, WrapWithin
  <2> QED
    BY <1>2, <2>1, <2>4, <2>5 DEF CounterFits
<1>8. ASSUME NEW w \in Workers, Uncount(w) PROVE CounterFits'
  <2>1. /\ wpc[w] = "uncount" /\ wpc' = [wpc EXCEPT ![w] = "callbacks"]
        /\ tasks_in_queue' = Dec(tasks_in_queue) /\ UNCHANGED <<queues, spc>>
    BY <1>8 DEF Uncount
  <2>2. Slots' = Slots /\ Pushed' = Pushed /\ Popped' = Popped \ {w} /\ w \in Popped
    <3>1. Slots' = Slots /\ Pushed' = Pushed
      BY <2>1 DEF Slots, Pushed
    <3> QED
      BY <2>1, <3>1 DEF Popped, TypeOK
  <2>3. Cardinality(Popped') = Cardinality(Popped) - 1
    BY <2>2, GroupSizes, FS_RemoveElement
  <2>4. Backlog' = Backlog - 1
    BY <1>1, <2>2, <2>3, GroupSizes DEF Backlog
  <2>5. Dec(Wrap(Backlog)) = Wrap(Backlog - 1)
    BY <1>1, <1>2, <2>4, WrapWithin
  <2> QED
    BY <1>2, <2>1, <2>4, <2>5 DEF CounterFits
<1>9. ASSUME NEW w \in Workers, NEW v \in Workers, NEW q \in Seq(Tasks), Takes(w, v, q)
      PROVE  CounterFits'
  <2>1. Cardinality(Slots') = Cardinality(Slots) - 1
    BY <1>1, <1>9, SlotRemoved DEF Takes
  <2>2. Pushed' = Pushed /\ Popped' = Popped \cup {w} /\ w \notin Popped
    BY <1>9 DEF Takes, Pushed, Popped, TypeOK
  <2>3. Cardinality(Popped') = Cardinality(Popped) + 1
    BY <2>2, GroupSizes, FS_AddElement
  <2>4. Backlog' = Backlog
    BY <1>1, <2>1, <2>2, <2>3, GroupSizes DEF Backlog
  <2> QED
    BY <1>3, <1>9, <2>4 DEF Takes
<1> QED
  BY <1>4, <1>5, <1>6, <1>7, <1>8, <1>9, CounterSplit DEF Counting

LEMMA FitsInit ==
    ASSUME FewTasks, Init
    PROVE  CounterFits
<1>1. Slots = {} /\ Pushed = {} /\ Popped = {}
  BY SlotsMember DEF Init, Pushed, Popped
<1>2. IsFiniteSet(Slots) /\ Backlog = 0
  BY <1>1, FS_EmptySet DEF Backlog
<1> QED
  BY <1>2 DEF Init, CounterFits, Wrap

(* Also with the circuit breaker off, or with no cap, tasks_in_queue_ is   *)
(* what the deques say and no worker sleeps on it without a signal to      *)
(* come, as long as fewer than 2^64 tasks are submitted.                   *)
THEOREM UncappedPoolWakes ==
    ASSUME FewTasks
    PROVE  Spec => [](CounterFits /\ NoLostWakeup)
<1>1. Init => CounterFits /\ NoLostWakeup
  BY FitsInit DEF Init, NoLostWakeup
<1>2. TypeOK /\ InRange /\ InRange' /\ CounterFits /\ NoLostWakeup /\ [Next]_vars
      => (CounterFits /\ NoLostWakeup)'
  BY FitsNext, WakeupNext
<1>3. TypeOK /\ PlaceInv => InRange
  BY BacklogRange
<1> QED
  BY <1>1, <1>2, <1>3, PlaceInvariant, PTL DEF Spec

-----------------------------------------------------------------------------
(* Promises.                                                               *)

(* The log only grows.                                                     *)
LEMMA LogGrows ==
    ASSUME TypeOK, NEW u \in Tasks, ran' = Append(ran, u)
    PROVE  IsDone(u)' /\ \A t \in Tasks : IsDone(t)' <=> IsDone(t) \/ t = u
<1> DEFINE n == Len(ran)
<1>1. /\ n \in Nat /\ Len(ran') = n + 1 /\ ran'[n + 1] = u
      /\ \A i \in 1 .. n : ran'[i] = ran[i]
  BY AppendProperties, LenProperties DEF TypeOK
<1>2. \A t : IsDone(t)' <=> \E i \in 1 .. (n + 1) : ran'[i] = t
  BY <1>1 DEF IsDone, Logged
<1>3. \A t : IsDone(t) <=> \E i \in 1 .. n : ran[i] = t
  BY DEF IsDone, Logged
<1> HIDE DEF n
<1>4. \A i \in 1 .. (n + 1) : i \in 1 .. n \/ i = n + 1
  BY <1>1
<1>5. n + 1 \in 1 .. (n + 1) /\ \A i \in 1 .. n : i \in 1 .. (n + 1)
  BY <1>1
<1> QED
  BY <1>1, <1>2, <1>3, <1>4, <1>5

LEMMA WrapNext ==
    ASSUME TypeOK, PlaceInv, WrapInv, [Next]_vars
    PROVE  WrapInv'
<1> USE DEF config, pool, stats, flags, caller, worker, owner, app
<1>1. ASSUME UNCHANGED ran,
             \A w \in Workers : wpc'[w] = "wrappers" => wpc[w] = "wrappers" /\ ti'[w] = ti[w]
      PROVE  WrapInv'
  <2>1. \A t : IsDone(t)' <=> IsDone(t)
    BY <1>1 DEF IsDone, Logged
  <2> QED
    BY <1>1, <2>1 DEF WrapInv
<1>2. CASE Plain
  BY <1>1, <1>2 DEF Plain, Still
<1>3. CASE DtorJoin
  BY <1>1, <1>3 DEF DtorJoin
<1>4. ASSUME NEW s \in Submitters, NEW t \in Tasks, NEW k \in Kinds,
             NEW cancelled \in BOOLEAN, NEW expired \in BOOLEAN,
             Call(s, t, k, cancelled, expired)
      PROVE  WrapInv'
  BY <1>1, <1>4 DEF Call
<1>5. ASSUME NEW s \in Submitters, SubmitDrop(s) \/ SubmitPush(s) PROVE WrapInv'
  BY <1>1, <1>5 DEF SubmitDrop, SubmitPush
<1>6. ASSUME NEW w \in Workers, PopOwn(w) PROVE WrapInv'
  BY <1>1, <1>6 DEF PopOwn, TypeOK
<1>7. ASSUME NEW w \in Workers, NEW vic \in Workers, StealBack(w, vic) PROVE WrapInv'
  BY <1>1, <1>7 DEF StealBack, TypeOK
<1>8. ASSUME NEW w \in Workers, GlobalCallbacks(w) PROVE WrapInv'
  <2>1. /\ ti[w] \in Tasks /\ ran' = Append(ran, ti[w]) /\ ti' = ti
        /\ wpc[w] = "callbacks" /\ wpc' = [wpc EXCEPT ![w] = "wrappers"]
    BY <1>8 DEF GlobalCallbacks, TypeOK
  <2>2. IsDone(ti[w])' /\ \A t \in Tasks : IsDone(t)' <=> IsDone(t) \/ t = ti[w]
    BY <2>1, LogGrows
  <2>3. ~IsDone(ti[w])
    BY <2>1 DEF PlaceInv, Where, Apart, IsHeld, Holds
  <2>4. \A v \in Workers : wpc'[v] = "wrappers" /\ v # w =>
           wpc[v] = "wrappers" /\ ti[v] \in Tasks /\ ti[v] # ti[w]
    BY <2>1, <2>3 DEF WrapInv, TypeOK
  <2> QED
    BY <2>1, <2>2, <2>4 DEF WrapInv
<1>9. ASSUME NEW w \in Workers,
             NEW outcome \in {"none", "cancelled", "value", "exception"},
             Wrappers(w, outcome)
      PROVE  WrapInv'
  BY <1>1, <1>9 DEF Wrappers, TypeOK
<1> QED
  BY <1>2, <1>3, <1>4, <1>5, <1>6, <1>7, <1>8, <1>9, NextSplit

(* What a step does to the futures.                                        *)
SetOnce == \A t \in Tasks : fut[t] \notin {"none", "pending"} => fut'[t] = fut[t]

LEMMA FutureNext ==
    ASSUME TypeOK, PlaceInv, WrapInv, FutureInv, [Next]_vars
    PROVE  FutureInv' /\ SetOnce
<1> USE DEF config, pool, stats, flags, caller, worker, owner, app
<1>1. ASSUME UNCHANGED <<fut, kind>>,
             \A t \in Tasks : fate'[t] = "new" => fate[t] = "new",
             \A t \in Tasks : Open(t)' => Open(t),
             dpc' = "dead" <=> dpc = "dead",
             \A w \in Workers : wpc[w] = "exited" => wpc'[w] = "exited"
      PROVE  FutureInv' /\ SetOnce
  BY <1>1 DEF FutureInv, SetOnce
<1>2. CASE Plain
  <2>1. \A t : IsDone(t)' <=> IsDone(t)
    BY <1>2 DEF Plain, Still, IsDone, Logged
  <2>2. \A t : Open(t)' => Open(t)
    BY <1>2, <2>1 DEF Plain, Still, Open
  <2>3. UNCHANGED <<fut, kind, fate>>
    BY <1>2 DEF Plain, Still
  <2> QED
    BY <1>1, <1>2, <2>2, <2>3 DEF Plain
<1>3. CASE DtorJoin
  <2>1. /\ dpc' = "dead" /\ UNCHANGED <<fate, wpc>>
        /\ \A w \in Workers : wpc[w] = "exited"
        /\ \A t \in Tasks : fut'[t] = IF fut[t] = "pending" THEN "broken" ELSE fut[t]
    BY <1>3 DEF DtorJoin
  <2> QED
    BY <2>1 DEF FutureInv, SetOnce
<1>4. ASSUME NEW s \in Submitters, NEW t \in Tasks, NEW k \in Kinds,
             NEW cancelled \in BOOLEAN, NEW expired \in BOOLEAN,
             Call(s, t, k, cancelled, expired)
      PROVE  FutureInv' /\ SetOnce
  <2>1. /\ fate[t] = "new" /\ dpc = "alive" /\ dpc' = "alive"
        /\ kind' = [kind EXCEPT ![t] = k]
        /\ UNCHANGED <<ran, ti, wpc>>
    BY <1>4 DEF Call
  <2>2. \/ /\ fate' = [fate EXCEPT ![t] = "rejected"]
           /\ fut' = [fut EXCEPT ![t] = IF k = "result" THEN "cancelled" ELSE @]
        \/ /\ fate' = [fate EXCEPT ![t] = "calling"]
           /\ fut' = [fut EXCEPT ![t] = IF k = "result" THEN "pending" ELSE @]
    BY <1>4 DEF Call
  <2>3. fut[t] = "none" /\ ~IsDone(t)
    BY <2>1 DEF FutureInv, PlaceInv, Where
  <2>4. \A w \in Workers : wpc[w] = "wrappers" => ti[w] # t
    BY <2>3 DEF WrapInv
  <2>5. \A u : IsDone(u)' <=> IsDone(u)
    BY <2>1 DEF IsDone, Logged
  <2>6. /\ \A u \in Tasks : u # t => /\ fate'[u] = fate[u] /\ fut'[u] = fut[u]
                                    /\ kind'[u] = kind[u]
        /\ kind'[t] = k /\ fate'[t] \in {"rejected", "calling"}
        /\ fate'[t] = "calling" => fut'[t] = IF k = "result" THEN "pending" ELSE "none"
    BY <2>1, <2>2, <2>3 DEF TypeOK
  <2>7. \A u \in Tasks : Open(u)' => (u # t /\ Open(u)) \/ (u = t /\ fate'[t] = "calling")
    BY <2>1, <2>4, <2>5, <2>6 DEF Open
  <2> QED
    BY <2>1, <2>3, <2>6, <2>7 DEF FutureInv, SetOnce
<1>5. ASSUME NEW s \in Submitters, SubmitDrop(s) PROVE FutureInv' /\ SetOnce
  <2> DEFINE u == item[s]
  <2>1. /\ spc[s] = "load" /\ u \in Tasks
        /\ fate' = [fate EXCEPT ![u] = "dropped"]
        /\ fut' = [fut EXCEPT ![u] = IF @ = "pending" THEN "broken" ELSE @]
        /\ UNCHANGED <<ran, ti, wpc, kind, dpc>>
    BY <1>5 DEF SubmitDrop, TypeOK
  <2>2. fate[u] = "calling"
    BY <2>1 DEF PlaceInv, CallInv, Calling
  <2>3. ~IsDone(u)
    BY <2>1, <2>2 DEF PlaceInv, Where
  <2> HIDE DEF u
  <2>4. \A w \in Workers : wpc[w] = "wrappers" => ti[w] # u
    BY <2>3 DEF WrapInv
  <2>5. \A t : IsDone(t)' <=> IsDone(t)
    BY <2>1 DEF IsDone, Logged
  <2>6. /\ \A t \in Tasks : t # u => fate'[t] = fate[t] /\ fut'[t] = fut[t]
        /\ fate'[u] = "dropped"
        /\ fut[u] # "pending" => fut'[u] = fut[u]
    BY <2>1 DEF TypeOK
  <2>7. \A t \in Tasks : Open(t)' => t # u /\ Open(t)
    BY <2>1, <2>4, <2>5, <2>6 DEF Open
  <2> QED
    BY <2>1, <2>6, <2>7 DEF FutureInv, SetOnce
<1>6. ASSUME NEW s \in Submitters, SubmitPush(s) PROVE FutureInv' /\ SetOnce
  <2> DEFINE u == item[s]
  <2>1. /\ spc[s] = "push" /\ u \in Tasks
        /\ fate' = [fate EXCEPT ![u] = "queued"]
        /\ UNCHANGED <<ran, ti, wpc, kind, fut, dpc>>
    BY <1>6 DEF SubmitPush, TypeOK
  <2>2. fate[u] = "calling"
    BY <2>1 DEF PlaceInv, CallInv, Calling
  <2> HIDE DEF u
  <2>3. \A t : IsDone(t)' <=> IsDone(t)
    BY <2>1 DEF IsDone, Logged
  <2>4. \A t \in Tasks : t # u => fate'[t] = fate[t]
    BY <2>1 DEF TypeOK
  <2>5. \A t \in Tasks : Open(t)' => Open(t)
    BY <2>1, <2>2, <2>3, <2>4 DEF Open
  <2>6. \A t \in Tasks : fate'[t] = "new" => fate[t] = "new"
    BY <2>1, <2>4 DEF TypeOK
  <2> QED
    BY <1>1, <2>1, <2>5, <2>6
<1>7. ASSUME NEW w \in Workers, PopOwn(w) \/ \E vic \in Workers : StealBack(w, vic)
      PROVE  FutureInv' /\ SetOnce
  <2>1. /\ UNCHANGED <<ran, kind, fut, fate, dpc>>
        /\ wpc[w] # "exited" /\ wpc' = [wpc EXCEPT ![w] = "uncount"]
        /\ \A v \in Workers : v # w => ti'[v] = ti[v]
    BY <1>7 DEF PopOwn, StealBack, TypeOK
  <2>2. \A v \in Workers : v # w => wpc'[v] = wpc[v]
    BY <2>1 DEF TypeOK
  <2>3. wpc'[w] = "uncount"
    BY <2>1 DEF TypeOK
  <2>4. \A t : IsDone(t)' <=> IsDone(t)
    BY <2>1 DEF IsDone, Logged
  <2>5. \A t \in Tasks : Open(t)' => Open(t)
    BY <2>1, <2>2, <2>3, <2>4 DEF Open
  <2> QED
    BY <1>1, <2>1, <2>2, <2>5
<1>8. ASSUME NEW w \in Workers, GlobalCallbacks(w) PROVE FutureInv' /\ SetOnce
  <2> DEFINE u == ti[w]
  <2>1. /\ u \in Tasks /\ ran' = Append(ran, u) /\ UNCHANGED <<ti, kind, fut, fate, dpc>>
        /\ wpc[w] = "callbacks" /\ wpc' = [wpc EXCEPT ![w] = "wrappers"]
    BY <1>8 DEF GlobalCallbacks, TypeOK
  <2>2. \A t \in Tasks : IsDone(t) => IsDone(t)'
    BY <2>1, LogGrows
  <2>3. fate[u] = "queued" /\ ~IsDone(u)
    BY <2>1 DEF PlaceInv, Where, Apart, IsHeld, Holds
  <2>4. \A v \in Workers : v # w => wpc'[v] = wpc[v]
    BY <2>1 DEF TypeOK
  <2>5. \A t \in Tasks : Open(t)' => Open(t)
    BY <2>1, <2>2, <2>3, <2>4 DEF Open
  <2> QED
    BY <1>1, <2>1, <2>4, <2>5
<1>9. ASSUME NEW w \in Workers,
             NEW outcome \in {"none", "cancelled", "value", "exception"},
             Wrappers(w, outcome)
      PROVE  FutureInv' /\ SetOnce
  <2> DEFINE u == ti[w]
  <2>1. /\ u \in Tasks /\ wpc[w] = "wrappers"
        /\ wpc' = [wpc EXCEPT ![w] = "drops"] /\ ti' = [ti EXCEPT ![w] = None]
        /\ fut' = [fut EXCEPT ![u] = outcome]
        /\ UNCHANGED <<ran, kind, fate, dpc>>
    BY <1>9 DEF Wrappers, TypeOK
  <2>2. /\ IsDone(u)
        /\ \A v \in Workers : wpc[v] = "wrappers" /\ ti[v] = u => v = w
    BY <2>1 DEF WrapInv
  <2>3. fate[u] = "queued"
    BY <2>1, <2>2 DEF PlaceInv, Where
  <2>4. Open(u) /\ dpc # "dead"
    BY <2>1 DEF Open, FutureInv
  <2>5. fut[u] \in {"none", "pending"}
    BY <2>1, <2>4 DEF FutureInv
  <2>6. \A t \in Tasks : t # u => fut'[t] = fut[t]
    BY <2>1 DEF TypeOK
  <2>7. \A t : IsDone(t)' <=> IsDone(t)
    BY <2>1 DEF IsDone, Logged
  <2>8. \A v \in Workers : /\ v # w => wpc'[v] = wpc[v] /\ ti'[v] = ti[v]
                           /\ wpc'[w] = "drops"
    BY <2>1 DEF TypeOK
  <2> HIDE DEF u
  <2>9. \A t \in Tasks : Open(t)' => t # u /\ Open(t)
    BY <2>1, <2>2, <2>3, <2>7, <2>8 DEF Open
  <2>10. \A v \in Workers : wpc[v] = "exited" => wpc'[v] = "exited"
    BY <2>1, <2>8
  <2> QED
    BY <2>1, <2>3, <2>5, <2>6, <2>9, <2>10 DEF FutureInv, SetOnce
<1> QED
  BY <1>2, <1>3, <1>4, <1>5, <1>6, <1>7, <1>8, <1>9, NextSplit

(* The breaker that drops a task, the token found set on entry, the worker *)
(* that runs the wrapper and the destructor that breaks what is left each  *)
(* give a future its state: once it is ready no later step of any of them  *)
(* changes it, so that no promise is satisfied twice.                      *)
THEOREM PromisesSetOnce == Spec => FutureSetOnce
<1>1. Init => WrapInv /\ FutureInv
  <2> SUFFICES ASSUME Init PROVE WrapInv /\ FutureInv
    OBVIOUS
  <2>1. \A w \in Workers : wpc[w] = "loop"
    BY DEF Init
  <2>2. \A t \in Tasks : ~Open(t)
    BY <2>1 DEF Init, Open
  <2> QED
    BY <2>1, <2>2 DEF Init, WrapInv, FutureInv
<1>2. TypeOK /\ PlaceInv /\ WrapInv /\ FutureInv /\ [Next]_vars
      => (WrapInv /\ FutureInv)' /\ SetOnce
  BY WrapNext, FutureNext
<1>3. Spec => [](TypeOK /\ PlaceInv /\ WrapInv /\ FutureInv)
  BY <1>1, <1>2, PlaceInvariant, PTL DEF Spec
<1>4. TypeOK /\ PlaceInv /\ WrapInv /\ FutureInv /\ [Next]_vars
      => [\A t \in Tasks : fut[t] \notin {"none", "pending"} => fut'[t] = fut[t]]_vars
  BY <1>2 DEF SetOnce
<1> QED
  BY <1>3, <1>4, PTL DEF Spec, FutureSetOnce

-----------------------------------------------------------------------------
(* FIFO mode: the pool implements FifoQueue, every step of it being a step *)
(* of the abstract queue or none.                                          *)

(* UpdateConfig may change everything but the mode.                        *)
OnlyFifo == \A c \in Configs : c.mode = "FIFO"

(* The inductive invariant: the first deque is the only one in use, and    *)
(* its own worker the only one that takes tasks.                           *)
FifoInv ==
    /\ \A s \in Submitters : idx[s] = 0
    /\ \A w \in Workers :
          /\ wpc[w] # "steal"
          /\ w # 0 => queues[w] = <<>> /\ wpc[w] \notin {"uncount", "callbacks"}

-----------------------------------------------------------------------------
(* The abstract queue, from the deque and the task that was taken from it. *)

LEMMA ConsFacts ==
    ASSUME NEW S, NEW e \in S, NEW q \in Seq(S)
    PROVE  /\ <<e>> \o q \in Seq(S) /\ <<e>> \o q # <<>>
           /\ Head(<<e>> \o q) = e /\ Tail(<<e>> \o q) = q
<1> DEFINE c == <<e>> \o q
<1>1. <<e>> \in Seq(S) /\ Len(<<e>>) = 1 /\ <<e>>[1] = e
  OBVIOUS
<1>2. /\ c \in Seq(S) /\ Len(c) = 1 + Len(q)
      /\ \A i \in 1 .. 1 + Len(q) : c[i] = IF i <= 1 THEN <<e>>[i] ELSE q[i - 1]
  BY <1>1, ConcatProperties
<1>3. Len(q) \in Nat
  BY LenProperties
<1> HIDE DEF c
<1>4. c # <<>>
  BY <1>2, <1>3
<1>5. /\ Head(c) = c[1] /\ Tail(c) \in Seq(S) /\ Len(Tail(c)) = Len(c) - 1
      /\ \A i \in 1 .. Len(Tail(c)) : Tail(c)[i] = c[i + 1]
  BY <1>2, <1>4, HeadTailProperties
<1>6. c[1] = e
  BY <1>1, <1>2, <1>3
<1>7. Len(Tail(c)) = Len(q)
  BY <1>2, <1>3, <1>5
<1>8. \A i \in 1 .. Len(q) : Tail(c)[i] = q[i]
  BY <1>2, <1>3, <1>5, <1>7
<1>9. Tail(c) = q
  BY <1>5, <1>7, <1>8, SeqEqual
<1> QED
  BY <1>2, <1>4, <1>5, <1>6, <1>9 DEF c

LEMMA ConsHeadTail ==
    ASSUME NEW S, NEW q \in Seq(S), q # <<>>
    PROVE  <<Head(q)>> \o Tail(q) = q
<1> DEFINE h == Head(q)
           t == Tail(q)
           c == <<h>> \o t
<1>1. /\ h \in S /\ h = q[1] /\ t \in Seq(S) /\ Len(t) = Len(q) - 1
      /\ \A i \in 1 .. Len(t) : t[i] = q[i + 1]
      /\ Len(q) \in Nat \ {0}
  BY HeadTailProperties, EmptySeq, LenProperties
<1> HIDE DEF h, t
<1>2. <<h>> \in Seq(S) /\ Len(<<h>>) = 1 /\ <<h>>[1] = h
  BY <1>1
<1>3. /\ c \in Seq(S) /\ Len(c) = 1 + Len(t)
      /\ \A i \in 1 .. 1 + Len(t) : c[i] = IF i <= 1 THEN <<h>>[i] ELSE t[i - 1]
  BY <1>1, <1>2, ConcatProperties
<1> HIDE DEF c
<1>4. Len(c) = Len(q)
  BY <1>1, <1>3
<1>5. \A i \in 1 .. Len(q) : c[i] = q[i]
  <2> SUFFICES ASSUME NEW i \in 1 .. Len(q) PROVE c[i] = q[i]
    OBVIOUS
  <2>1. CASE i = 1
    BY <1>1, <1>2, <1>3, <2>1
  <2>2. CASE i # 1
    <3>1. i - 1 \in 1 .. Len(t) /\ i \in 1 .. 1 + Len(t) /\ ~(i <= 1) /\ (i - 1) + 1 = i
      BY <1>1, <2>2
    <3> QED
      BY <1>1, <1>3, <3>1
  <2> QED
    BY <2>1, <2>2
<1> QED
  BY <1>3, <1>4, <1>5, SeqEqual DEF c, h, t

LEMMA ConcatAppend ==
    ASSUME NEW S, NEW p \in Seq(S), NEW q \in Seq(S), NEW e \in S
    PROVE  p \o Append(q, e) = Append(p \o q, e)
<1>1. p \o q \in Seq(S) /\ <<e>> \in Seq(S)
  BY ConcatProperties
<1>2. Append(q, e) = q \o <<e>> /\ Append(p \o q, e) = (p \o q) \o <<e>>
  BY <1>1, AppendIsConcat
<1> QED
  BY <1>1, <1>2, ConcatAssociative

-----------------------------------------------------------------------------
(* One deque, one server.                                                  *)

LEMMA FifoNext ==
    ASSUME OnlyFifo, TypeOK, FifoInv, [Next]_vars
    PROVE  FifoInv'
<1> USE DEF config, pool, stats, flags, caller, worker, owner, app
<1>0. cfg.mode = "FIFO" /\ 0 \in Workers
  BY NumThreadsAssumption DEF OnlyFifo, TypeOK, Workers
<1>1. ASSUME UNCHANGED <<queues, idx>>,
             \A w \in Workers : wpc'[w] \in {"steal", "uncount", "callbacks"}
                                   => wpc[w] \in {"uncount", "callbacks"} /\ wpc'[w] # "steal"
      PROVE  FifoInv'
  BY <1>1 DEF FifoInv
<1>2. CASE \/ UNCHANGED vars
           \/ \E t \in Tasks : Cancel(t)
           \/ \E c \in Configs : UpdateConfig(c)
           \/ GetDroppedCount
           \/ DtorStop \/ DtorDrained \/ DtorTimeout \/ DtorJoin
  <2>1. UNCHANGED <<queues, idx, wpc>>
    BY <1>2 DEF vars, Cancel, UpdateConfig, GetDroppedCount, DtorStop, DtorDrained,
       DtorTimeout, DtorJoin
  <2> QED
    BY <2>1 DEF FifoInv
<1>3. ASSUME NEW s \in Submitters, NEW t \in Tasks, NEW k \in Kinds,
             NEW cancelled \in BOOLEAN, NEW expired \in BOOLEAN,
             Call(s, t, k, cancelled, expired)
      PROVE  FifoInv'
  <2>1. UNCHANGED <<queues, idx, wpc>>
    BY <1>3 DEF Call
  <2> QED
    BY <2>1 DEF FifoInv
<1>4. CASE DtorWake
  BY <1>1, <1>4 DEF DtorWake, Woken, FifoInv
<1>5. ASSUME NEW s \in Submitters, SubmitDrop(s) \/ SubmitLoad(s) \/ SubmitCount(s)
      PROVE  FifoInv'
  <2>1. UNCHANGED <<queues, idx, wpc>>
    BY <1>5 DEF SubmitDrop, SubmitLoad, SubmitCount
  <2> QED
    BY <2>1 DEF FifoInv
<1>14. ASSUME NEW s \in Submitters, SubmitUndefined(s) PROVE FALSE
  BY <1>0, <1>14 DEF SubmitUndefined, OutOfRange
<1>6. ASSUME NEW s \in Submitters, SubmitIndex(s) PROVE FifoInv'
  <2>1. idx' = [idx EXCEPT ![s] = 0] /\ UNCHANGED <<queues, wpc>>
    BY <1>0, <1>6 DEF SubmitIndex
  <2> QED
    BY <2>1 DEF FifoInv, TypeOK
<1>7. ASSUME NEW s \in Submitters, SubmitPush(s) PROVE FifoInv'
  <2>1. \E q : queues' = [queues EXCEPT ![0] = q]
    BY <1>7 DEF SubmitPush, FifoInv
  <2>2. UNCHANGED <<idx, wpc>>
    BY <1>7 DEF SubmitPush
  <2> QED
    BY <2>1, <2>2 DEF FifoInv, TypeOK
<1>8. ASSUME NEW s \in Submitters, SubmitSignal(s) PROVE FifoInv'
  BY <1>1, <1>8 DEF SubmitSignal, Woken, FifoInv
<1>9. ASSUME NEW w \in Workers,
             \/ LoopTest(w) \/ WaitTest(w) \/ Wait(w) \/ SpuriousWakeup(w)
             \/ Uncount(w) \/ GlobalCallbacks(w) \/ HandleDrops(w) \/ Leave(w)
      PROVE  FifoInv'
  <2>1. UNCHANGED <<queues, idx>>
    BY <1>9 DEF LoopTest, WaitTest, Wait, SpuriousWakeup, Uncount, GlobalCallbacks,
       HandleDrops, Leave
  <2>2. \/ wpc' = [wpc EXCEPT ![w] = "callbacks"] /\ wpc[w] = "uncount"
        \/ \E pc \in WorkerPcs : /\ wpc' = [wpc EXCEPT ![w] = pc]
                                 /\ pc \notin {"steal", "uncount", "callbacks"}
    BY <1>9 DEF LoopTest, WaitTest, Wait, SpuriousWakeup, Uncount, GlobalCallbacks,
       HandleDrops, Leave, WorkerPcs
  <2> QED
    BY <2>1, <2>2 DEF FifoInv, TypeOK
<1>10. ASSUME NEW w \in Workers, PopOwn(w) PROVE FifoInv'
  <2>1. w = 0
    BY <1>10 DEF PopOwn, FifoInv
  <2>2. /\ queues' = [queues EXCEPT ![w] = Tail(@)]
        /\ wpc' = [wpc EXCEPT ![w] = "uncount"] /\ UNCHANGED idx
    BY <1>10 DEF PopOwn
  <2> QED
    BY <2>1, <2>2 DEF FifoInv, TypeOK
<1>11. ASSUME NEW w \in Workers, PopEmpty(w) PROVE FifoInv'
  <2>1. wpc' = [wpc EXCEPT ![w] = "sizes"] /\ UNCHANGED <<queues, idx>>
    BY <1>11 DEF PopEmpty
  <2> QED
    BY <2>1 DEF FifoInv, TypeOK
<1>15. ASSUME NEW w \in Workers, StealSizes(w) PROVE FifoInv'
  <2>1. wpc' = [wpc EXCEPT ![w] = "drops"] /\ UNCHANGED <<queues, idx>>
    BY <1>0, <1>15 DEF StealSizes
  <2> QED
    BY <2>1 DEF FifoInv, TypeOK
<1>16. ASSUME NEW w \in Workers, StealUndefined(w) PROVE FALSE
  BY <1>16 DEF StealUndefined, FifoInv
<1>12. ASSUME NEW w \in Workers, NEW vic \in Workers, StealBack(w, vic) \/ StealNothing(w, vic)
       PROVE  FifoInv'
  BY <1>12 DEF StealBack, StealNothing, FifoInv
<1>13. ASSUME NEW w \in Workers,
              NEW outcome \in {"none", "cancelled", "value", "exception"},
              Wrappers(w, outcome)
       PROVE  FifoInv'
  <2>1. wpc' = [wpc EXCEPT ![w] = "drops"] /\ UNCHANGED <<queues, idx>>
    BY <1>13 DEF Wrappers
  <2> QED
    BY <2>1 DEF FifoInv, TypeOK
<1> QED
  BY <1>2, <1>3, <1>4, <1>5, <1>6, <1>7, <1>8, <1>9, <1>10, <1>11, <1>12, <1>13,
     <1>14, <1>15, <1>16
  DEF Next, AppStep, SubmitStep, WorkerStep, DtorStep, Terminated

-----------------------------------------------------------------------------
(* Every step of the pool is a step of the queue.                          *)

Abstract == [Fifo!Next]_<<FifoPending, ran>>

LEMMA AcceptStep ==
    ASSUME TypeOK, FifoInv, NEW s \in Submitters, SubmitPush(s)
    PROVE  Abstract
<1> USE DEF config, pool, stats, flags, caller, worker, owner, app
<1> DEFINE t == item[s]
           q == queues[0]
           h == IF wpc[0] \in {"uncount", "callbacks"} THEN <<ti[0]>> ELSE <<>>
<1>0. 0 \in Workers
  BY NumThreadsAssumption DEF Workers
<1>1. /\ t \in Tasks /\ q \in Seq(Tasks)
      /\ queues'[0] = Append(q, t)
      /\ UNCHANGED <<wpc, ti, ran>>
  BY <1>0 DEF SubmitPush, PushBack, FifoInv, TypeOK
<1>2. h \in Seq(Tasks)
  BY <1>0 DEF TypeOK
<1>3. FifoPending = h \o q /\ FifoPending' = h \o Append(q, t)
  BY <1>1 DEF FifoPending
<1> HIDE DEF t, q, h
<1>4. FifoPending' = Append(FifoPending, t)
  BY <1>1, <1>2, <1>3, ConcatAppend
<1> QED
  BY <1>1, <1>4 DEF Abstract, Fifo!Next, Fifo!Accept

LEMMA ServeStep ==
    ASSUME TypeOK, FifoInv, NEW w \in Workers, GlobalCallbacks(w)
    PROVE  Abstract
<1> USE DEF config, pool, stats, flags, caller, worker, owner, app
<1> DEFINE t == ti[0]
           q == queues[0]
<1>1. w = 0 /\ wpc[0] = "callbacks" /\ t \in Tasks /\ q \in Seq(Tasks)
  BY DEF GlobalCallbacks, FifoInv, TypeOK
<1>2. /\ ran' = Append(ran, t) /\ wpc'[0] = "wrappers"
      /\ UNCHANGED queues
  BY <1>1 DEF GlobalCallbacks, TypeOK
<1>3. FifoPending = <<t>> \o q /\ FifoPending' = <<>> \o q
  BY <1>1, <1>2 DEF FifoPending
<1> HIDE DEF t, q
<1>4. <<>> \o q = q
  BY <1>1, ConcatEmptySeq
<1>5. FifoPending # <<>> /\ Head(FifoPending) = t /\ Tail(FifoPending) = FifoPending'
  BY <1>1, <1>3, <1>4, ConsFacts
<1> QED
  BY <1>2, <1>5 DEF Abstract, Fifo!Next, Fifo!Serve

(* Between the pop and the callbacks the task is still first in the queue. *)
LEMMA TakeStep ==
    ASSUME TypeOK, FifoInv, NEW w \in Workers, PopOwn(w)
    PROVE  Abstract
<1> USE DEF config, pool, stats, flags, caller, worker, owner, app
<1> DEFINE q == queues[0]
<1>1. w = 0 /\ wpc[0] = "pop" /\ q \in Seq(Tasks) /\ q # <<>>
  BY DEF PopOwn, FifoInv, TypeOK
<1>2. /\ ti'[0] = Head(q) /\ queues'[0] = Tail(q) /\ wpc'[0] = "uncount"
      /\ UNCHANGED ran
  BY <1>1 DEF PopOwn, TypeOK
<1>3. FifoPending = <<>> \o q /\ FifoPending' = <<Head(q)>> \o Tail(q)
  BY <1>1, <1>2 DEF FifoPending
<1> HIDE DEF q
<1>4. <<>> \o q = q /\ <<Head(q)>> \o Tail(q) = q
  BY <1>1, ConcatEmptySeq, ConsHeadTail
<1> QED
  BY <1>2, <1>3, <1>4 DEF Abstract

LEMMA StepSimulation ==
    ASSUME TypeOK, FifoInv, [Next]_vars
    PROVE  Abstract
<1> USE DEF config, pool, stats, flags, caller, worker, owner, app
<1>0. 0 \in Workers
  BY NumThreadsAssumption DEF Workers
<1>1. ASSUME UNCHANGED <<queues, ran>>,
             wpc'[0] \in {"uncount", "callbacks"} <=> wpc[0] \in {"uncount", "callbacks"},
             wpc[0] \in {"uncount", "callbacks"} => ti'[0] = ti[0]
      PROVE  Abstract
  <2>1. FifoPending' = FifoPending
    BY <1>1 DEF FifoPending
  <2> QED
    BY <1>1, <2>1 DEF Abstract
<1>2. CASE \/ UNCHANGED vars
           \/ \E t \in Tasks : Cancel(t)
           \/ \E c \in Configs : UpdateConfig(c)
           \/ GetDroppedCount
           \/ DtorStop \/ DtorDrained \/ DtorTimeout \/ DtorJoin
  <2>1. UNCHANGED <<queues, ran, wpc, ti>>
    BY <1>2 DEF vars, Cancel, UpdateConfig, GetDroppedCount, DtorStop, DtorDrained,
       DtorTimeout, DtorJoin
  <2> QED
    BY <1>1, <2>1
<1>3. ASSUME NEW s \in Submitters, NEW t \in Tasks, NEW k \in Kinds,
             NEW cancelled \in BOOLEAN, NEW expired \in BOOLEAN,
             Call(s, t, k, cancelled, expired)
      PROVE  Abstract
  <2>1. UNCHANGED <<queues, ran, wpc, ti>>
    BY <1>3 DEF Call
  <2> QED
    BY <1>1, <2>1
<1>4. CASE DtorWake
  BY <1>0, <1>1, <1>4 DEF DtorWake, Woken
<1>5. ASSUME NEW s \in Submitters,
             \/ SubmitDrop(s) \/ SubmitLoad(s) \/ SubmitIndex(s)
             \/ SubmitUndefined(s) \/ SubmitCount(s)
      PROVE  Abstract
  <2>1. UNCHANGED <<queues, ran, wpc, ti>>
    BY <1>5 DEF SubmitDrop, SubmitLoad, SubmitIndex, SubmitUndefined, SubmitCount
  <2> QED
    BY <1>1, <2>1
<1>6. ASSUME NEW s \in Submitters, SubmitSignal(s) PROVE Abstract
  BY <1>0, <1>1, <1>6 DEF SubmitSignal, Woken
<1>7. ASSUME NEW w \in Workers,
             \/ LoopTest(w) \/ WaitTest(w) \/ Wait(w) \/ SpuriousWakeup(w)
             \/ PopEmpty(w) \/ StealSizes(w) \/ StealUndefined(w)
             \/ Uncount(w) \/ HandleDrops(w) \/ Leave(w)
      PROVE  Abstract
  <2>1. UNCHANGED <<queues, ran, ti>>
    BY <1>7 DEF LoopTest, WaitTest, Wait, SpuriousWakeup, PopEmpty,
       StealSizes, StealUndefined, Uncount,
       HandleDrops, Leave
  <2>2. \/ wpc' = [wpc EXCEPT ![w] = "callbacks"] /\ wpc[w] = "uncount"
        \/ \E pc \in WorkerPcs : /\ wpc' = [wpc EXCEPT ![w] = pc]
                                 /\ pc \notin {"uncount", "callbacks"}
                                 /\ wpc[w] \notin {"uncount", "callbacks"}
    BY <1>7 DEF LoopTest, WaitTest, Wait, SpuriousWakeup, PopEmpty,
       StealSizes, StealUndefined, Uncount,
       HandleDrops, Leave, WorkerPcs
  <2> QED
    BY <1>0, <1>1, <2>1, <2>2 DEF TypeOK
<1>8. ASSUME NEW w \in Workers, NEW vic \in Workers, StealBack(w, vic) \/ StealNothing(w, vic)
      PROVE  Abstract
  BY <1>8 DEF StealBack, StealNothing, FifoInv
<1>9. ASSUME NEW w \in Workers,
             NEW outcome \in {"none", "cancelled", "value", "exception"},
             Wrappers(w, outcome)
      PROVE  Abstract
  <2>1. /\ UNCHANGED <<queues, ran>> /\ wpc[w] = "wrappers"
        /\ wpc' = [wpc EXCEPT ![w] = "drops"] /\ ti' = [ti EXCEPT ![w] = None]
    BY <1>9 DEF Wrappers
  <2> QED
    BY <1>0, <1>1, <2>1 DEF TypeOK
<1>10. ASSUME NEW s \in Submitters, SubmitPush(s) PROVE Abstract
  BY <1>10, AcceptStep
<1>11. ASSUME NEW w \in Workers, PopOwn(w) \/ GlobalCallbacks(w) PROVE Abstract
  BY <1>11, TakeStep, ServeStep
<1> QED
  BY <1>2, <1>3, <1>4, <1>5, <1>6, <1>7, <1>8, <1>9, <1>10, <1>11
  DEF Next, AppStep, SubmitStep, WorkerStep, DtorStep, Terminated

(* "FIFO: strict arrival order": however many workers are started, however *)
(* the submitters race and whatever else of cfg_ is changed meanwhile, the *)
(* callbacks see the tasks one by one in the order in which SubmitImpl     *)
(* pushed them: ProcessLoop and SubmitImpl implement a queue with one      *)
(* server.                                                                 *)
THEOREM FifoImplemented ==
    ASSUME OnlyFifo PROVE Spec => ImplementsFifo
<1>1. Init => FifoInv
  BY DEF Init, FifoInv
<1>2. TypeOK /\ FifoInv /\ [Next]_vars => FifoInv' /\ Abstract
  BY FifoNext, StepSimulation
<1>3. Init => Fifo!Init
  <2> SUFFICES ASSUME Init PROVE Fifo!Init
    OBVIOUS
  <2>0. 0 \in Workers
    BY NumThreadsAssumption DEF Workers
  <2>1. FifoPending = <<>> \o <<>> /\ ran = <<>>
    BY <2>0 DEF Init, FifoPending
  <2>2. <<>> \o <<>> = <<>>
    BY ConcatEmptySeq, EmptySeq
  <2> QED
    BY <2>1, <2>2 DEF Fifo!Init
<1> QED
  BY <1>1, <1>2, <1>3, TypeInit, TypeNext, PTL DEF Spec, ImplementsFifo, Fifo!Spec, Abstract
=============================================================================
