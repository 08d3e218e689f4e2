---------------------------- MODULE Server_proofs ----------------------------
(***************************************************************************)
(* Theorems about Server, for any ports, any number of connections and     *)
(* loops, and any number of calls.                                         *)
(***************************************************************************)
EXTENDS Server, SequenceTheorems, FiniteSetTheorems, TLAPS

Kinds == {"start", "stop", "drain", "undrain", "timeout", "error"}
Jobs  == {Job(k) : k \in Kinds} \cup {Accepted(c) : c \in Conns}

TypeInv ==
    /\ ports \in Seq(Ports) /\ starting \in Seq(Ports)
    /\ acceptors \in [Ports -> Nat]
    /\ shutting_down \in BOOLEAN
    /\ stopping \in {"none", "graceful", "force"}
    /\ loops \in Nat /\ loops + Len(starting) <= MaxLoops
    /\ port \in Seq(Ports) /\ Len(port) = loops
    /\ listening \in [Loops -> BOOLEAN]
    /\ stopped \in [Loops -> BOOLEAN]
    /\ draining \in [Loops -> BOOLEAN]
    /\ strand \in [Loops -> Seq(Jobs)]
    /\ accepting \in [Loops -> BOOLEAN]
    /\ timed \in [Loops -> BOOLEAN]
    /\ registering \in [Loops -> {0} \cup Conns]
    /\ conn \in [Conns -> {"new", "accepted", "running", "closing"}]
    /\ registry \subseteq Conns
    /\ late \in [Loops -> Nat]

(* A loop that was not created yet has no state.                           *)
Unborn(l) ==
    /\ ~stopped[l] /\ ~draining[l] /\ ~accepting[l] /\ ~timed[l]
    /\ registering[l] = 0 /\ strand[l] = <<>>

(* The loop of a port listens on that port until it is stopped.            *)
LoopInv ==
    /\ \A l \in Loops : l > loops => Unborn(l)
    /\ \A l \in 1 .. loops : listening[l] \/ stopped[l]
    /\ \A p \in Ports : acceptors[p] # 0 =>
           acceptors[p] \in 1 .. loops /\ port[acceptors[p]] = p

(* The jobs that go on accepting, and the handlers of an accept.           *)
Accepters == {"start", "error", "accepted"}
Handlers  == {"error", "accepted"}

Waits(s, ks) == \E j \in ToSet(s) : j.kind \in ks

OnlyOne(s) ==
    \A a, b \in DOMAIN s : s[a].kind \in Accepters /\ s[b].kind \in Accepters => a = b

(* A loop is in one place: it accepts, registers a session, or has one job *)
(* that goes on accepting.                                                 *)
TurnInv(l) ==
    /\ OnlyOne(strand[l])
    /\ accepting[l] => ~Waits(strand[l], Accepters) /\ registering[l] = 0
    /\ registering[l] # 0 => ~Waits(strand[l], Accepters)
    /\ stopped[l] => ~accepting[l] /\ registering[l] = 0
    /\ timed[l] => accepting[l] \/ Waits(strand[l], Handlers)
    /\ l <= loops => \/ stopped[l] \/ accepting[l] \/ registering[l] # 0
                     \/ Waits(strand[l], Accepters)

(* The first stop in a strand comes before any completed accept.           *)
StopFirst(s) ==
    \E i \in DOMAIN s : s[i].kind = "stop" /\ \A j \in 1 .. (i - 1) : s[j].kind # "accepted"

LateInv(l) ==
    /\ late[l] <= 1
    /\ late[l] # 0 => registering[l] = 0 /\ (stopped[l] \/ StopFirst(strand[l]))

(* The connections whose accept waits to be handled.                       *)
Completed(s) == {c \in Conns : Accepted(c) \in ToSet(s)}

(* A connection is in one place: with one loop, as an accept or a session  *)
(* to register, or in the registry, where it may stay when it has ended.   *)
ConnInv ==
    /\ \A l \in Loops : \A c \in Completed(strand[l]) :
           /\ conn[c] = "accepted"
           /\ \A k \in Loops : c \in Completed(strand[k]) => k = l
    /\ \A l \in Loops : registering[l] # 0 =>
           /\ conn[registering[l]] \in {"running", "new"}
           /\ registering[l] \notin registry
           /\ \A k \in Loops : registering[k] = registering[l] => k = l
    /\ \A c \in registry : conn[c] \in {"running", "closing", "new"}
    /\ \A c \in Conns : conn[c] = "running" =>
           c \in registry \/ \E l \in Loops : registering[l] = c

-----------------------------------------------------------------------------
(* What waits on a strand.                                                 *)

LEMMA JobFacts ==
    /\ \A k : Job(k).kind = k
    /\ \A c : Accepted(c).kind = "accepted" /\ Accepted(c).conn = c
    /\ \A k \in Kinds : Job(k) \in Jobs
    /\ \A c \in Conns : Accepted(c) \in Jobs
    /\ \A j \in Jobs : j.kind = "accepted" => j.conn \in Conns /\ j = Accepted(j.conn)
    /\ \A j \in Jobs : j.kind # "accepted" => j.conn = 0 /\ j = Job(j.kind)
<1>1. \A k \in Kinds : k # "accepted"
  BY DEF Kinds
<1>2. /\ \A k : Job(k).kind = k /\ Job(k).conn = 0
      /\ \A c : Accepted(c).kind = "accepted" /\ Accepted(c).conn = c
  BY DEF Job, Accepted
<1>3. ASSUME NEW j \in Jobs
      PROVE  /\ j.kind = "accepted" => j.conn \in Conns /\ j = Accepted(j.conn)
             /\ j.kind # "accepted" => j.conn = 0 /\ j = Job(j.kind)
  <2>1. CASE \E k \in Kinds : j = Job(k)
    BY <1>1, <1>2, <2>1
  <2>2. CASE \E c \in Conns : j = Accepted(c)
    BY <1>2, <2>2
  <2> QED
    BY <2>1, <2>2 DEF Jobs
<1>4. /\ \A k \in Kinds : Job(k) \in Jobs
      /\ \A c \in Conns : Accepted(c) \in Jobs
  BY DEF Jobs
<1> QED
  BY <1>2, <1>3, <1>4

LEMMA AppendSet ==
    ASSUME NEW S, NEW s \in Seq(S), NEW e \in S
    PROVE  ToSet(Append(s, e)) = ToSet(s) \cup {e}
<1> DEFINE t == Append(s, e)
<1>1. /\ DOMAIN s = 1 .. Len(s) /\ Len(s) \in Nat
      /\ DOMAIN t = 1 .. (Len(s) + 1)
  BY LenProperties, AppendProperties
<1>2. /\ \A i \in 1 .. Len(s) : t[i] = s[i]
      /\ t[Len(s) + 1] = e
  BY AppendProperties
<1> HIDE DEF t
<1>3. ASSUME NEW x \in ToSet(t) PROVE x \in ToSet(s) \cup {e}
  BY <1>1, <1>2, <1>3 DEF ToSet
<1>4. ASSUME NEW x \in ToSet(s) \cup {e} PROVE x \in ToSet(t)
  BY <1>1, <1>2, <1>4 DEF ToSet
<1> QED
  BY <1>3, <1>4 DEF t

LEMMA TailSet ==
    ASSUME NEW S, NEW s \in Seq(S), s # <<>>
    PROVE  /\ ToSet(s) = {Head(s)} \cup ToSet(Tail(s))
           /\ Head(s) = s[1] /\ Len(s) \in Nat \ {0}
           /\ DOMAIN s = 1 .. Len(s) /\ DOMAIN Tail(s) = 1 .. (Len(s) - 1)
           /\ \A i \in 1 .. (Len(s) - 1) : Tail(s)[i] = s[i + 1]
           /\ \A i \in 2 .. Len(s) : s[i] = Tail(s)[i - 1]
<1> DEFINE t == Tail(s)
<1>1. /\ DOMAIN s = 1 .. Len(s) /\ Len(s) \in Nat \ {0}
      /\ t \in Seq(S) /\ Len(t) = Len(s) - 1
      /\ \A i \in 1 .. Len(t) : t[i] = s[i + 1]
  BY LenProperties, EmptySeq, HeadTailProperties
<1>2. DOMAIN t = 1 .. (Len(s) - 1)
  BY <1>1, LenProperties
<1>3. Head(s) = s[1]
  OBVIOUS
<1> HIDE DEF t
<1>4. \A i \in 2 .. Len(s) : s[i] = t[i - 1]
  BY <1>1
<1>5. ASSUME NEW x \in ToSet(s) PROVE x \in {s[1]} \cup ToSet(t)
  <2>1. PICK i \in 1 .. Len(s) : x = s[i]
    BY <1>1, <1>5 DEF ToSet
  <2>2. CASE i = 1
    BY <2>1, <2>2
  <2>3. CASE i # 1
    BY <1>1, <1>2, <1>4, <2>1, <2>3 DEF ToSet
  <2> QED
    BY <2>2, <2>3
<1>6. ASSUME NEW x \in {s[1]} \cup ToSet(t) PROVE x \in ToSet(s)
  BY <1>1, <1>2, <1>6 DEF ToSet
<1> QED
  BY <1>1, <1>2, <1>3, <1>4, <1>5, <1>6 DEF t

LEMMA EmptySet == ToSet(<<>>) = {}
<1>1. DOMAIN <<>> = {}
  OBVIOUS
<1> QED
  BY <1>1 DEF ToSet

(* An accept, or a job that leads to one, is queued where there is none.   *)
LEMMA OnlyOneAppend ==
    ASSUME NEW s \in Seq(Jobs), NEW e \in Jobs, OnlyOne(s),
           e.kind \in Accepters => ~Waits(s, Accepters)
    PROVE  OnlyOne(Append(s, e))
<1> DEFINE t == Append(s, e)
<1>1. /\ DOMAIN s = 1 .. Len(s) /\ Len(s) \in Nat
      /\ DOMAIN t = 1 .. (Len(s) + 1)
  BY LenProperties, AppendProperties
<1>2. /\ \A i \in 1 .. Len(s) : t[i] = s[i]
      /\ t[Len(s) + 1] = e
  BY AppendProperties
<1> HIDE DEF t
<1>3. e.kind \in Accepters => \A i \in 1 .. Len(s) : s[i].kind \notin Accepters
  BY <1>1 DEF Waits, ToSet
<1>4. SUFFICES ASSUME NEW a \in DOMAIN t, NEW b \in DOMAIN t,
                      t[a].kind \in Accepters, t[b].kind \in Accepters
               PROVE  a = b
  BY DEF OnlyOne, t
<1>5. CASE a \in 1 .. Len(s) /\ b \in 1 .. Len(s)
  BY <1>1, <1>2, <1>4, <1>5 DEF OnlyOne
<1>6. CASE a = Len(s) + 1 \/ b = Len(s) + 1
  BY <1>1, <1>2, <1>3, <1>4, <1>6
<1> QED
  BY <1>1, <1>5, <1>6

(* When the one job that goes on accepting is taken, none is left.         *)
LEMMA OnlyOneTail ==
    ASSUME NEW s \in Seq(Jobs), s # <<>>, OnlyOne(s)
    PROVE  /\ OnlyOne(Tail(s))
           /\ Head(s).kind \in Accepters => ~Waits(Tail(s), Accepters)
<1> DEFINE t == Tail(s)
<1>1. /\ DOMAIN s = 1 .. Len(s) /\ DOMAIN t = 1 .. (Len(s) - 1)
      /\ Len(s) \in Nat \ {0} /\ Head(s) = s[1]
      /\ \A i \in 1 .. (Len(s) - 1) : t[i] = s[i + 1]
  BY TailSet
<1> HIDE DEF t
<1>2. OnlyOne(t)
  BY <1>1 DEF OnlyOne
<1>3. ASSUME s[1].kind \in Accepters, Waits(t, Accepters) PROVE FALSE
  <2>1. PICK i \in 1 .. (Len(s) - 1) : t[i].kind \in Accepters
    BY <1>1, <1>3 DEF Waits, ToSet
  <2> QED
    BY <1>1, <1>3, <2>1 DEF OnlyOne
<1> QED
  BY <1>1, <1>2, <1>3 DEF t

-----------------------------------------------------------------------------
(* Types.                                                                  *)

LEMMA TypeInit == Init => TypeInv
<1> SUFFICES ASSUME Init PROVE TypeInv
  OBVIOUS
<1>1. <<>> \in Seq(Ports) /\ <<>> \in Seq(Jobs) /\ Len(<<>>) = 0
  BY EmptySeq
<1>2. MaxLoops \in Nat /\ MaxConns \in Nat
  BY ServerAssumption
<1>3. /\ acceptors \in [Ports -> Nat] /\ late \in [Loops -> Nat]
      /\ loops \in Nat /\ loops + Len(starting) <= MaxLoops
  BY <1>1, <1>2 DEF Init
<1>4. /\ ports = <<>> /\ starting = <<>> /\ port = <<>> /\ loops = 0
      /\ shutting_down = FALSE /\ stopping = "none" /\ registry = {}
  BY Zenon DEF Init
<1>5. /\ listening \in [Loops -> BOOLEAN]
      /\ stopped \in [Loops -> BOOLEAN]
      /\ draining \in [Loops -> BOOLEAN]
      /\ accepting \in [Loops -> BOOLEAN]
      /\ timed \in [Loops -> BOOLEAN]
      /\ registering \in [Loops -> {0} \cup Conns]
  BY DEF Init
<1>6. conn \in [Conns -> {"new", "accepted", "running", "closing"}]
  BY DEF Init
<1>7. strand \in [Loops -> Seq(Jobs)]
  BY <1>1 DEF Init
<1> QED
  BY <1>1, <1>3, <1>4, <1>5, <1>6, <1>7, Zenon DEF TypeInv

LEMMA EraseType ==
    ASSUME NEW p, ports \in Seq(Ports), Erase(p)
    PROVE  ports' \in Seq(Ports)
<1> DEFINE kept == {i \in DOMAIN ports : ports[i] # p}
<1>1. /\ DOMAIN ports = 1 .. Len(ports) /\ Len(ports) \in Nat
      /\ \A i \in kept : ports[i] \in Ports
  BY LenProperties, ElementOfSeq
<1>2. IsFiniteSet(kept)
  <2>1. kept \subseteq 1 .. Len(ports)
    BY <1>1
  <2>2. IsFiniteSet(1 .. Len(ports))
    BY <1>1, FS_Interval
  <2> QED
    BY <2>1, <2>2, FS_Subset
<1>3. Cardinality(kept) \in Nat
  BY <1>2, FS_CardinalityType
<1>4. PICK f \in [1 .. Cardinality(kept) -> kept] :
         ports' = [i \in DOMAIN f |-> ports[f[i]]]
  BY DEF Erase
<1>5. ports' \in [1 .. Cardinality(kept) -> Ports]
  BY <1>1, <1>4
<1> QED
  BY <1>3, <1>5, SeqDef

(* What a strand has left to run, and what is queued on it.                *)
LEMMA StrandType ==
    ASSUME TypeInv
    PROVE  /\ \A l \in Loops : strand[l] # <<>> =>
                  Head(strand[l]) \in Jobs /\ Rest(l) \in Seq(Jobs)
           /\ \A l \in Loops, e \in Jobs : Append(strand[l], e) \in Seq(Jobs)
           /\ \A l \in Loops : strand[l] # <<>> =>
                  Cancelled(l, Rest(l)) \in Seq(Jobs)
           /\ LambdasOfStart \in Seq(Jobs)
<1> USE DEF TypeInv
<1>1. ASSUME NEW l \in Loops, strand[l] # <<>>
      PROVE  Head(strand[l]) \in Jobs /\ Rest(l) \in Seq(Jobs)
  BY <1>1, HeadTailProperties DEF Rest
<1>2. \A l \in Loops, e \in Jobs : Append(strand[l], e) \in Seq(Jobs)
  BY AppendProperties
<1>3. Job("error") \in Jobs /\ Job("drain") \in Jobs /\ Job("start") \in Jobs
  BY JobFacts DEF Kinds
<1>4. ASSUME NEW l \in Loops, strand[l] # <<>>
      PROVE  Cancelled(l, Rest(l)) \in Seq(Jobs)
  <2>1. Append(Rest(l), Job("error")) \in Seq(Jobs)
    BY <1>1, <1>3, <1>4, AppendProperties
  <2> QED
    BY <1>1, <1>4, <2>1 DEF Cancelled
<1>5. LambdasOfStart \in Seq(Jobs)
  <2> HIDE DEF TypeInv
  <2> DEFINE d == Job("drain")
             b == Job("start")
  <2>1. d \in Jobs /\ b \in Jobs
    BY <1>3
  <2>2. LambdasOfStart = (IF shutting_down THEN <<d>> ELSE <<>>) \o <<b>>
    BY DEF LambdasOfStart
  <2> HIDE DEF d, b
  <2>3. <<d>> \in Seq(Jobs) /\ <<b>> \in Seq(Jobs) /\ <<>> \in Seq(Jobs)
    BY <2>1
  <2>4. (IF shutting_down THEN <<d>> ELSE <<>>) \in Seq(Jobs)
    BY <2>3
  <2> QED
    BY <2>2, <2>3, <2>4, ConcatProperties
<1> QED
  BY <1>1, <1>2, <1>4, <1>5

LEMMA DispatchedType ==
    ASSUME TypeInv, NEW ls, NEW k \in Kinds
    PROVE  Dispatched(ls, k) \in [Loops -> Seq(Jobs)]
<1>1. Job(k) \in Jobs
  BY JobFacts
<1> QED
  BY <1>1, StrandType DEF Dispatched, TypeInv

LEMMA TypeNext == TypeInv /\ [Next]_vars => TypeInv'
<1> SUFFICES ASSUME TypeInv, [Next]_vars PROVE TypeInv'
  OBVIOUS
<1> USE DEF server, loop, accepts, session, history, bounds
<1>1. ASSUME NEW p \in Ports, AddPort(p) PROVE TypeInv'
  <2>1. ports' \in Seq(Ports)
    BY <1>1, AppendProperties DEF AddPort, TypeInv
  <2> QED
    BY <1>1, <2>1 DEF AddPort, TypeInv
<1>2. ASSUME NEW p \in Ports, RemovePort(p) PROVE TypeInv'
  <2>1. ports' \in Seq(Ports)
    BY <1>2, EraseType DEF RemovePort, TypeInv
  <2>2. strand' \in [Loops -> Seq(Jobs)]
    BY <1>2, DispatchedType DEF RemovePort, Kinds
  <2>3. acceptors' \in [Ports -> Nat]
    BY <1>2 DEF RemovePort, TypeInv
  <2> QED
    BY <1>2, <2>1, <2>2, <2>3 DEF RemovePort, TypeInv
<1>3. CASE Start \/ StartThrows
  <2>1. /\ starting' \in Seq(Ports) /\ loops + Len(starting') <= MaxLoops
        /\ loops' = loops
    <3>1. CASE Start
      BY <3>1 DEF Start, TypeInv
    <3>2. CASE StartThrows
      <4>1. <<>> \in Seq(Ports) /\ Len(<<>>) = 0 /\ Len(starting) \in Nat
        BY EmptySeq, LenProperties DEF TypeInv
      <4> QED
        BY <3>2, <4>1, ServerAssumption DEF StartThrows, TypeInv
    <3> QED
      BY <1>3, <3>1, <3>2
  <2> QED
    BY <1>3, <2>1 DEF Start, StartThrows, TypeInv
<1>4. CASE StartPort
  <2> DEFINE p == Head(starting)
             l == loops + 1
  <2>1. /\ starting # <<>> /\ starting' = Tail(starting) /\ loops' = l
        /\ port' = Append(port, p)
        /\ listening' = [listening EXCEPT ![l] = TRUE]
        /\ strand' = [strand EXCEPT ![l] = LambdasOfStart]
        /\ acceptors' = [acceptors EXCEPT ![p] = l]
        /\ UNCHANGED <<ports, shutting_down, stopping, stopped, draining, accepting,
                       timed, registering, conn, registry, late>>
    BY <1>4 DEF StartPort, Unlocked
  <2>2. /\ p \in Ports /\ starting' \in Seq(Ports)
        /\ Len(starting') = Len(starting) - 1 /\ Len(starting) \in Nat
    BY <2>1, HeadTailProperties, LenProperties DEF TypeInv
  <2>3. port' \in Seq(Ports) /\ Len(port') = loops + 1
    BY <2>1, <2>2, AppendProperties DEF TypeInv
  <2>4. loops' \in Nat /\ loops' + Len(starting') <= MaxLoops
    BY <2>1, <2>2, ServerAssumption DEF TypeInv
  <2>5. strand' \in [Loops -> Seq(Jobs)]
    BY <2>1, StrandType DEF TypeInv
  <2>6. acceptors' \in [Ports -> Nat]
    BY <2>1, <2>4 DEF TypeInv
  <2>7. listening' \in [Loops -> BOOLEAN]
    BY <2>1 DEF TypeInv
  <2> QED
    BY <2>1, <2>2, <2>3, <2>4, <2>5, <2>6, <2>7 DEF TypeInv
<1>5. ASSUME NEW enable \in BOOLEAN, EnableDrainingMode(enable) PROVE TypeInv'
  <2>1. strand' \in [Loops -> Seq(Jobs)]
    BY <1>5, DispatchedType DEF EnableDrainingMode, Kinds
  <2> QED
    BY <1>5, <2>1 DEF EnableDrainingMode, TypeInv
<1>6. ASSUME NEW force \in {"graceful", "force"}, Stop(force) PROVE TypeInv'
  <2>1. strand' \in [Loops -> Seq(Jobs)]
    BY <1>6, DispatchedType DEF Stop, Kinds
  <2> QED
    BY <1>6, <2>1 DEF Stop, TypeInv
<1>7. CASE StopDrain
  <2>1. /\ conn' \in [Conns -> {"new", "accepted", "running", "closing"}]
        /\ registry' \subseteq Conns /\ stopping' = "none"
    BY <1>7 DEF StopDrain, Drain, TypeInv
  <2> QED
    BY <1>7, <2>1 DEF StopDrain, TypeInv
<1>8. ASSUME NEW l \in Loops, RunStart(l) \/ AcceptError(l) PROVE TypeInv'
  <2>1. strand' \in [Loops -> Seq(Jobs)]
    BY <1>8, StrandType DEF RunStart, AcceptError, Runs, TypeInv
  <2>2. accepting' \in [Loops -> BOOLEAN] /\ timed' \in [Loops -> BOOLEAN]
    BY <1>8 DEF RunStart, AcceptError, DoAccept, TypeInv
  <2> QED
    BY <1>8, <2>1, <2>2 DEF RunStart, AcceptError, TypeInv
<1>9. ASSUME NEW l \in Loops, RunStop(l) PROVE TypeInv'
  <2>1. strand' \in [Loops -> Seq(Jobs)]
    BY <1>9, StrandType DEF RunStop, Runs, TypeInv
  <2>2. /\ stopped' \in [Loops -> BOOLEAN] /\ listening' \in [Loops -> BOOLEAN]
        /\ accepting' \in [Loops -> BOOLEAN]
    BY <1>9 DEF RunStop, TypeInv
  <2> QED
    BY <1>9, <2>1, <2>2 DEF RunStop, TypeInv
<1>10. ASSUME NEW l \in Loops, NEW enable \in BOOLEAN, RunDraining(l, enable)
       PROVE  TypeInv'
  <2>1. strand' \in [Loops -> Seq(Jobs)]
    BY <1>10, StrandType DEF RunDraining, Runs, TypeInv
  <2>2. draining' \in [Loops -> BOOLEAN]
    BY <1>10 DEF RunDraining, TypeInv
  <2> QED
    BY <1>10, <2>1, <2>2 DEF RunDraining, TypeInv
<1>11. ASSUME NEW l \in Loops, RunTimeout(l) PROVE TypeInv'
  <2>1. strand' \in [Loops -> Seq(Jobs)]
    BY <1>11, StrandType DEF RunTimeout, Runs, TypeInv
  <2>2. accepting' \in [Loops -> BOOLEAN]
    BY <1>11 DEF RunTimeout, TypeInv
  <2> QED
    BY <1>11, <2>1, <2>2 DEF RunTimeout, TypeInv
<1>12. ASSUME NEW l \in Loops, AcceptStopped(l) \/ AcceptRefused(l) PROVE TypeInv'
  <2>1. strand' \in [Loops -> Seq(Jobs)]
    BY <1>12, StrandType DEF AcceptStopped, AcceptRefused, Runs, TypeInv
  <2>2. accepting' \in [Loops -> BOOLEAN] /\ timed' \in [Loops -> BOOLEAN]
    BY <1>12 DEF AcceptStopped, AcceptRefused, DoAccept, TypeInv
  <2>3. conn' \in [Conns -> {"new", "accepted", "running", "closing"}]
    BY <1>12 DEF AcceptStopped, AcceptRefused, TypeInv
  <2> QED
    BY <1>12, <2>1, <2>2, <2>3 DEF AcceptStopped, AcceptRefused, TypeInv
<1>13. ASSUME NEW l \in Loops, CreateSession(l) PROVE TypeInv'
  <2>1. strand' \in [Loops -> Seq(Jobs)] /\ Head(strand[l]) \in Jobs
    BY <1>13, StrandType DEF CreateSession, Runs, TypeInv
  <2>2. Head(strand[l]).conn \in Conns
    BY <1>13, <2>1, JobFacts DEF CreateSession, Runs
  <2>3. /\ timed' \in [Loops -> BOOLEAN]
        /\ registering' \in [Loops -> {0} \cup Conns]
        /\ conn' \in [Conns -> {"new", "accepted", "running", "closing"}]
    BY <1>13, <2>2 DEF CreateSession, OnSessionAccepted, TypeInv
  <2> QED
    BY <1>13, <2>1, <2>3 DEF CreateSession, TypeInv
<1>14. ASSUME NEW l \in Loops, RegisterSession(l) PROVE TypeInv'
  <2>1. accepting' \in [Loops -> BOOLEAN] /\ timed' \in [Loops -> BOOLEAN]
    BY <1>14 DEF RegisterSession, DoAccept, TypeInv
  <2>2. registering' \in [Loops -> {0} \cup Conns] /\ registry' \subseteq Conns
    BY <1>14 DEF RegisterSession, AddSession, TypeInv
  <2>3. late' \in [Loops -> Nat]
    BY <1>14 DEF RegisterSession, TypeInv
  <2> QED
    BY <1>14, <2>1, <2>2, <2>3 DEF RegisterSession, TypeInv
<1>15. ASSUME NEW l \in Loops, NEW c \in Conns, Connect(l, c) PROVE TypeInv'
  <2>1. strand' \in [Loops -> Seq(Jobs)]
    BY <1>15, StrandType, JobFacts DEF Connect, TypeInv
  <2>2. /\ accepting' \in [Loops -> BOOLEAN]
        /\ conn' \in [Conns -> {"new", "accepted", "running", "closing"}]
    BY <1>15 DEF Connect, TypeInv
  <2> QED
    BY <1>15, <2>1, <2>2 DEF Connect, TypeInv
<1>16. ASSUME NEW l \in Loops, AcceptFails(l) \/ TimerExpires(l) PROVE TypeInv'
  <2>1. strand' \in [Loops -> Seq(Jobs)]
    <3>1. Job("error") \in Jobs /\ Job("timeout") \in Jobs
      BY JobFacts DEF Kinds
    <3>2. PICK e \in Jobs : strand' = [strand EXCEPT ![l] = Append(@, e)]
      BY <1>16, <3>1 DEF AcceptFails, TimerExpires
    <3>3. Append(strand[l], e) \in Seq(Jobs)
      BY StrandType
    <3> QED
      BY <3>2, <3>3 DEF TypeInv
  <2>2. accepting' \in [Loops -> BOOLEAN] /\ timed' \in [Loops -> BOOLEAN]
    BY <1>16 DEF AcceptFails, TimerExpires, TypeInv
  <2> QED
    BY <1>16, <2>1, <2>2 DEF AcceptFails, TimerExpires, TypeInv
<1>17. ASSUME NEW c \in Conns, Disconnect(c) \/ SessionCloses(c) PROVE TypeInv'
  <2>1. /\ conn' \in [Conns -> {"new", "accepted", "running", "closing"}]
        /\ registry' \subseteq Conns
    BY <1>17 DEF Disconnect, OnDisconnect, RemoveSession, SessionCloses, TypeInv
  <2> QED
    BY <1>17, <2>1 DEF Disconnect, SessionCloses, TypeInv
<1>18. CASE SendResponse \/ \E c \in Conns : RouteMessage(c)
  BY <1>18 DEF SendResponse, RouteMessage, Dispatch, TypeInv
<1>19. CASE UNCHANGED vars
  BY <1>19 DEF vars, TypeInv
<1> QED
  BY <1>1, <1>2, <1>3, <1>4, <1>5, <1>6, <1>7, <1>8, <1>9, <1>10, <1>11, <1>12,
     <1>13, <1>14, <1>15, <1>16, <1>17, <1>18, <1>19
  DEF Next, Running, Strand

(* Every variable of the server keeps its type: among others, Start never  *)
(* makes a loop beyond the ones there are, and every job of a strand is    *)
(* one its loop knows.                                                     *)
THEOREM TypeCorrect == Spec => []TypeInv
BY TypeInit, TypeNext, PTL DEF Spec

-----------------------------------------------------------------------------
(* Which steps change what of a loop.                                      *)

(* A step of one loop: of its strand, its acceptor or its timer.           *)
LoopStep(l) ==
    Strand(l) \/ AcceptFails(l) \/ TimerExpires(l) \/ \E c \in Conns : Connect(l, c)

(* A step that leaves loop k alone.                                        *)
Same(k) ==
    /\ strand'[k] = strand[k] /\ accepting'[k] = accepting[k]
    /\ timed'[k] = timed[k] /\ registering'[k] = registering[k]
    /\ stopped'[k] = stopped[k] /\ draining'[k] = draining[k]
    /\ late'[k] = late[k]

Quiet == UNCHANGED <<acceptors, shutting_down, loop, accepts, late>>

(* A call that only dispatches to loops.                                   *)
Signal(ls, k) ==
    /\ ls \subseteq Current
    /\ strand' = Dispatched(ls, k)
    /\ UNCHANGED <<loop, accepting, timed, registering, session, late>>

Calls ==
    \/ \E p \in Ports : RemovePort(p)
    \/ \E enable \in BOOLEAN : EnableDrainingMode(enable)
    \/ \E force \in {"graceful", "force"} : Stop(force)

LEMMA NextSplit ==
    ASSUME [Next]_vars
    PROVE  Quiet \/ Calls \/ StartPort \/ \E l \in Loops : LoopStep(l)
<1> USE DEF server, loop, accepts, session, history, bounds
<1>1. CASE UNCHANGED vars
  BY <1>1 DEF vars, Quiet
<1>2. CASE \/ Start \/ StartThrows \/ StopDrain \/ SendResponse
           \/ \E p \in Ports : AddPort(p)
           \/ \E c \in Conns : Disconnect(c) \/ SessionCloses(c) \/ RouteMessage(c)
  BY <1>2 DEF Start, StartThrows, StopDrain, SendResponse, AddPort, Disconnect,
     SessionCloses, RouteMessage, Dispatch, Quiet
<1> QED
  BY <1>1, <1>2 DEF Next, Running, Calls, LoopStep

LEMMA CallSignals ==
    ASSUME Calls, TypeInv
    PROVE  \E ls \in SUBSET Current, k \in {"stop", "drain", "undrain"} : Signal(ls, k)
<1> USE DEF server, loop, accepts, session, history, bounds
<1>1. ASSUME NEW p \in Ports, RemovePort(p) PROVE Signal({acceptors[p]} \ {0}, "stop")
  BY <1>1 DEF RemovePort, Signal, Current
<1>2. ASSUME NEW enable \in BOOLEAN, EnableDrainingMode(enable)
      PROVE  Signal(Current, IF enable THEN "drain" ELSE "undrain")
  BY <1>2 DEF EnableDrainingMode, Signal
<1>3. ASSUME NEW force, Stop(force) PROVE Signal(Current, "stop")
  BY <1>3 DEF Stop, Signal
<1>4. ASSUME NEW ls, NEW k, Signal(ls, k) PROVE ls \in SUBSET Current
  BY <1>4 DEF Signal
<1> QED
  BY <1>1, <1>2, <1>3, <1>4 DEF Calls

(* A call leaves a loop alone, or appends one job to its strand.           *)
LEMMA SignalEffect ==
    ASSUME NEW ls, NEW k, Signal(ls, k)
    PROVE  \A l \in Loops :
               /\ strand'[l] = IF l \in ls THEN Append(strand[l], Job(k)) ELSE strand[l]
               /\ accepting'[l] = accepting[l] /\ timed'[l] = timed[l]
               /\ registering'[l] = registering[l] /\ stopped'[l] = stopped[l]
               /\ draining'[l] = draining[l] /\ late'[l] = late[l]
BY DEF Signal, Dispatched, loop

(* A loop's step changes no other loop.                                    *)
LEMMA StepIsLocal ==
    ASSUME TypeInv, NEW l \in Loops, LoopStep(l)
    PROVE  /\ UNCHANGED <<acceptors, shutting_down, loops, port>>
           /\ ~Unborn(l)
           /\ \A k \in Loops : k # l => Same(k)
           /\ \A k \in Loops : /\ stopped[k] => stopped'[k]
                               /\ listening[k] => listening'[k] \/ stopped'[k]
<1> USE DEF server, loop, accepts, session, history, bounds, TypeInv
<1>1. CASE RunStart(l) \/ AcceptError(l)
  BY <1>1 DEF RunStart, AcceptError, Runs, DoAccept, Unborn, Same
<1>2. CASE RunStop(l)
  BY <1>2 DEF RunStop, Runs, Unborn, Same
<1>3. CASE RunTimeout(l)
  BY <1>3 DEF RunTimeout, Runs, Unborn, Same
<1>4. CASE \E enable \in BOOLEAN : RunDraining(l, enable)
  BY <1>4 DEF RunDraining, Runs, Unborn, Same
<1>5. CASE AcceptStopped(l) \/ AcceptRefused(l)
  BY <1>5 DEF AcceptStopped, AcceptRefused, Runs, DoAccept, Unborn, Same
<1>6. CASE CreateSession(l)
  BY <1>6 DEF CreateSession, OnSessionAccepted, Runs, Unborn, Same
<1>7. CASE RegisterSession(l)
  BY <1>7 DEF RegisterSession, DoAccept, Unborn, Same
<1>8. CASE AcceptFails(l) \/ TimerExpires(l) \/ \E c \in Conns : Connect(l, c)
  BY <1>8 DEF AcceptFails, TimerExpires, Connect, Unborn, Same
<1> QED
  BY <1>1, <1>2, <1>3, <1>4, <1>5, <1>6, <1>7, <1>8 DEF LoopStep, Strand

(* What the loop that StartPort makes begins with.                         *)
LEMMA StartPortEffect ==
    ASSUME TypeInv, StartPort
    PROVE  /\ loops + 1 \in Loops /\ loops' = loops + 1
           /\ Head(starting) \in Ports /\ Bindable(Head(starting))
           /\ port' = Append(port, Head(starting))
           /\ listening' = [listening EXCEPT ![loops + 1] = TRUE]
           /\ acceptors' = [acceptors EXCEPT ![Head(starting)] = loops + 1]
           /\ strand' = [strand EXCEPT ![loops + 1] = LambdasOfStart]
           /\ UNCHANGED <<shutting_down, stopped, draining, accepting, timed,
                          registering, conn, registry, late>>
<1>1. starting # <<>>
  BY DEF StartPort, Unlocked
<1>2. Head(starting) \in Ports /\ Len(starting) \in Nat \ {0}
  BY <1>1, HeadTailProperties, EmptySeq DEF TypeInv
<1>3. loops + 1 \in Loops
  BY <1>2, ServerAssumption DEF TypeInv, Loops
<1> QED
  BY <1>2, <1>3 DEF StartPort, session, history

-----------------------------------------------------------------------------
(* The loops and the ports.                                                *)

LEMMA LoopNext == TypeInv /\ LoopInv /\ [Next]_vars => LoopInv'
<1> SUFFICES ASSUME TypeInv, LoopInv, [Next]_vars PROVE LoopInv'
  OBVIOUS
<1> USE DEF loop, accepts
<1>0. /\ MaxLoops \in Nat /\ loops \in Nat /\ loops <= MaxLoops
      /\ Len(port) = loops /\ port \in Seq(Ports)
  BY ServerAssumption, LenProperties DEF TypeInv
<1>1. CASE Quiet
  BY <1>1 DEF Quiet, LoopInv, Unborn
<1>2. CASE Calls
  <2>1. PICK ls \in SUBSET Current, k \in {"stop", "drain", "undrain"} : Signal(ls, k)
    BY <1>2, CallSignals
  <2>2. \A l \in ls : l \in 1 .. loops
    BY DEF Current, LoopInv
  <2>3. \A l \in Loops : l > loops => Unborn(l)'
    <3> SUFFICES ASSUME NEW l \in Loops, l > loops PROVE Unborn(l)'
      OBVIOUS
    <3>1. l \notin ls /\ Unborn(l)
      BY <1>0, <2>2 DEF LoopInv
    <3> QED
      BY <2>1, <3>1, SignalEffect DEF Unborn
  <2>4. \A p \in Ports : acceptors'[p] \in {0, acceptors[p]}
    BY <1>2 DEF Calls, RemovePort, EnableDrainingMode, Stop, TypeInv
  <2>5. UNCHANGED <<loops, port, listening, stopped>>
    BY <2>1 DEF Signal
  <2> QED
    BY <2>3, <2>4, <2>5 DEF LoopInv
<1>3. CASE StartPort
  <2> DEFINE p == Head(starting)
             n == loops + 1
  <2>1. /\ n \in Loops /\ loops' = n /\ p \in Ports
        /\ port' = Append(port, p)
        /\ listening' = [listening EXCEPT ![n] = TRUE]
        /\ acceptors' = [acceptors EXCEPT ![p] = n]
        /\ strand' = [strand EXCEPT ![n] = LambdasOfStart]
        /\ UNCHANGED <<stopped, draining, accepting, timed, registering>>
    BY <1>3, StartPortEffect
  <2>2. \A l \in Loops : l > n => Unborn(l)'
    <3> SUFFICES ASSUME NEW l \in Loops, l > n PROVE Unborn(l)'
      OBVIOUS
    <3>1. l # n /\ l > loops
      BY <1>0 DEF Loops
    <3> QED
      BY <2>1, <3>1 DEF LoopInv, Unborn, TypeInv
  <2>3. \A l \in 1 .. n : listening'[l] \/ stopped'[l]
    <3> SUFFICES ASSUME NEW l \in 1 .. n PROVE listening'[l] \/ stopped'[l]
      OBVIOUS
    <3>1. CASE l = n
      BY <2>1, <3>1 DEF TypeInv
    <3>2. CASE l # n
      <4>1. l \in 1 .. loops /\ l \in Loops
        BY <1>0, <3>2 DEF Loops
      <4> QED
        BY <2>1, <3>2, <4>1 DEF LoopInv, TypeInv
    <3> QED
      BY <3>1, <3>2
  <2>4. ASSUME NEW q \in Ports, acceptors'[q] # 0
        PROVE  acceptors'[q] \in 1 .. n /\ port'[acceptors'[q]] = q
    <3>1. /\ \A i \in 1 .. loops : port'[i] = port[i]
          /\ port'[n] = p
      BY <1>0, <2>1, AppendProperties
    <3>2. CASE q = p
      <4>1. acceptors'[q] = n
        BY <2>1, <3>2 DEF TypeInv
      <4> QED
        BY <1>0, <3>1, <3>2, <4>1
    <3>3. CASE q # p
      <4>1. acceptors'[q] = acceptors[q]
        BY <2>1, <3>3 DEF TypeInv
      <4>2. acceptors[q] \in 1 .. loops /\ port[acceptors[q]] = q
        BY <2>4, <4>1 DEF LoopInv
      <4> QED
        BY <1>0, <3>1, <4>1, <4>2
    <3> QED
      BY <3>2, <3>3
  <2> QED
    BY <2>1, <2>2, <2>3, <2>4 DEF LoopInv
<1>4. ASSUME NEW l \in Loops, LoopStep(l) PROVE LoopInv'
  <2>1. /\ UNCHANGED <<acceptors, loops, port>>
        /\ ~Unborn(l)
        /\ \A k \in Loops : k # l => Same(k)
        /\ \A k \in Loops : /\ stopped[k] => stopped'[k]
                            /\ listening[k] => listening'[k] \/ stopped'[k]
    BY <1>4, StepIsLocal
  <2>2. \A k \in Loops : k > loops => Unborn(k)'
    BY <2>1 DEF LoopInv, Unborn, Same
  <2>3. \A k \in 1 .. loops : k \in Loops
    BY <1>0 DEF Loops
  <2> QED
    BY <2>1, <2>2, <2>3 DEF LoopInv
<1> QED
  BY <1>1, <1>2, <1>3, <1>4, NextSplit

LEMMA StartJobs ==
    /\ shutting_down => LambdasOfStart = <<Job("drain"), Job("start")>>
    /\ ~shutting_down => LambdasOfStart = <<Job("start")>>
<1>1. ASSUME NEW d, NEW b PROVE <<d>> \o <<b>> = <<d, b>> /\ <<>> \o <<b>> = <<b>>
  <2>1. <<d>> \in Seq({d, b}) /\ <<b>> \in Seq({d, b})
    OBVIOUS
  <2>2. Append(<<d>>, b) = <<d, b>>
    <3>1. /\ Append(<<d>>, b) \in Seq({d, b}) /\ Len(Append(<<d>>, b)) = 2
          /\ Append(<<d>>, b)[1] = d /\ Append(<<d>>, b)[2] = b
      OBVIOUS
    <3>2. /\ <<d, b>> \in Seq({d, b}) /\ Len(<<d, b>>) = 2
          /\ <<d, b>>[1] = d /\ <<d, b>>[2] = b
      OBVIOUS
    <3>3. \A i \in 1 .. 2 : Append(<<d>>, b)[i] = <<d, b>>[i]
      BY <3>1, <3>2
    <3> QED
      BY <3>1, <3>2, <3>3, SeqEqual
  <2>3. Append(<<d>>, b) = <<d>> \o <<b>>
    BY <2>1, AppendIsConcat
  <2> QED
    BY <2>1, <2>2, <2>3, ConcatEmptySeq
<1>2. CASE shutting_down
  BY <1>1, <1>2, Zenon DEF LambdasOfStart
<1>3. CASE ~shutting_down
  BY <1>1, <1>3, Zenon DEF LambdasOfStart
<1> QED
  BY <1>2, <1>3

-----------------------------------------------------------------------------
(* Whose turn it is.                                                       *)

LEMMA WaitsAppend ==
    ASSUME NEW s \in Seq(Jobs), NEW e \in Jobs, NEW K
    PROVE  Waits(Append(s, e), K) <=> Waits(s, K) \/ e.kind \in K
BY AppendSet DEF Waits

LEMMA WaitsTail ==
    ASSUME NEW s \in Seq(Jobs), s # <<>>, NEW K
    PROVE  Waits(s, K) <=> Head(s).kind \in K \/ Waits(Tail(s), K)
BY TailSet DEF Waits

LEMMA TurnNext ==
    ASSUME TypeInv, LoopInv, [Next]_vars, \A l \in Loops : TurnInv(l)
    PROVE  \A l \in Loops : TurnInv(l)'
<1> USE DEF loop, accepts
<1>a. loops \in Nat /\ strand \in [Loops -> Seq(Jobs)]
  BY DEF TypeInv
<1>b. \A l \in Loops : l \in Nat
  BY ServerAssumption DEF Loops
<1>0. /\ loops \in Nat
      /\ \A l \in Loops : l \in Nat /\ strand[l] \in Seq(Jobs)
  BY <1>a, <1>b
<1>k. /\ \A k \in {"stop", "drain", "undrain", "timeout"} : k \notin Accepters
      /\ Handlers \subseteq Accepters
      /\ "error" \in Handlers /\ "accepted" \in Handlers /\ "start" \in Accepters
  BY DEF Accepters, Handlers
<1>1. ASSUME NEW l \in Loops, Same(l), loops' = loops PROVE TurnInv(l)'
  BY <1>1 DEF TurnInv, Same
<1>2. CASE Quiet
  BY <1>1, <1>2 DEF Quiet, Same
<1>3. CASE Calls
  <2>1. PICK ls \in SUBSET Current, k \in {"stop", "drain", "undrain"} : Signal(ls, k)
    BY <1>3, CallSignals
  <2>2. Job(k) \in Jobs /\ Job(k).kind \notin Accepters /\ Job(k).kind \notin Handlers
    BY <1>k, JobFacts DEF Kinds
  <2>3. loops' = loops
    BY <2>1 DEF Signal
  <2> SUFFICES ASSUME NEW l \in Loops PROVE TurnInv(l)'
    OBVIOUS
  <2>4. CASE l \notin ls
    BY <1>1, <2>1, <2>3, <2>4, SignalEffect DEF Same
  <2>5. CASE l \in ls
    <3>1. /\ strand'[l] = Append(strand[l], Job(k))
          /\ accepting'[l] = accepting[l] /\ timed'[l] = timed[l]
          /\ registering'[l] = registering[l] /\ stopped'[l] = stopped[l]
      BY <2>1, <2>5, SignalEffect
    <3>2. OnlyOne(strand'[l])
      BY <1>0, <2>2, <3>1, OnlyOneAppend DEF TurnInv
    <3>3. \A K \in {Accepters, Handlers} : Waits(strand'[l], K) <=> Waits(strand[l], K)
      BY <1>0, <2>2, <3>1, WaitsAppend
    <3> QED
      BY <2>3, <3>1, <3>2, <3>3 DEF TurnInv
  <2> QED
    BY <2>4, <2>5
<1>4. CASE StartPort
  <2>1. /\ loops + 1 \in Loops /\ loops' = loops + 1
        /\ strand' = [strand EXCEPT ![loops + 1] = LambdasOfStart]
        /\ UNCHANGED <<stopped, draining, accepting, timed, registering, late>>
    BY <1>4, StartPortEffect
  <2> SUFFICES ASSUME NEW l \in Loops PROVE TurnInv(l)'
    OBVIOUS
  <2>2. CASE l = loops + 1
    <3>1. Unborn(l) /\ strand'[l] = LambdasOfStart
      BY <1>0, <2>1, <2>2 DEF LoopInv, TypeInv
    <3>2. OnlyOne(LambdasOfStart) /\ Waits(LambdasOfStart, Accepters)
      <4> DEFINE d == Job("drain")
                 b == Job("start")
      <4>1. d.kind \notin Accepters /\ b.kind \in Accepters
        BY <1>k, JobFacts
      <4>3. LambdasOfStart = <<d, b>> \/ LambdasOfStart = <<b>>
        BY StartJobs
      <4> HIDE DEF d, b
      <4>4. OnlyOne(<<d, b>>) /\ Waits(<<d, b>>, Accepters)
        BY <4>1 DEF OnlyOne, Waits, ToSet
      <4>5. OnlyOne(<<b>>) /\ Waits(<<b>>, Accepters)
        BY <4>1 DEF OnlyOne, Waits, ToSet
      <4> QED
        BY <4>3, <4>4, <4>5
    <3> QED
      BY <2>1, <3>1, <3>2 DEF TurnInv, Unborn
  <2>3. CASE l # loops + 1
    <3>1. Same(l) /\ (l <= loops' => l <= loops)
      BY <1>0, <2>1, <2>3 DEF Same, TypeInv
    <3> QED
      BY <3>1 DEF TurnInv, Same
  <2> QED
    BY <2>2, <2>3
<1>5. ASSUME NEW l \in Loops, LoopStep(l) PROVE TurnInv(l)'
  <2> DEFINE s == strand[l]
  <2>1. loops' = loops
    BY <1>5, StepIsLocal
  <2>2. s \in Seq(Jobs) /\ TurnInv(l)
    BY <1>0
  <2>3. /\ stopped[l] \in BOOLEAN /\ stopped'[l] \in BOOLEAN /\ accepting[l] \in BOOLEAN
    BY TypeNext DEF TypeInv
  <2>e. Job("error") \in Jobs /\ Job("error").kind = "error"
        /\ Job("timeout") \in Jobs /\ Job("timeout").kind = "timeout"
    BY JobFacts DEF Kinds
  \* What is left of the strand when its first job is taken.
  <2>t. ASSUME NEW k, Runs(l, k)
        PROVE  /\ s # <<>> /\ Head(s) \in Jobs /\ Head(s).kind = k
               /\ registering[l] = 0 /\ Tail(s) \in Seq(Jobs) /\ OnlyOne(Tail(s))
               /\ k \in Accepters => ~Waits(Tail(s), Accepters)
               /\ \A K : Waits(s, K) <=> k \in K \/ Waits(Tail(s), K)
               /\ k \in Accepters => ~accepting[l]
               /\ ~Waits(Tail(s), Accepters) => ~Waits(Tail(s), Handlers)
    <3>1. s # <<>> /\ Head(s).kind = k /\ registering[l] = 0
      BY <2>t DEF Runs
    <3>2. Head(s) \in Jobs /\ Tail(s) \in Seq(Jobs)
      BY <2>2, <3>1, HeadTailProperties
    <3>3. OnlyOne(Tail(s)) /\ (k \in Accepters => ~Waits(Tail(s), Accepters))
      BY <2>2, <3>1, OnlyOneTail DEF TurnInv
    <3>4. \A K : Waits(s, K) <=> k \in K \/ Waits(Tail(s), K)
      BY <2>2, <3>1, WaitsTail
    <3>5. k \in Accepters => ~accepting[l]
      BY <2>2, <3>4 DEF TurnInv
    <3>6. ~Waits(Tail(s), Accepters) => ~Waits(Tail(s), Handlers)
      BY <1>k DEF Waits
    <3> QED
      BY <3>1, <3>2, <3>3, <3>4, <3>5, <3>6
  <2>4. CASE RunStart(l) \/ AcceptError(l) \/ AcceptRefused(l)
    <3>1. PICK k \in Accepters : Runs(l, k)
      BY <2>4, <1>k DEF RunStart, AcceptError, AcceptRefused
    <3>2. /\ strand'[l] = Tail(s) /\ accepting'[l] = ~stopped[l]
          /\ timed'[l] = ~stopped[l] /\ registering'[l] = registering[l]
          /\ stopped'[l] = stopped[l]
      BY <2>4 DEF RunStart, AcceptError, AcceptRefused, DoAccept, Rest, TypeInv
    <3> QED
      BY <2>1, <2>3, <2>t, <3>1, <3>2 DEF TurnInv
  <2>5. CASE RunStop(l) \/ RunTimeout(l)
    <3>1. PICK k \in {"stop", "timeout"} : Runs(l, k)
      BY <2>5 DEF RunStop, RunTimeout
    <3>2. /\ strand'[l] = Cancelled(l, Tail(s)) /\ accepting'[l] = FALSE
          /\ timed'[l] = timed[l] /\ registering'[l] = registering[l]
          /\ stopped'[l] = stopped[l] \/ stopped'[l] = TRUE
      BY <2>5 DEF RunStop, RunTimeout, Rest, TypeInv
    <3>3. k \notin Accepters /\ k \notin Handlers
      BY <1>k, <3>1
    <3>4. /\ Waits(s, Accepters) <=> Waits(Tail(s), Accepters)
          /\ Waits(s, Handlers) <=> Waits(Tail(s), Handlers)
          /\ Tail(s) \in Seq(Jobs) /\ OnlyOne(Tail(s)) /\ registering[l] = 0
      BY <2>t, <3>1, <3>3
    <3>5. CASE accepting[l]
      <4>1. strand'[l] = Append(Tail(s), Job("error"))
        BY <3>2, <3>5 DEF Cancelled
      <4>2. ~Waits(Tail(s), Accepters)
        BY <2>2, <3>4, <3>5 DEF TurnInv
      <4>3. OnlyOne(strand'[l])
        BY <2>e, <3>4, <4>1, <4>2, OnlyOneAppend
      <4>4. Waits(strand'[l], Accepters) /\ Waits(strand'[l], Handlers)
        <5>1. ASSUME NEW K PROVE Waits(strand'[l], K) <=> Waits(Tail(s), K) \/ "error" \in K
          <6> DEFINE r == Tail(s)
                     e == Job("error")
          <6>1. r \in Seq(Jobs) /\ e \in Jobs /\ e.kind = "error" /\ strand'[l] = Append(r, e)
            BY <2>e, <3>4, <4>1
          <6> HIDE DEF r, e
          <6>2. Waits(strand'[l], K) <=> Waits(r, K) \/ "error" \in K
            BY <6>1, WaitsAppend
          <6> QED
            BY <6>2 DEF r
        <5> QED
          BY <1>k, <5>1
      <4> QED
        BY <2>1, <3>2, <3>4, <4>3, <4>4 DEF TurnInv
    <3>6. CASE ~accepting[l]
      <4>1. strand'[l] = Tail(s)
        BY <3>2, <3>6 DEF Cancelled
      <4> QED
        BY <2>1, <2>2, <3>2, <3>4, <3>6, <4>1 DEF TurnInv
    <3> QED
      BY <3>5, <3>6
  <2>6. CASE \E enable \in BOOLEAN : RunDraining(l, enable)
    <3>1. PICK k \in {"drain", "undrain"} : Runs(l, k)
      BY <2>6 DEF RunDraining
    <3>2. /\ strand'[l] = Tail(s) /\ accepting'[l] = accepting[l]
          /\ timed'[l] = timed[l] /\ registering'[l] = registering[l]
          /\ stopped'[l] = stopped[l]
      BY <2>6 DEF RunDraining, Rest, TypeInv
    <3>3. k \notin Accepters /\ k \notin Handlers
      BY <1>k, <3>1
    <3>4. /\ Waits(s, Accepters) <=> Waits(Tail(s), Accepters)
          /\ Waits(s, Handlers) <=> Waits(Tail(s), Handlers)
          /\ OnlyOne(Tail(s))
      BY <2>t, <3>1, <3>3
    <3> QED
      BY <2>1, <2>2, <3>2, <3>4 DEF TurnInv
  <2>7. CASE AcceptStopped(l)
    <3>1. PICK k \in Accepters : Runs(l, k)
      BY <2>7, <1>k DEF AcceptStopped
    <3>2. /\ strand'[l] = Tail(s) /\ accepting'[l] = accepting[l]
          /\ timed'[l] = FALSE /\ registering'[l] = registering[l]
          /\ stopped[l] /\ stopped'[l] = stopped[l]
      BY <2>7 DEF AcceptStopped, Rest, TypeInv
    <3> QED
      BY <2>1, <2>t, <3>1, <3>2 DEF TurnInv
  <2>8. CASE CreateSession(l)
    <3>1. Runs(l, "accepted") /\ "accepted" \in Accepters
      BY <2>8, <1>k DEF CreateSession
    <3>2. /\ strand'[l] = Tail(s) /\ accepting'[l] = accepting[l]
          /\ timed'[l] = FALSE /\ registering'[l] = Head(s).conn
          /\ ~stopped[l] /\ stopped'[l] = stopped[l]
      BY <2>8 DEF CreateSession, OnSessionAccepted, MayCreateSession, Rest, TypeInv
    <3>3. Head(s).conn # 0
      <4>1. Head(s).conn \in Conns
        BY <2>t, <3>1, JobFacts
      <4> QED
        BY <4>1, ServerAssumption DEF Conns
    <3> QED
      BY <2>1, <2>t, <3>1, <3>2, <3>3 DEF TurnInv
  <2>9. CASE RegisterSession(l)
    <3>1. /\ registering[l] # 0 /\ registering'[l] = 0 /\ strand'[l] = s
          /\ accepting'[l] = ~stopped[l] /\ timed'[l] = ~stopped[l]
          /\ stopped'[l] = stopped[l]
      BY <2>9 DEF RegisterSession, DoAccept, TypeInv
    <3> QED
      BY <2>1, <2>2, <2>3, <3>1 DEF TurnInv
  <2>10. CASE AcceptFails(l) \/ \E c \in Conns : Connect(l, c)
    <3>1. PICK e \in Jobs : /\ e.kind \in Handlers
                            /\ strand'[l] = Append(s, e)
                            /\ accepting[l] /\ accepting'[l] = FALSE
                            /\ timed'[l] = timed[l] /\ registering'[l] = registering[l]
                            /\ stopped'[l] = stopped[l]
      <4>1. CASE AcceptFails(l)
        BY <1>k, <2>e, <4>1 DEF AcceptFails, TypeInv
      <4>2. ASSUME NEW c \in Conns, Connect(l, c)
            PROVE  /\ Accepted(c) \in Jobs /\ Accepted(c).kind \in Handlers
                   /\ strand'[l] = Append(s, Accepted(c))
                   /\ accepting[l] /\ accepting'[l] = FALSE
                   /\ timed'[l] = timed[l] /\ registering'[l] = registering[l]
                   /\ stopped'[l] = stopped[l]
        BY <1>k, <4>2, JobFacts DEF Connect, TypeInv
      <4> QED
        BY <2>10, <4>1, <4>2
    <3>2. ~Waits(s, Accepters) /\ registering[l] = 0
      BY <2>2, <3>1 DEF TurnInv
    <3>3. OnlyOne(strand'[l])
      BY <2>2, <3>1, <3>2, OnlyOneAppend DEF TurnInv
    <3>4. Waits(strand'[l], Accepters) /\ Waits(strand'[l], Handlers)
      BY <1>k, <2>2, <3>1, WaitsAppend
    <3> QED
      BY <2>1, <2>2, <3>1, <3>2, <3>3, <3>4 DEF TurnInv
  <2>11. CASE TimerExpires(l)
    <3>1. /\ strand'[l] = Append(s, Job("timeout")) /\ timed'[l] = FALSE
          /\ accepting'[l] = accepting[l] /\ registering'[l] = registering[l]
          /\ stopped'[l] = stopped[l]
      BY <2>11 DEF TimerExpires, TypeInv
    <3>2. OnlyOne(strand'[l])
      BY <1>k, <2>2, <2>e, <3>1, OnlyOneAppend DEF TurnInv
    <3>3. Waits(strand'[l], Accepters) <=> Waits(s, Accepters)
      BY <1>k, <2>2, <2>e, <3>1, WaitsAppend
    <3> QED
      BY <2>1, <2>2, <3>1, <3>2, <3>3 DEF TurnInv
  <2> QED
    BY <1>5, <2>4, <2>5, <2>6, <2>7, <2>8, <2>9, <2>10, <2>11 DEF LoopStep, Strand
<1>6. ASSUME NEW l \in Loops, LoopStep(l) PROVE \A k \in Loops : TurnInv(k)'
  BY <1>1, <1>5, <1>6, StepIsLocal
<1> QED
  BY <1>2, <1>3, <1>4, <1>6, NextSplit

LEMMA TurnInvariant == Spec => [](TypeInv /\ LoopInv /\ \A l \in Loops : TurnInv(l))
<1>1. Init => LoopInv /\ \A l \in Loops : TurnInv(l)
  <2> SUFFICES ASSUME Init PROVE LoopInv /\ \A l \in Loops : TurnInv(l)
    OBVIOUS
  <2>1. DOMAIN <<>> = {} /\ ToSet(<<>>) = {}
    BY EmptySet
  <2>2. LoopInv
    BY DEF Init, LoopInv, Unborn
  <2>3. ASSUME NEW l \in Loops PROVE TurnInv(l)
    <3>1. /\ strand[l] = <<>> /\ ~accepting[l] /\ registering[l] = 0
          /\ ~stopped[l] /\ ~timed[l]
      BY DEF Init
    <3>2. ~(l <= loops)
      BY ServerAssumption DEF Init, Loops
    <3> QED
      BY <2>1, <3>1, <3>2, Zenon DEF TurnInv, OnlyOne, Waits
  <2> QED
    BY <2>2, <2>3
<1>2. /\ TypeInv /\ LoopInv /\ (\A l \in Loops : TurnInv(l))
      /\ [Next]_vars
      => (TypeInv /\ LoopInv /\ \A l \in Loops : TurnInv(l))'
  BY TypeNext, LoopNext, TurnNext
<1> QED
  BY <1>1, <1>2, TypeInit, PTL DEF Spec

(* A loop that is not stopped accepts, registers a session, or has a job   *)
(* on its strand that goes on accepting: no error, late time-out, refused  *)
(* connection or cancelled accept ends it, for any number of loops.        *)
THEOREM LoopsKeepAccepting == Spec => []KeepsAccepting
<1>1. TypeInv /\ (\A l \in Loops : TurnInv(l)) => KeepsAccepting
  <2> SUFFICES ASSUME TypeInv, \A l \in Loops : TurnInv(l), NEW l \in 1 .. loops
               PROVE  \/ stopped[l] \/ accepting[l] \/ registering[l] # 0
                      \/ \E i \in DOMAIN strand[l] : strand[l][i].kind \in Accepters
    BY DEF KeepsAccepting, Accepters
  <2>1. l \in Loops /\ l <= loops
    BY ServerAssumption, LenProperties DEF TypeInv, Loops
  <2> QED
    BY <2>1 DEF TurnInv, Waits, ToSet
<1> QED
  BY <1>1, TurnInvariant, PTL

(* A stopped loop whose strand has run everything has no accept and no     *)
(* timer pending, so that nothing keeps the AcceptorLoop alive.            *)
THEOREM StoppedLoopsRest == Spec => []StoppedQuiet
<1>1. (\A l \in Loops : TurnInv(l)) => StoppedQuiet
  BY EmptySet DEF TurnInv, StoppedQuiet, Waits
<1> QED
  BY <1>1, TurnInvariant, PTL

-----------------------------------------------------------------------------
(* Sessions of a loop that was told to stop.                               *)

LEMMA StopFirstAppend ==
    ASSUME NEW s \in Seq(Jobs), NEW e \in Jobs, StopFirst(s)
    PROVE  StopFirst(Append(s, e))
<1> DEFINE t == Append(s, e)
<1>1. /\ DOMAIN s = 1 .. Len(s) /\ Len(s) \in Nat
      /\ DOMAIN t = 1 .. (Len(s) + 1)
      /\ \A i \in 1 .. Len(s) : t[i] = s[i]
  BY LenProperties, AppendProperties
<1> HIDE DEF t
<1>2. PICK i \in 1 .. Len(s) : s[i].kind = "stop" /\ \A j \in 1 .. (i - 1) : s[j].kind # "accepted"
  BY <1>1 DEF StopFirst
<1>3. i \in DOMAIN t /\ t[i].kind = "stop" /\ \A j \in 1 .. (i - 1) : t[j].kind # "accepted"
  BY <1>1, <1>2
<1> QED
  BY <1>3 DEF StopFirst, t

LEMMA StopFirstTail ==
    ASSUME NEW s \in Seq(Jobs), s # <<>>, StopFirst(s), Head(s).kind # "stop"
    PROVE  StopFirst(Tail(s)) /\ Head(s).kind # "accepted"
<1> DEFINE t == Tail(s)
<1>1. /\ DOMAIN s = 1 .. Len(s) /\ DOMAIN t = 1 .. (Len(s) - 1)
      /\ Len(s) \in Nat \ {0} /\ Head(s) = s[1]
      /\ \A i \in 1 .. (Len(s) - 1) : t[i] = s[i + 1]
  BY TailSet
<1> HIDE DEF t
<1>2. PICK i \in 1 .. Len(s) : s[i].kind = "stop" /\ \A j \in 1 .. (i - 1) : s[j].kind # "accepted"
  BY <1>1 DEF StopFirst
<1>3. i # 1
  BY <1>1, <1>2
<1>4. /\ i - 1 \in DOMAIN t /\ t[i - 1].kind = "stop"
      /\ \A j \in 1 .. ((i - 1) - 1) : t[j].kind # "accepted"
  BY <1>1, <1>2, <1>3
<1>5. s[1].kind # "accepted"
  BY <1>1, <1>2, <1>3
<1> QED
  BY <1>1, <1>4, <1>5 DEF StopFirst, t

LEMMA StopFirstBegins ==
    ASSUME NEW s \in Seq(Jobs), Waits(s, {"stop"}), ~Waits(s, Accepters)
    PROVE  StopFirst(s)
<1>1. DOMAIN s = 1 .. Len(s) /\ Len(s) \in Nat
  BY LenProperties
<1>2. PICK i \in DOMAIN s : s[i].kind = "stop"
  BY DEF Waits, ToSet
<1>3. \A j \in DOMAIN s : s[j].kind # "accepted"
  BY DEF Waits, ToSet, Accepters
<1>4. \A j \in 1 .. (i - 1) : j \in DOMAIN s
  BY <1>1, <1>2
<1> QED
  BY <1>2, <1>3, <1>4 DEF StopFirst

LEMMA LateNext ==
    ASSUME TypeInv, LoopInv, \A l \in Loops : TurnInv(l), \A l \in Loops : LateInv(l),
           [Next]_vars
    PROVE  \A l \in Loops : LateInv(l)'
<1> USE DEF loop, accepts
<1>0. \A l \in Loops : l \in Nat /\ strand[l] \in Seq(Jobs) /\ late[l] \in Nat
  <2>1. \A l \in Loops : l \in Nat
    BY DEF Loops
  <2> QED
    BY <2>1 DEF TypeInv
<1>1. ASSUME NEW l \in Loops, Same(l) PROVE LateInv(l)'
  BY <1>1 DEF LateInv, Same
<1>a. ASSUME NEW l \in Loops, NEW e \in Jobs, strand'[l] = Append(strand[l], e),
             late'[l] = late[l], registering'[l] = registering[l], stopped'[l] = stopped[l]
      PROVE  LateInv(l)'
  BY <1>0, <1>a, StopFirstAppend DEF LateInv
<1>2. CASE Quiet
  BY <1>1, <1>2 DEF Quiet, Same
<1>3. CASE Calls
  <2>1. PICK ls \in SUBSET Current, k \in {"stop", "drain", "undrain"} : Signal(ls, k)
    BY <1>3, CallSignals
  <2>2. Job(k) \in Jobs
    BY JobFacts DEF Kinds
  <2> SUFFICES ASSUME NEW l \in Loops PROVE LateInv(l)'
    OBVIOUS
  <2>3. CASE l \in ls
    <3>1. /\ strand'[l] = Append(strand[l], Job(k)) /\ late'[l] = late[l]
          /\ registering'[l] = registering[l] /\ stopped'[l] = stopped[l]
      BY <2>1, <2>3, SignalEffect
    <3> QED
      BY <1>a, <2>2, <3>1, Zenon
  <2>4. CASE l \notin ls
    BY <1>1, <2>1, <2>4, SignalEffect DEF Same
  <2> QED
    BY <2>3, <2>4
<1>4. CASE StartPort
  <2>1. /\ loops + 1 \in Loops
        /\ strand' = [strand EXCEPT ![loops + 1] = LambdasOfStart]
        /\ UNCHANGED <<stopped, draining, accepting, timed, registering, late>>
    BY <1>4, StartPortEffect
  <2> SUFFICES ASSUME NEW l \in Loops PROVE LateInv(l)'
    OBVIOUS
  <2>2. CASE l = loops + 1
    <3>1. Unborn(l)
      BY <1>0, <2>2 DEF LoopInv, TypeInv
    <3>2. DOMAIN <<>> = {}
      OBVIOUS
    <3>3. late[l] = 0
      BY <3>1, <3>2 DEF LateInv, Unborn, StopFirst
    <3>4. 0 <= 1
      OBVIOUS
    <3> QED
      BY <2>1, <3>3, <3>4, Zenon DEF LateInv
  <2>3. CASE l # loops + 1
    BY <1>1, <2>1, <2>3 DEF Same, TypeInv
  <2> QED
    BY <2>2, <2>3
<1>5. ASSUME NEW l \in Loops, LoopStep(l) PROVE LateInv(l)'
  <2> DEFINE s == strand[l]
  <2>e. Job("error") \in Jobs /\ Job("timeout") \in Jobs
    BY JobFacts DEF Kinds
  <2>2. s \in Seq(Jobs) /\ TurnInv(l) /\ LateInv(l)
    BY <1>0
  \* A job of another kind leaves the stop in its place.
  <2>t. ASSUME NEW k, Runs(l, k), k # "stop", StopFirst(s)
        PROVE  StopFirst(Tail(s)) /\ k # "accepted"
    BY <2>2, <2>t, StopFirstTail DEF Runs
  <2>3. CASE \/ RunStart(l) \/ AcceptError(l) \/ AcceptRefused(l) \/ AcceptStopped(l)
             \/ \E enable \in BOOLEAN : RunDraining(l, enable)
    <3>1. PICK k \in {"start", "error", "accepted", "drain", "undrain"} : Runs(l, k)
      BY <2>3 DEF RunStart, AcceptError, AcceptRefused, AcceptStopped, RunDraining
    <3>2. /\ strand'[l] = Tail(s) /\ late'[l] = late[l]
          /\ registering'[l] = registering[l] /\ stopped'[l] = stopped[l]
      BY <2>3 DEF RunStart, AcceptError, AcceptRefused, AcceptStopped, RunDraining,
         Rest, TypeInv, history
    <3> QED
      BY <2>2, <2>t, <3>1, <3>2 DEF LateInv
  <2>4. CASE RunStop(l)
    <3>1. /\ stopped'[l] = TRUE /\ late'[l] = late[l] /\ registering'[l] = registering[l]
      BY <2>4 DEF RunStop, TypeInv, history
    <3> QED
      BY <2>2, <3>1 DEF LateInv
  <2>5. CASE RunTimeout(l)
    <3>1. /\ Runs(l, "timeout") /\ strand'[l] = Cancelled(l, Tail(s)) /\ late'[l] = late[l]
          /\ registering'[l] = registering[l] /\ stopped'[l] = stopped[l]
      BY <2>5 DEF RunTimeout, Rest, TypeInv, history
    <3>2. ASSUME StopFirst(s) PROVE StopFirst(strand'[l])
      <4>1. StopFirst(Tail(s))
        BY <2>t, <3>1, <3>2
      <4>2. Tail(s) \in Seq(Jobs)
        BY <2>2, <3>1, HeadTailProperties DEF Runs
      <4>3. strand'[l] = Tail(s) \/ strand'[l] = Append(Tail(s), Job("error"))
        BY <3>1 DEF Cancelled
      <4> QED
        BY <2>e, <4>1, <4>2, <4>3, StopFirstAppend
    <3> QED
      BY <2>2, <3>1, <3>2 DEF LateInv
  <2>6. CASE CreateSession(l)
    <3>1. /\ Runs(l, "accepted") /\ ~stopped[l] /\ late'[l] = late[l]
      BY <2>6 DEF CreateSession, MayCreateSession, TypeInv, history
    <3>2. late[l] = 0
      BY <2>2, <2>t, <3>1 DEF LateInv
    <3>3. late'[l] = 0 /\ 0 <= 1
      BY <3>1, <3>2
    <3> QED
      BY <3>3, Zenon DEF LateInv
  <2>7. CASE RegisterSession(l)
    <3>1. /\ registering[l] # 0 /\ registering'[l] = 0 /\ strand'[l] = s
          /\ stopped'[l] = stopped[l]
          /\ late'[l] = IF ToldToStop(l) THEN late[l] + 1 ELSE late[l]
      BY <2>7 DEF RegisterSession, TypeInv
    <3>2. late[l] = 0 /\ ~stopped[l] /\ ~Waits(s, Accepters)
      BY <2>2, <3>1 DEF LateInv, TurnInv
    <3>3. ToldToStop(l) => StopFirst(s)
      <4>1. ToldToStop(l) => Waits(s, {"stop"})
        BY <3>2, JobFacts DEF ToldToStop, Waits
      <4> QED
        BY <2>2, <3>2, <4>1, StopFirstBegins
    <3>4. /\ ToldToStop(l) => late'[l] = 1
          /\ ~ToldToStop(l) => late'[l] = 0
      BY <3>1, <3>2
    <3>5. 0 <= 1 /\ 1 <= 1
      OBVIOUS
    <3> QED
      BY <3>1, <3>3, <3>4, <3>5, Zenon DEF LateInv
  <2>8. CASE AcceptFails(l) \/ TimerExpires(l) \/ \E c \in Conns : Connect(l, c)
    <3>1. PICK e \in Jobs : /\ strand'[l] = Append(s, e) /\ late'[l] = late[l]
                            /\ registering'[l] = registering[l] /\ stopped'[l] = stopped[l]
      <4>1. CASE AcceptFails(l) \/ TimerExpires(l)
        BY <2>e, <4>1 DEF AcceptFails, TimerExpires, TypeInv, history
      <4>2. ASSUME NEW c \in Conns, Connect(l, c)
            PROVE  /\ Accepted(c) \in Jobs
                   /\ strand'[l] = Append(s, Accepted(c)) /\ late'[l] = late[l]
                   /\ registering'[l] = registering[l] /\ stopped'[l] = stopped[l]
        BY <4>2, JobFacts DEF Connect, TypeInv, history
      <4> QED
        BY <2>8, <4>1, <4>2
    <3> QED
      BY <1>a, <3>1
  <2> QED
    BY <1>5, <2>3, <2>4, <2>5, <2>6, <2>7, <2>8 DEF LoopStep, Strand
<1>6. ASSUME NEW l \in Loops, LoopStep(l) PROVE \A k \in Loops : LateInv(k)'
  BY <1>1, <1>5, <1>6, StepIsLocal
<1> QED
  BY <1>2, <1>3, <1>4, <1>6, NextSplit

(* Stop reaches a loop through its strand, behind what is queued there:    *)
(* the loop then registers one more session at most, however its accepts,  *)
(* time-outs and registrations interleave with the call.                   *)
THEOREM AtMostOneLateSession == Spec => []OneLateSession
<1>1. Init => \A l \in Loops : LateInv(l)
  <2> SUFFICES ASSUME Init, NEW l \in Loops PROVE LateInv(l)
    OBVIOUS
  <2>1. late[l] = 0 /\ 0 <= 1
    BY DEF Init
  <2> QED
    BY <2>1, Zenon DEF LateInv
<1>2. /\ TypeInv /\ LoopInv /\ (\A l \in Loops : TurnInv(l))
      /\ (\A l \in Loops : LateInv(l)) /\ [Next]_vars
      => (\A l \in Loops : LateInv(l))'
  BY LateNext
<1>3. (\A l \in Loops : LateInv(l)) => OneLateSession
  BY DEF LateInv, OneLateSession
<1> QED
  BY <1>1, <1>2, <1>3, TurnInvariant, PTL DEF Spec

-----------------------------------------------------------------------------
(* The connections, the sessions and the registry.                         *)

LEMMA CompletedAppend ==
    ASSUME NEW s \in Seq(Jobs), NEW e \in Jobs
    PROVE  /\ e.kind # "accepted" => Completed(Append(s, e)) = Completed(s)
           /\ \A c \in Conns : e = Accepted(c) => Completed(Append(s, e)) = Completed(s) \cup {c}
<1>1. ToSet(Append(s, e)) = ToSet(s) \cup {e}
  BY AppendSet
<1>2. \A c, d : Accepted(c) = Accepted(d) => c = d
  BY JobFacts
<1>3. ASSUME e.kind # "accepted" PROVE \A c : e # Accepted(c)
  BY <1>3, JobFacts
<1> QED
  BY <1>1, <1>2, <1>3 DEF Completed

LEMMA CompletedTail ==
    ASSUME NEW s \in Seq(Jobs), s # <<>>
    PROVE  /\ Completed(Tail(s)) \subseteq Completed(s)
           /\ Head(s).kind = "accepted" /\ OnlyOne(s) =>
                  /\ Head(s).conn \in Conns /\ Head(s).conn \in Completed(s)
                  /\ Completed(Tail(s)) = {}
<1>1. ToSet(s) = {Head(s)} \cup ToSet(Tail(s)) /\ Head(s) \in Jobs
  BY TailSet, HeadTailProperties
<1>2. Completed(Tail(s)) \subseteq Completed(s)
  BY <1>1 DEF Completed
<1>3. ASSUME Head(s).kind = "accepted", OnlyOne(s)
      PROVE  /\ Head(s).conn \in Conns /\ Head(s).conn \in Completed(s)
             /\ Completed(Tail(s)) = {}
  <2>1. Head(s).conn \in Conns /\ Head(s) = Accepted(Head(s).conn)
    BY <1>1, <1>3, JobFacts
  <2>2. ~Waits(Tail(s), Accepters)
    BY <1>3, OnlyOneTail DEF Accepters
  <2>3. \A c : Accepted(c) \notin ToSet(Tail(s))
    BY <2>2, JobFacts DEF Waits, Accepters
  <2> QED
    BY <1>1, <2>1, <2>3 DEF Completed
<1> QED
  BY <1>2, <1>3

(* Steps that touch neither a session nor a completed accept.              *)
LEMMA ConnQuiet ==
    ASSUME ConnInv, UNCHANGED <<conn, registry, registering>>,
           \A l \in Loops : Completed(strand'[l]) \subseteq Completed(strand[l])
    PROVE  ConnInv'
BY DEF ConnInv

LEMMA ConnNext ==
    ASSUME TypeInv, \A l \in Loops : TurnInv(l), ConnInv, [Next]_vars
    PROVE  ConnInv'
<1> USE DEF server, loop, accepts, session, history, bounds
<1>0. \A l \in Loops : strand[l] \in Seq(Jobs) /\ OnlyOne(strand[l])
  BY DEF TypeInv, TurnInv
<1>c. 0 \notin Conns
  BY DEF Conns
<1>t. ASSUME NEW l \in Loops, NEW k, Runs(l, k)
      PROVE  /\ Head(strand[l]) \in Jobs /\ Rest(l) \in Seq(Jobs)
             /\ Completed(Rest(l)) \subseteq Completed(strand[l])
             /\ k = "accepted" => /\ Head(strand[l]).conn \in Completed(strand[l])
                                  /\ Completed(Rest(l)) = {}
             /\ k # "accepted" => Head(strand[l]).conn = 0
  <2>1. strand[l] # <<>> /\ Head(strand[l]).kind = k
    BY <1>t DEF Runs
  <2>2. Head(strand[l]) \in Jobs /\ Rest(l) \in Seq(Jobs)
    BY <2>1, StrandType
  <2> QED
    BY <1>0, <2>1, <2>2, CompletedTail, JobFacts DEF Rest
<1>e. Job("error") \in Jobs /\ Job("timeout") \in Jobs
      /\ Job("error").kind # "accepted" /\ Job("timeout").kind # "accepted"
  BY JobFacts DEF Kinds
<1>1. CASE UNCHANGED <<conn, registry, registering, strand>>
  BY <1>1, ConnQuiet
<1>2. CASE \/ Start \/ StartThrows \/ SendResponse \/ UNCHANGED vars
           \/ \E p \in Ports : AddPort(p)
           \/ \E c \in Conns : RouteMessage(c)
  BY <1>1, <1>2 DEF Start, StartThrows, SendResponse, AddPort, RouteMessage, Dispatch, vars
<1>3. CASE Calls
  <2>1. PICK ls \in SUBSET Current, k \in {"stop", "drain", "undrain"} : Signal(ls, k)
    BY <1>3, CallSignals
  <2>2. Job(k) \in Jobs /\ Job(k).kind # "accepted"
    BY JobFacts DEF Kinds
  <2>4. ASSUME NEW l \in Loops PROVE Completed(strand'[l]) \subseteq Completed(strand[l])
    <3>1. strand'[l] = IF l \in ls THEN Append(strand[l], Job(k)) ELSE strand[l]
      BY <2>1, SignalEffect
    <3>2. strand[l] \in Seq(Jobs)
      BY <1>0
    <3> QED
      BY <2>2, <3>1, <3>2, CompletedAppend
  <2>5. UNCHANGED <<conn, registry, registering>>
    BY <2>1 DEF Signal
  <2> QED
    BY <2>4, <2>5, ConnQuiet
<1>4. CASE StartPort
  <2>1. /\ strand' = [strand EXCEPT ![loops + 1] = LambdasOfStart]
        /\ UNCHANGED <<conn, registry, registering>>
    BY <1>4, StartPortEffect
  <2>2. Completed(LambdasOfStart) = {}
    <3> DEFINE d == Job("drain")
               b == Job("start")
    <3>1. \A c : d # Accepted(c) /\ b # Accepted(c)
      BY JobFacts
    <3>2. LambdasOfStart = <<d, b>> \/ LambdasOfStart = <<b>>
      BY StartJobs
    <3> HIDE DEF d, b
    <3>3. ToSet(<<d, b>>) = {d, b} /\ ToSet(<<b>>) = {b}
      BY DEF ToSet
    <3> QED
      BY <3>1, <3>2, <3>3 DEF Completed
  <2>3. \A l \in Loops : Completed(strand'[l]) \subseteq Completed(strand[l])
    BY <2>1, <2>2 DEF TypeInv
  <2> QED
    BY <2>1, <2>3, ConnQuiet
<1>5. CASE StopDrain
  <2>1. /\ UNCHANGED <<strand, registering>>
        /\ registry' = {} \/ registry' = registry
        /\ \A c \in Conns : conn'[c] = IF c \in registry /\ conn[c] = "running"
                                        THEN "closing" ELSE conn[c]
    BY <1>5 DEF StopDrain, Drain
  <2>2. registry \subseteq Conns /\ \A l \in Loops : registering[l] # 0 => registering[l] \in Conns
    BY DEF TypeInv
  <2>3. \A l \in Loops : Completed(strand[l]) \subseteq Conns
    BY DEF Completed
  <2> QED
    BY <2>1, <2>2, <2>3 DEF ConnInv
<1>6. ASSUME NEW c \in Conns, Disconnect(c) PROVE ConnInv'
  <2>1. /\ UNCHANGED <<strand, registering>> /\ conn[c] \in {"running", "closing"}
        /\ registry' = registry \ {c} \/ registry' = registry
        /\ conn'[c] = "new"
        /\ \A d \in Conns : d # c => conn'[d] = conn[d]
    BY <1>6 DEF Disconnect, OnDisconnect, RemoveSession, TypeInv
  <2>2. registry \subseteq Conns /\ \A l \in Loops : registering[l] # 0 => registering[l] \in Conns
    BY DEF TypeInv
  <2>3. \A l \in Loops : Completed(strand[l]) \subseteq Conns
    BY DEF Completed
  <2> QED
    BY <2>1, <2>2, <2>3 DEF ConnInv
<1>7. ASSUME NEW c \in Conns, SessionCloses(c) PROVE ConnInv'
  <2>1. /\ UNCHANGED <<strand, registering, registry>> /\ conn[c] = "closing"
        /\ conn'[c] = "new"
        /\ \A d \in Conns : d # c => conn'[d] = conn[d]
    BY <1>7 DEF SessionCloses, TypeInv
  <2>2. registry \subseteq Conns /\ \A l \in Loops : registering[l] # 0 => registering[l] \in Conns
    BY DEF TypeInv
  <2>3. \A l \in Loops : Completed(strand[l]) \subseteq Conns
    BY DEF Completed
  <2> QED
    BY <2>1, <2>2, <2>3 DEF ConnInv
<1>8. ASSUME NEW l \in Loops, LoopStep(l) PROVE ConnInv'
  <2>s. \A k \in Loops : k # l => strand'[k] = strand[k] /\ registering'[k] = registering[k]
    BY <1>8, StepIsLocal DEF Same
  <2>r. registry \subseteq Conns /\ \A k \in Loops : registering[k] # 0 => registering[k] \in Conns
    BY DEF TypeInv
  <2>p. \A k \in Loops : Completed(strand[k]) \subseteq Conns
    BY DEF Completed
  <2>q. ASSUME UNCHANGED <<conn, registry, registering>>,
               Completed(strand'[l]) \subseteq Completed(strand[l])
        PROVE  ConnInv'
    BY <2>q, <2>s, ConnQuiet
  <2>1. CASE RunStart(l) \/ AcceptError(l) \/ \E enable \in BOOLEAN : RunDraining(l, enable)
    <3>1. \E k : Runs(l, k)
      BY <2>1 DEF RunStart, AcceptError, RunDraining
    <3>2. strand'[l] = Rest(l) /\ UNCHANGED <<conn, registry, registering>>
      BY <2>1 DEF RunStart, AcceptError, RunDraining, TypeInv
    <3> QED
      BY <1>t, <2>q, <3>1, <3>2
  <2>2. CASE RunStop(l) \/ RunTimeout(l)
    <3>1. \E k : Runs(l, k)
      BY <2>2 DEF RunStop, RunTimeout
    <3>2. strand'[l] = Cancelled(l, Rest(l)) /\ UNCHANGED <<conn, registry, registering>>
      BY <2>2 DEF RunStop, RunTimeout, TypeInv
    <3>3. Rest(l) \in Seq(Jobs) /\ Completed(Rest(l)) \subseteq Completed(strand[l])
      BY <1>t, <3>1
    <3>4. strand'[l] = Rest(l) \/ strand'[l] = Append(Rest(l), Job("error"))
      BY <3>2 DEF Cancelled
    <3>5. Completed(strand'[l]) = Completed(Rest(l))
      BY <1>e, <3>3, <3>4, CompletedAppend
    <3> QED
      BY <2>q, <3>2, <3>3, <3>5
  <2>3. CASE AcceptFails(l) \/ TimerExpires(l)
    <3>1. PICK e \in Jobs : strand'[l] = Append(strand[l], e) /\ e.kind # "accepted"
      BY <1>e, <2>3 DEF AcceptFails, TimerExpires, TypeInv
    <3>2. UNCHANGED <<conn, registry, registering>>
      BY <2>3 DEF AcceptFails, TimerExpires
    <3>3. Completed(strand'[l]) = Completed(strand[l])
      BY <1>0, <3>1, CompletedAppend
    <3> QED
      BY <2>q, <3>2, <3>3
  <2>4. CASE AcceptStopped(l) /\ Runs(l, "error")
    <3>1. strand'[l] = Rest(l) /\ UNCHANGED <<registry, registering>>
      BY <2>4 DEF AcceptStopped, TypeInv
    <3>2. Head(strand[l]).conn = 0
      BY <1>t, <2>4
    <3>3. conn' = conn
      BY <1>c, <2>4, <3>2 DEF AcceptStopped, TypeInv
    <3> QED
      BY <1>t, <2>4, <2>q, <3>1, <3>3
  <2>5. CASE (AcceptStopped(l) /\ Runs(l, "accepted")) \/ AcceptRefused(l)
    <3> DEFINE c == Head(strand[l]).conn
    <3>1. Runs(l, "accepted")
      BY <2>5 DEF AcceptRefused
    <3>2. c \in Completed(strand[l]) /\ c \in Conns /\ Completed(Rest(l)) = {}
      BY <1>t, <3>1, <2>p
    <3>3. /\ strand'[l] = Rest(l) /\ UNCHANGED <<registry, registering>>
          /\ conn'[c] = "new" /\ \A d \in Conns : d # c => conn'[d] = conn[d]
      BY <2>5, <3>2 DEF AcceptStopped, AcceptRefused, TypeInv
    <3> HIDE DEF c
    <3>4. conn[c] = "accepted" /\ \A k \in Loops : c \in Completed(strand[k]) => k = l
      BY <3>2 DEF ConnInv
    <3> QED
      BY <2>s, <2>r, <2>p, <3>2, <3>3, <3>4 DEF ConnInv
  <2>6. CASE CreateSession(l)
    <3> DEFINE c == Head(strand[l]).conn
    <3>1. Runs(l, "accepted")
      BY <2>6 DEF CreateSession
    <3>2. c \in Completed(strand[l]) /\ c \in Conns /\ Completed(Rest(l)) = {}
      BY <1>t, <3>1, <2>p
    <3>3. /\ strand'[l] = Rest(l) /\ UNCHANGED registry /\ registering[l] = 0
          /\ registering'[l] = c
          /\ conn'[c] = "running" /\ \A d \in Conns : d # c => conn'[d] = conn[d]
      BY <2>6, <3>1, <3>2 DEF CreateSession, OnSessionAccepted, Runs, TypeInv
    <3> HIDE DEF c
    <3>4. conn[c] = "accepted" /\ \A k \in Loops : c \in Completed(strand[k]) => k = l
      BY <3>2 DEF ConnInv
    <3>5. c \notin registry /\ \A k \in Loops : registering[k] # c
      BY <1>c, <3>2, <3>4 DEF ConnInv
    <3>6. \A k \in Loops : \A d \in Completed(strand'[k]) :
             conn'[d] = "accepted" /\ \A j \in Loops : d \in Completed(strand'[j]) => j = k
      BY <2>s, <2>p, <3>2, <3>3, <3>4 DEF ConnInv
    <3>7. \A k \in Loops : registering'[k] # 0 =>
             /\ conn'[registering'[k]] \in {"running", "new"}
             /\ registering'[k] \notin registry'
             /\ \A j \in Loops : registering'[j] = registering'[k] => j = k
      BY <2>s, <2>r, <3>3, <3>5 DEF ConnInv
    <3>8. \A d \in registry' : conn'[d] \in {"running", "closing", "new"}
      BY <2>r, <3>3, <3>5 DEF ConnInv
    <3>9. \A d \in Conns : conn'[d] = "running" =>
             d \in registry' \/ \E k \in Loops : registering'[k] = d
      <4> SUFFICES ASSUME NEW d \in Conns, conn'[d] = "running", d \notin registry'
                   PROVE  \E k \in Loops : registering'[k] = d
        OBVIOUS
      <4>1. CASE d = c
        BY <3>3, <4>1
      <4>2. CASE d # c
        <5>1. PICK k \in Loops : registering[k] = d
          BY <3>3, <4>2 DEF ConnInv
        <5>2. k # l
          BY <1>c, <3>3, <5>1
        <5> QED
          BY <2>s, <5>1, <5>2
      <4> QED
        BY <4>1, <4>2
    <3> QED
      BY <3>6, <3>7, <3>8, <3>9 DEF ConnInv
  <2>7. CASE RegisterSession(l)
    <3> DEFINE c == registering[l]
    <3>1. /\ c # 0 /\ c \in Conns /\ registry' = registry \cup {c}
          /\ registering'[l] = 0 /\ UNCHANGED <<strand, conn>>
      BY <2>7, <2>r DEF RegisterSession, AddSession, TypeInv
    <3>2. /\ conn[c] \in {"running", "new"}
          /\ \A k \in Loops : registering[k] = c => k = l
      BY <3>1 DEF ConnInv
    <3> HIDE DEF c
    <3>3. \A k \in Loops : registering'[k] # 0 => registering'[k] = registering[k] /\ k # l
      BY <2>s, <3>1
    <3>4. \A k \in Loops : registering'[k] # 0 =>
             /\ conn'[registering'[k]] \in {"running", "new"}
             /\ registering'[k] \notin registry'
             /\ \A j \in Loops : registering'[j] = registering'[k] => j = k
      BY <3>1, <3>2, <3>3 DEF ConnInv
    <3>5. \A d \in Conns : conn'[d] = "running" =>
             d \in registry' \/ \E k \in Loops : registering'[k] = d
      <4> SUFFICES ASSUME NEW d \in Conns, conn'[d] = "running", d \notin registry'
                   PROVE  \E k \in Loops : registering'[k] = d
        OBVIOUS
      <4>1. PICK k \in Loops : registering[k] = d
        BY <3>1 DEF ConnInv
      <4>2. k # l
        BY <3>1, <4>1 DEF c
      <4> QED
        BY <2>s, <4>1, <4>2
    <3>6. \A d \in registry' : conn'[d] \in {"running", "closing", "new"}
      BY <3>1, <3>2 DEF ConnInv
    <3>7. \A k \in Loops : \A d \in Completed(strand'[k]) :
             conn'[d] = "accepted" /\ \A j \in Loops : d \in Completed(strand'[j]) => j = k
      BY <3>1 DEF ConnInv
    <3> QED
      BY <3>4, <3>5, <3>6, <3>7 DEF ConnInv
  <2>8. ASSUME NEW c \in Conns, Connect(l, c) PROVE ConnInv'
    <3>1. /\ conn[c] = "new" /\ c \notin registry /\ (\A k \in Loops : registering[k] # c)
          /\ strand'[l] = Append(strand[l], Accepted(c))
          /\ UNCHANGED <<registry, registering>>
          /\ conn'[c] = "accepted" /\ \A d \in Conns : d # c => conn'[d] = conn[d]
      BY <2>8 DEF Connect, TypeInv
    <3>2. Completed(strand'[l]) = Completed(strand[l]) \cup {c}
      BY <1>0, <3>1, CompletedAppend, JobFacts
    <3>3. \A k \in Loops : c \notin Completed(strand[k]) /\ registering[k] # c
      BY <1>c, <3>1 DEF ConnInv
    <3>4. c \notin registry
      BY <3>1 DEF ConnInv
    <3>5. \A k \in Loops : \A d \in Completed(strand'[k]) :
             conn'[d] = "accepted" /\ \A j \in Loops : d \in Completed(strand'[j]) => j = k
      <4>1. ASSUME NEW k \in Loops, NEW d \in Completed(strand'[k])
            PROVE  (d = c /\ k = l) \/ (d # c /\ d \in Completed(strand[k]))
        BY <2>s, <3>2, <3>3, <4>1
      <4>2. \A k \in Loops : \A d \in Completed(strand'[k]) : conn'[d] = "accepted"
        BY <2>p, <3>1, <4>1 DEF ConnInv
      <4>3. ASSUME NEW k \in Loops, NEW d \in Completed(strand'[k]),
                   NEW j \in Loops, d \in Completed(strand'[j])
            PROVE  j = k
        <5>1. CASE d = c
          BY <4>1, <4>3, <5>1
        <5>2. CASE d # c
          <6>1. d \in Completed(strand[k]) /\ d \in Completed(strand[j])
            BY <4>1, <4>3, <5>2
          <6> QED
            BY <6>1 DEF ConnInv
        <5> QED
          BY <5>1, <5>2
      <4> QED
        BY <4>2, <4>3
    <3>6. \A k \in Loops : registering'[k] # 0 =>
             /\ conn'[registering'[k]] \in {"running", "new"}
             /\ registering'[k] \notin registry'
             /\ \A j \in Loops : registering'[j] = registering'[k] => j = k
      BY <2>r, <3>1, <3>3 DEF ConnInv
    <3>7. \A d \in registry' : conn'[d] \in {"running", "closing", "new"}
      BY <2>r, <3>1, <3>4 DEF ConnInv
    <3>8. \A d \in Conns : conn'[d] = "running" =>
             d \in registry' \/ \E k \in Loops : registering'[k] = d
      BY <3>1 DEF ConnInv
    <3> QED
      BY <3>5, <3>6, <3>7, <3>8 DEF ConnInv
  <2> QED
    BY <1>8, <2>1, <2>2, <2>3, <2>4, <2>5, <2>6, <2>7, <2>8
    DEF LoopStep, Strand, AcceptStopped
<1> QED
  BY <1>2, <1>3, <1>4, <1>5, <1>6, <1>7, <1>8 DEF Next, Running, Calls, LoopStep

(* A running session is in the registry, or the loop that started it is    *)
(* about to put it there, for any number of loops and connections, whether *)
(* or not UnregisterSession removes anything.                              *)
THEOREM RunningSessionsRegistered == Spec => []RunningRegistered
<1>1. Init => ConnInv
  <2> SUFFICES ASSUME Init PROVE ConnInv
    OBVIOUS
  <2>1. \A l \in Loops : Completed(strand[l]) = {} /\ registering[l] = 0
    BY EmptySet DEF Init, Completed
  <2> QED
    BY <2>1 DEF Init, ConnInv
<1>2. /\ TypeInv /\ LoopInv /\ (\A l \in Loops : TurnInv(l)) /\ ConnInv /\ [Next]_vars
      => ConnInv'
  BY ConnNext
<1>3. ConnInv => RunningRegistered
  BY DEF ConnInv, RunningRegistered
<1> QED
  BY <1>1, <1>2, <1>3, TurnInvariant, PTL DEF Spec

-----------------------------------------------------------------------------
(* No loop escapes.                                                        *)

(* WillDrain, of any strand and any value of draining_.                    *)
Undrained(s, from) == \E i \in from .. Len(s) : s[i].kind = "undrain"
Drains(s, d) ==
    \/ d /\ ~Undrained(s, 1)
    \/ \E i \in DOMAIN s : s[i].kind = "drain" /\ ~Undrained(s, i + 1)

Controlled(l) == ToldToStop(l) \/ (l \in Current /\ WillDrain(l) = shutting_down)

LEMMA WillDrainIs == \A l : WillDrain(l) = Drains(strand[l], draining[l])
BY DEF WillDrain, Drains, Undrained

(* A job that waits last decides, if it sets the mode at all.              *)
LEMMA DrainsAppend ==
    ASSUME NEW s \in Seq(Jobs), NEW e \in Jobs, NEW d
    PROVE  /\ e.kind = "drain" => Drains(Append(s, e), d)
           /\ e.kind = "undrain" => ~Drains(Append(s, e), d)
           /\ e.kind \notin {"drain", "undrain"} => Drains(Append(s, e), d) = Drains(s, d)
<1> DEFINE t == Append(s, e)
           n == Len(s)
<1>1. /\ DOMAIN s = 1 .. n /\ n \in Nat
      /\ DOMAIN t = 1 .. (n + 1) /\ Len(t) = n + 1
      /\ \A i \in 1 .. n : t[i] = s[i]
      /\ t[n + 1] = e
  BY LenProperties, AppendProperties
<1> HIDE DEF t, n
<1>2. CASE e.kind = "drain"
  <2>1. n + 1 \in DOMAIN t /\ t[n + 1].kind = "drain"
    BY <1>1, <1>2
  <2>2. ~Undrained(t, (n + 1) + 1)
    BY <1>1 DEF Undrained
  <2> QED
    BY <1>2, <2>1, <2>2 DEF Drains, t
<1>3. CASE e.kind = "undrain"
  <2>1. \A i \in 1 .. (n + 1) : Undrained(t, i)
    BY <1>1, <1>3 DEF Undrained
  <2>2. \A i \in DOMAIN t : t[i].kind = "drain" => i + 1 \in 1 .. (n + 1)
    BY <1>1, <1>3
  <2>3. 1 \in 1 .. (n + 1)
    BY <1>1
  <2> QED
    BY <1>3, <2>1, <2>2, <2>3 DEF Drains, t
<1>4. CASE e.kind \notin {"drain", "undrain"}
  <2>1. \A i \in Nat \ {0} : Undrained(t, i) <=> Undrained(s, i)
    BY <1>1, <1>4 DEF Undrained, n
  <2>2. \A i \in DOMAIN t : t[i].kind = "drain" => i \in DOMAIN s
    BY <1>1, <1>4
  <2>3. \A i \in DOMAIN s : i \in DOMAIN t /\ t[i] = s[i] /\ i + 1 \in Nat \ {0}
    BY <1>1
  <2>4. 1 \in Nat \ {0}
    OBVIOUS
  <2>5. Drains(t, d) <=> Drains(s, d)
    BY <2>1, <2>2, <2>3, <2>4 DEF Drains
  <2> QED
    BY <1>4, <2>5 DEF t, Drains
<1> QED
  BY <1>2, <1>3, <1>4

(* What the job that runs does to draining_ is what it was counted for.    *)
LEMMA DrainsTail ==
    ASSUME NEW s \in Seq(Jobs), s # <<>>, NEW d
    PROVE  /\ Head(s).kind = "drain" => Drains(s, d) = Drains(Tail(s), TRUE)
           /\ Head(s).kind = "undrain" => Drains(s, d) = Drains(Tail(s), FALSE)
           /\ Head(s).kind \notin {"drain", "undrain"} => Drains(s, d) = Drains(Tail(s), d)
<1> DEFINE t == Tail(s)
           n == Len(s)
           h == Head(s)
<1>1. /\ DOMAIN s = 1 .. n /\ n \in Nat \ {0} /\ h = s[1]
      /\ DOMAIN t = 1 .. (n - 1)
      /\ \A i \in 1 .. (n - 1) : t[i] = s[i + 1]
      /\ \A i \in 2 .. n : s[i] = t[i - 1]
  BY TailSet
<1>2. Len(t) = n - 1
  BY HeadTailProperties
<1> HIDE DEF t, n, h
<1>3. \A i \in Nat \ {0} : Undrained(s, i + 1) <=> Undrained(t, i)
  <2> SUFFICES ASSUME NEW i \in Nat \ {0} PROVE Undrained(s, i + 1) <=> Undrained(t, i)
    OBVIOUS
  <2>1. ASSUME NEW j \in (i + 1) .. n, s[j].kind = "undrain" PROVE Undrained(t, i)
    <3>1. j - 1 \in i .. Len(t) /\ t[j - 1] = s[j]
      BY <1>1, <1>2
    <3> QED
      BY <2>1, <3>1 DEF Undrained
  <2>2. ASSUME NEW j \in i .. (n - 1), t[j].kind = "undrain" PROVE Undrained(s, i + 1)
    <3>1. j + 1 \in (i + 1) .. Len(s) /\ s[j + 1] = t[j]
      BY <1>1, <1>2 DEF n
    <3> QED
      BY <2>2, <3>1 DEF Undrained
  <2> QED
    BY <1>2, <2>1, <2>2 DEF Undrained, n
<1> DEFINE Later(u) == \E i \in DOMAIN u : u[i].kind = "drain" /\ ~Undrained(u, i + 1)
<1>4. ASSUME NEW i \in DOMAIN t, t[i].kind = "drain", ~Undrained(t, i + 1) PROVE Later(s)
  <2>1. i + 1 \in DOMAIN s /\ s[i + 1] = t[i] /\ i + 1 \in Nat \ {0}
    BY <1>1
  <2> QED
    BY <1>3, <1>4, <2>1
<1>5. ASSUME NEW i \in DOMAIN s, i # 1, s[i].kind = "drain", ~Undrained(s, i + 1) PROVE Later(t)
  <2>1. i - 1 \in DOMAIN t /\ t[i - 1] = s[i] /\ i \in Nat \ {0} /\ (i - 1) + 1 = i
    BY <1>1, <1>5
  <2> QED
    BY <1>3, <1>5, <2>1
<1>6. Undrained(s, 2) <=> Undrained(t, 1)
  BY <1>3
<1>7. /\ Later(s) <=> Later(t) \/ (h.kind = "drain" /\ ~Undrained(t, 1))
      /\ Undrained(s, 1) <=> h.kind = "undrain" \/ Undrained(t, 1)
  <2>1. Later(s) => Later(t) \/ (h.kind = "drain" /\ ~Undrained(t, 1))
    BY <1>1, <1>5, <1>6
  <2>2. Later(t) => Later(s)
    BY <1>4
  <2>3. h.kind = "drain" /\ ~Undrained(t, 1) => Later(s)
    BY <1>1, <1>6
  <2>4. Undrained(s, 1) <=> h.kind = "undrain" \/ Undrained(s, 2)
    BY <1>1 DEF Undrained, n
  <2> QED
    BY <1>6, <2>1, <2>2, <2>3, <2>4
<1>8. \A u, b : Drains(u, b) = ((b /\ ~Undrained(u, 1)) \/ Later(u))
  BY DEF Drains
<1>9. Undrained(t, 1) \in BOOLEAN /\ Later(t) \in BOOLEAN
  BY DEF Undrained
<1> HIDE DEF Later
<1>10. /\ h.kind = "drain" => (Drains(s, d) <=> Drains(t, TRUE))
       /\ h.kind = "undrain" => (Drains(s, d) <=> Drains(t, FALSE))
       /\ h.kind \notin {"drain", "undrain"} => (Drains(s, d) <=> Drains(t, d))
  BY <1>7, <1>8
<1>11. \A u, b : Drains(u, b) \in BOOLEAN
  BY DEF Drains
<1> QED
  BY <1>10, <1>11 DEF t, h

(* A loop that was told to stop stays told, whatever its strand is given.  *)
LEMMA ControlNext ==
    ASSUME TypeInv, LoopInv, LoopsControlled, [Next]_vars
    PROVE  LoopsControlled'
<1> USE DEF server, loop, accepts, session, history, bounds
<1> DEFINE st == Job("stop")
<1>0. /\ \A l \in 1 .. loops : l \in Loops /\ Controlled(l)
      /\ \A l \in Loops : strand[l] \in Seq(Jobs)
      /\ shutting_down \in BOOLEAN
  <2>1. loops \in Nat /\ MaxLoops \in Nat /\ loops <= MaxLoops
    BY ServerAssumption, LenProperties DEF TypeInv
  <2>2. \A l \in 1 .. loops : l \in Loops
    BY <2>1 DEF Loops
  <2> QED
    BY <2>2 DEF TypeInv, LoopsControlled, Controlled
<1>1. \A l \in Current : l \in 1 .. loops
  BY DEF Current, LoopInv
<1>w. \A l \in Loops : /\ WillDrain(l) = Drains(strand[l], draining[l])
                       /\ WillDrain(l)' = Drains(strand'[l], draining'[l])
  BY WillDrainIs DEF WillDrain, Drains, Undrained
<1>j. /\ \A k \in {"stop", "drain", "undrain"} : Job(k) \in Jobs /\ Job(k).kind = k
      /\ Job("error") \in Jobs /\ Job("error").kind = "error"
      /\ Job("timeout") \in Jobs /\ Job("timeout").kind = "timeout"
      /\ \A c \in Conns : Accepted(c) \in Jobs /\ Accepted(c).kind = "accepted"
  BY JobFacts DEF Kinds
<1>q. SUFFICES \A l \in 1 .. loops' : Controlled(l)'
  BY DEF LoopsControlled, Controlled
<1>2. CASE Quiet
  <2>1. UNCHANGED <<acceptors, shutting_down, loops, stopped, draining, strand>>
    BY <1>2 DEF Quiet
  <2> SUFFICES ASSUME NEW l \in 1 .. loops PROVE Controlled(l)'
    BY <2>1
  <2>2. l \in Loops /\ Controlled(l)
    BY <1>0
  <2>3. WillDrain(l)' = WillDrain(l)
    BY <1>w, <2>1, <2>2
  <2> QED
    BY <2>1, <2>2, <2>3 DEF Controlled, ToldToStop, Current
<1>3. ASSUME NEW p \in Ports, RemovePort(p) PROVE \A l \in 1 .. loops' : Controlled(l)'
  <2>1. /\ strand' = Dispatched({acceptors[p]} \ {0}, "stop")
        /\ acceptors' = [acceptors EXCEPT ![p] = 0]
        /\ UNCHANGED <<loops, stopped, draining, shutting_down>>
    BY <1>3 DEF RemovePort
  <2> SUFFICES ASSUME NEW l \in 1 .. loops PROVE Controlled(l)'
    BY <2>1
  <2>2. l \in Loops /\ Controlled(l) /\ l # 0 /\ strand[l] \in Seq(Jobs)
    BY <1>0
  <2>3. CASE l = acceptors[p]
    <3>1. strand'[l] = Append(strand[l], st)
      BY <2>1, <2>2, <2>3 DEF Dispatched
    <3>2. st \in ToSet(strand'[l])
      BY <1>j, <2>2, <3>1, AppendSet
    <3> QED
      BY <3>2 DEF Controlled, ToldToStop
  <2>4. CASE l # acceptors[p]
    <3>1. strand'[l] = strand[l]
      BY <2>1, <2>2, <2>4 DEF Dispatched
    <3>2. l \in Current => l \in Current'
      BY <2>1, <2>4 DEF Current, TypeInv
    <3>3. ToldToStop(l) => ToldToStop(l)'
      BY <2>1, <3>1 DEF ToldToStop
    <3>4. WillDrain(l)' = WillDrain(l)
      BY <1>w, <2>1, <2>2, <3>1
    <3> QED
      BY <2>1, <2>2, <3>2, <3>3, <3>4 DEF Controlled
  <2> QED
    BY <2>3, <2>4
<1>4. ASSUME NEW enable \in BOOLEAN, EnableDrainingMode(enable)
      PROVE  \A l \in 1 .. loops' : Controlled(l)'
  <2> DEFINE k == IF enable THEN "drain" ELSE "undrain"
  <2>1. /\ strand' = Dispatched(Current, k)
        /\ shutting_down' = enable
        /\ UNCHANGED <<acceptors, loops, stopped, draining>>
    BY <1>4 DEF EnableDrainingMode
  <2> SUFFICES ASSUME NEW l \in 1 .. loops PROVE Controlled(l)'
    BY <2>1
  <2>2. l \in Loops /\ Controlled(l) /\ strand[l] \in Seq(Jobs)
    BY <1>0
  <2>3. CASE l \in Current
    <3>1. strand'[l] = Append(strand[l], Job(k))
      BY <2>1, <2>2, <2>3 DEF Dispatched
    <3>2. Drains(strand'[l], draining'[l]) <=> enable
      BY <1>j, <2>2, <3>1, DrainsAppend
    <3>3. WillDrain(l)' = enable
      BY <1>w, <2>2, <3>2 DEF Drains
    <3>4. l \in Current'
      BY <2>1, <2>3 DEF Current
    <3> QED
      BY <2>1, <3>3, <3>4 DEF Controlled
  <2>4. CASE l \notin Current
    <3>1. strand'[l] = strand[l]
      BY <2>1, <2>2, <2>4 DEF Dispatched
    <3> QED
      BY <2>1, <2>2, <2>4, <3>1 DEF Controlled, ToldToStop
  <2> QED
    BY <2>3, <2>4
<1>5. ASSUME NEW force, Stop(force) PROVE \A l \in 1 .. loops' : Controlled(l)'
  <2>1. /\ strand' = Dispatched(Current, "stop")
        /\ UNCHANGED <<acceptors, loops, stopped, draining>>
    BY <1>5 DEF Stop
  <2> SUFFICES ASSUME NEW l \in 1 .. loops PROVE ToldToStop(l)'
    BY <2>1 DEF Controlled
  <2>2. l \in Loops /\ Controlled(l) /\ strand[l] \in Seq(Jobs)
    BY <1>0
  <2>3. CASE l \in Current
    <3>1. strand'[l] = Append(strand[l], st)
      BY <2>1, <2>2, <2>3 DEF Dispatched
    <3>2. st \in ToSet(strand'[l])
      BY <1>j, <2>2, <3>1, AppendSet
    <3> QED
      BY <3>2 DEF ToldToStop
  <2>4. CASE l \notin Current
    <3>1. strand'[l] = strand[l]
      BY <2>1, <2>2, <2>4 DEF Dispatched
    <3> QED
      BY <2>1, <2>2, <2>4, <3>1 DEF Controlled, ToldToStop
  <2> QED
    BY <2>3, <2>4
<1>6. CASE StartPort
  <2> DEFINE p == Head(starting)
             n == loops + 1
  <2>1. /\ n \in Loops /\ loops' = n /\ p \in Ports /\ Bindable(p)
        /\ acceptors' = [acceptors EXCEPT ![p] = n]
        /\ strand' = [strand EXCEPT ![n] = LambdasOfStart]
        /\ UNCHANGED <<shutting_down, stopped, draining>>
    BY <1>6, StartPortEffect
  <2>t. loops \in Nat
    BY DEF TypeInv
  <2>2. ASSUME NEW m, m = n PROVE Controlled(m)'
    <3>0. m \in Loops /\ m = loops + 1
      BY <2>1, <2>2
    <3>1. strand'[m] = LambdasOfStart /\ draining'[m] = draining[m]
      BY <2>1, <3>0 DEF TypeInv
    <3>2. draining[m] = FALSE
      <4>1. m > loops
        BY <2>t, <3>0
      <4> QED
        BY <3>0, <4>1 DEF LoopInv, Unborn, TypeInv
    <3>3. \E q \in Ports : acceptors'[q] = m
      BY <2>1, <3>0 DEF TypeInv
    <3>4. m \in Current'
      BY <2>t, <3>0, <3>3 DEF Current
    <3> DEFINE d == Job("drain")
               b == Job("start")
    <3>5. d.kind = "drain" /\ b.kind = "start" /\ b \in Jobs /\ d \in Jobs
      BY JobFacts DEF Kinds
    <3> HIDE DEF d, b
    <3>6. ASSUME NEW x, x.kind = "drain", NEW y, y.kind = "start"
          PROVE  Drains(<<x, y>>, FALSE) /\ ~Drains(<<y>>, FALSE)
      <4>1. /\ DOMAIN <<x, y>> = 1 .. 2 /\ Len(<<x, y>>) = 2
            /\ <<x, y>>[1] = x /\ <<x, y>>[2] = y
            /\ DOMAIN <<y>> = 1 .. 1 /\ <<y>>[1] = y
        OBVIOUS
      <4>2. \A i \in 2 .. 2 : <<x, y>>[i] = y
        BY <4>1
      <4>3. ~Undrained(<<x, y>>, 1 + 1)
        BY <3>6, <4>1, <4>2 DEF Undrained
      <4>4. 1 \in DOMAIN <<x, y>>
        BY <4>1
      <4> QED
        BY <3>6, <4>1, <4>3, <4>4 DEF Drains
    <3>7. CASE shutting_down
      <4>1. strand'[m] = <<d, b>>
        BY <3>1, <3>7, StartJobs DEF d, b
      <4>2. Drains(<<d, b>>, FALSE) = TRUE
        BY <3>5, <3>6 DEF Drains
      <4>3. WillDrain(m)' = shutting_down
        BY <1>w, <1>0, <3>0, <3>1, <3>2, <3>7, <4>1, <4>2
      <4> QED
        BY <2>1, <3>4, <4>3 DEF Controlled
    <3>8. CASE ~shutting_down
      <4>1. strand'[m] = <<b>>
        BY <3>1, <3>8, StartJobs DEF b
      <4>2. Drains(<<b>>, FALSE) = FALSE
        BY <3>5, <3>6 DEF Drains
      <4>3. WillDrain(m)' = shutting_down
        BY <1>w, <1>0, <3>0, <3>1, <3>2, <3>8, <4>1, <4>2
      <4> QED
        BY <2>1, <3>4, <4>3 DEF Controlled
    <3> QED
      BY <3>7, <3>8
  <2>3. ASSUME NEW l \in 1 .. loops PROVE Controlled(l)'
    <3>1. l \in Loops /\ Controlled(l) /\ l # n
      BY <1>0, <2>t
    <3>2. strand'[l] = strand[l] /\ stopped'[l] = stopped[l] /\ draining'[l] = draining[l]
      BY <2>1, <3>1 DEF TypeInv
    <3>3. ToldToStop(l) => ToldToStop(l)'
      BY <3>2 DEF ToldToStop
    <3>4. CASE l = acceptors[p]
      <4>1. port[l] = p
        BY <2>1, <3>1, <3>4, <2>t DEF LoopInv
      <4>2. stopped[l]
        BY <2>1, <4>1 DEF Bindable, LoopInv
      <4> QED
        BY <3>2, <4>2 DEF Controlled, ToldToStop
    <3>5. CASE l # acceptors[p]
      <4>1. l \in Current => l \in Current'
        BY <2>1, <3>5 DEF Current, TypeInv
      <4>2. WillDrain(l)' = WillDrain(l)
        BY <1>w, <3>1, <3>2
      <4> QED
        BY <2>1, <3>1, <3>3, <4>1, <4>2 DEF Controlled
    <3> QED
      BY <3>4, <3>5
  <2>4. \A l \in 1 .. n : l = n \/ l \in 1 .. loops
    BY <2>t
  <2> QED
    BY <2>1, <2>2, <2>3, <2>4
<1>7. ASSUME NEW k \in Loops, LoopStep(k) PROVE \A l \in 1 .. loops' : Controlled(l)'
  <2>1. /\ UNCHANGED <<acceptors, shutting_down, loops>>
        /\ \A l \in Loops : l # k => Same(l)
        /\ stopped[k] => stopped'[k]
    BY <1>7, StepIsLocal
  <2>2. ASSUME NEW l \in 1 .. loops, l # k PROVE Controlled(l)'
    <3>1. l \in Loops /\ Controlled(l) /\ Same(l)
      BY <1>0, <2>1, <2>2
    <3>2. WillDrain(l)' = WillDrain(l)
      BY <1>w, <3>1 DEF Same
    <3> QED
      BY <2>1, <3>1, <3>2 DEF Controlled, ToldToStop, Current, Same
  <2>3. ASSUME k \in 1 .. loops PROVE Controlled(k)'
    <3>1. Controlled(k) /\ strand[k] \in Seq(Jobs)
      BY <1>0, <2>3
    <3>2. CASE stopped'[k]
      BY <3>2 DEF Controlled, ToldToStop
    <3>3. ASSUME st \in ToSet(strand[k]) => st \in ToSet(strand'[k]),
                 Drains(strand'[k], draining'[k]) = Drains(strand[k], draining[k])
          PROVE  Controlled(k)'
      <4>1. WillDrain(k)' = WillDrain(k)
        BY <1>w, <3>3
      <4> QED
        BY <2>1, <3>1, <3>3, <4>1 DEF Controlled, ToldToStop, Current
    <3>4. CASE RegisterSession(k)
      BY <3>3, <3>4 DEF RegisterSession
    <3>5. CASE AcceptFails(k) \/ TimerExpires(k) \/ \E c \in Conns : Connect(k, c)
      <4>1. PICK e \in Jobs : strand'[k] = Append(strand[k], e) /\ e.kind \notin {"drain", "undrain"}
        BY <1>j, <3>5 DEF AcceptFails, TimerExpires, Connect, TypeInv
      <4>2. draining'[k] = draining[k]
        BY <3>5 DEF AcceptFails, TimerExpires, Connect
      <4>3. ToSet(strand'[k]) = ToSet(strand[k]) \cup {e}
        BY <3>1, <4>1, AppendSet
      <4> QED
        BY <3>1, <3>3, <4>1, <4>2, <4>3, DrainsAppend
    <3>6. CASE RunStop(k)
      BY <3>2, <3>6 DEF RunStop, TypeInv
    <3>r. ASSUME NEW kd, Runs(k, kd), kd # "stop"
          PROVE  /\ strand[k] # <<>> /\ Head(strand[k]).kind = kd
                 /\ Rest(k) \in Seq(Jobs)
                 /\ st \in ToSet(strand[k]) => st \in ToSet(Rest(k))
      <4>1. strand[k] # <<>> /\ Head(strand[k]).kind = kd
        BY <3>r DEF Runs
      <4>2. Head(strand[k]) # st
        BY <1>j, <3>r, <4>1
      <4> QED
        BY <3>1, <4>1, <4>2, TailSet, StrandType DEF Rest
    <3>7. ASSUME NEW enable \in BOOLEAN, RunDraining(k, enable) PROVE Controlled(k)'
      <4> DEFINE kd == IF enable THEN "drain" ELSE "undrain"
      <4>1. /\ Runs(k, kd) /\ kd # "stop"
            /\ strand'[k] = Tail(strand[k]) /\ draining'[k] = enable
        BY <3>7 DEF RunDraining, TypeInv, Rest
      <4>2. Head(strand[k]).kind = kd /\ strand[k] # <<>>
        BY <3>r, <4>1
      <4>3. Drains(strand[k], draining[k]) = Drains(Tail(strand[k]), enable)
        BY <3>1, <4>2, DrainsTail
      <4>4. st \in ToSet(strand[k]) => st \in ToSet(strand'[k])
        BY <3>r, <4>1 DEF Rest
      <4> QED
        BY <3>3, <4>1, <4>3, <4>4
    <3>8. CASE \/ RunStart(k) \/ RunTimeout(k) \/ AcceptStopped(k) \/ AcceptError(k)
               \/ AcceptRefused(k) \/ CreateSession(k)
      <4>1. PICK kd \in {"start", "timeout", "error", "accepted"} : Runs(k, kd)
        BY <3>8 DEF RunStart, RunTimeout, AcceptStopped, AcceptError, AcceptRefused,
           CreateSession
      <4>2. strand[k] # <<>> /\ Head(strand[k]).kind = kd /\ Rest(k) \in Seq(Jobs)
            /\ (st \in ToSet(strand[k]) => st \in ToSet(Rest(k)))
        BY <3>r, <4>1
      <4>3. Drains(strand[k], draining[k]) = Drains(Rest(k), draining[k])
        BY <3>1, <4>1, <4>2, DrainsTail DEF Rest
      <4>4. draining'[k] = draining[k]
        BY <3>8 DEF RunStart, RunTimeout, AcceptStopped, AcceptError, AcceptRefused,
           CreateSession
      <4>5. strand'[k] = Rest(k) \/ strand'[k] = Append(Rest(k), Job("error"))
        BY <3>8 DEF RunStart, RunTimeout, AcceptStopped, AcceptError, AcceptRefused,
           CreateSession, Cancelled, TypeInv
      <4>6. CASE strand'[k] = Rest(k)
        BY <3>3, <4>2, <4>3, <4>4, <4>6
      <4>7. CASE strand'[k] = Append(Rest(k), Job("error"))
        <5>1. /\ ToSet(strand'[k]) = ToSet(Rest(k)) \cup {Job("error")}
              /\ Drains(strand'[k], draining[k]) = Drains(Rest(k), draining[k])
          BY <1>j, <4>2, <4>7, AppendSet, DrainsAppend
        <5> QED
          BY <3>3, <4>2, <4>3, <4>4, <5>1
      <4> QED
        BY <4>5, <4>6, <4>7
    <3> QED
      BY <1>7, <3>4, <3>5, <3>6, <3>7, <3>8 DEF LoopStep, Strand
  <2> QED
    BY <2>1, <2>2, <2>3
<1> QED
  BY <1>2, <1>3, <1>4, <1>5, <1>6, <1>7, NextSplit DEF Calls

(* Whatever Start, RemovePort, Stop and EnableDrainingMode do to ports and *)
(* loops, and however late the strands run what they dispatched: a loop is *)
(* either told to stop, or still held in acceptors_ with its drain mode on *)
(* the way to the server's.                                                *)
THEOREM NoLoopEscapes == Spec => []LoopsControlled
<1>1. Init => LoopsControlled
  BY DEF Init, LoopsControlled
<1>2. TypeInv /\ LoopInv /\ LoopsControlled /\ [Next]_vars => LoopsControlled'
  BY ControlNext
<1> QED
  BY <1>1, <1>2, TurnInvariant, PTL DEF Spec
=============================================================================
