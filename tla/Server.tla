------------------------------- MODULE Server -------------------------------
(***************************************************************************)
(* The accepting side of the server: tcp::TcpServer with its ports, one    *)
(* tcp::AcceptorLoop per started port, and what they change in Controller  *)
(* (RegisterSession, ShutdownAllSessions) and SessionManager.              *)
(*                                                                         *)
(* Calls of TcpServer come from the application's threads and hold mu_     *)
(* while they look at the ports and loops; they reach a loop only through  *)
(* its strand, as dispatched lambdas that run later, one at a time and in  *)
(* order with the loop's accept and timer handlers.  strand[l] is that     *)
(* queue.  A session's own handlers run on the io_context, beside the      *)
(* strand that starts it.                                                  *)
(*                                                                         *)
(* A session is known by its connection, and module Session describes it;  *)
(* here it ends by itself, which calls on_disconnect_, or is closed, which *)
(* does not.  Two things the code refers to are not in the repository: the *)
(* acceptor that TcpServer's loops open on their port, and                 *)
(* Controller::UnregisterSession, which is called without an id: it may or *)
(* may not find the session to remove.  SessionManager::Drain, as the      *)
(* controller calls it, is SessionManager::Close.  Left out: the hooks for *)
(* metrics, the drain callback and plugin bundles, and the shutdown of the *)
(* channels, of which there are none.                                      *)
(***************************************************************************)
EXTENDS Integers, Sequences, FiniteSets, SequencesExt

CONSTANTS
    Ports,        \* the ports the application may add
    NoProvider,   \* those it adds without the TLS provider its streams need
    MaxConns,     \* how many connections there are at a time
    MaxLoops,     \* how many loops are created
    MaxPorts,     \* the most entries of ports_
    MaxToggles,   \* how often EnableDrainingMode is called
    MaxStops      \* how often Stop is called

ASSUME ServerAssumption ==
    /\ NoProvider \subseteq Ports
    /\ {MaxConns, MaxLoops, MaxPorts, MaxToggles, MaxStops} \subseteq Nat

Loops == 1 .. MaxLoops
Conns == 1 .. MaxConns

VARIABLES
    ports,          \* ports_
    acceptors,      \* acceptors_: the loop of each port, or 0
    shutting_down,  \* shutting_down_
    starting,       \* the entries of ports_ that Start has not come to
    stopping,       \* Stop: "none", or its force flag before the drain
    loops,          \* how many loops exist
    port,           \* the port of each loop
    listening,      \* acceptor_ is open
    stopped,        \* stopped_
    draining,       \* draining_
    strand,         \* what waits on strand_, oldest first
    accepting,      \* an async_accept is pending
    timed,          \* the timer of the last DoAccept is waited for
    registering,    \* the session OnSessionAccepted has started, or 0
    conn,           \* each connection: "new" before it is made and after its
                    \* session ended, "accepted", "running" as a session,
                    \* "closing" when it is told to close
    registry,       \* SessionManager::sessions_
    late,           \* sessions each loop registered after it was told to stop
    crashed,        \* the process has dereferenced a null pointer
    toggles, stops  \* the calls that are bounded

server  == <<ports, acceptors, shutting_down, starting, stopping>>
loop    == <<loops, port, listening, stopped, draining>>
accepts == <<strand, accepting, timed, registering>>
session == <<conn, registry>>
history == <<late>>
bounds  == <<crashed, toggles, stops>>

vars == <<server, loop, accepts, session, history, bounds>>

Init ==
    /\ ports = <<>>
    /\ acceptors = [p \in Ports |-> 0]
    /\ shutting_down = FALSE
    /\ starting = <<>>
    /\ stopping = "none"
    /\ loops = 0
    /\ port = <<>>
    /\ listening = [l \in Loops |-> FALSE]
    /\ stopped = [l \in Loops |-> FALSE]
    /\ draining = [l \in Loops |-> FALSE]
    /\ strand = [l \in Loops |-> <<>>]
    /\ accepting = [l \in Loops |-> FALSE]
    /\ timed = [l \in Loops |-> FALSE]
    /\ registering = [l \in Loops |-> 0]
    /\ conn = [c \in Conns |-> "new"]
    /\ registry = {}
    /\ late = [l \in Loops |-> 0]
    /\ crashed = FALSE
    /\ toggles = 0 /\ stops = 0

-----------------------------------------------------------------------------
(* The strands.                                                            *)

Job(k)      == [kind |-> k, conn |-> 0]
Accepted(c) == [kind |-> "accepted", conn |-> c]

(* asio::dispatch(strand_, ...) to every loop of a set.                    *)
Dispatched(ls, k) == [l \in Loops |-> IF l \in ls THEN Append(strand[l], Job(k))
                                      ELSE strand[l]]

Current == {acceptors[p] : p \in Ports} \ {0}

(* A loop was told to stop, whether or not the lambda has run.             *)
ToldToStop(l) == stopped[l] \/ Job("stop") \in ToSet(strand[l])

-----------------------------------------------------------------------------
(* TcpServer.  mu_ is free when no Start is on its way.                    *)

Unlocked == starting = <<>>

AddPort(p) ==
    /\ Unlocked
    /\ Len(ports) < MaxPorts
    /\ ports' = Append(ports, p)
    /\ UNCHANGED <<acceptors, shutting_down, starting, stopping, loop, accepts,
                   session, history, bounds>>

(* The entries of ports_ that stay keep their order.                       *)
Erase(p) ==
    LET kept == {i \in DOMAIN ports : ports[i] # p}
    IN  \E f \in [1 .. Cardinality(kept) -> kept] :
            /\ \A i, j \in DOMAIN f : i < j => f[i] < f[j]
            /\ ports' = [i \in DOMAIN f |-> ports[f[i]]]

RemovePort(p) ==
    /\ Unlocked
    /\ p \in ToSet(ports)
    /\ strand' = Dispatched({acceptors[p]} \ {0}, "stop")
    /\ acceptors' = [acceptors EXCEPT ![p] = 0]
    /\ Erase(p)
    /\ UNCHANGED <<shutting_down, starting, stopping, loop, accepting, timed,
                   registering, session, history, bounds>>

Start ==
    /\ Unlocked
    /\ ports # <<>>
    /\ loops + Len(ports) <= MaxLoops
    /\ starting' = ports
    /\ UNCHANGED <<ports, acceptors, shutting_down, stopping, loop, accepts,
                   session, history, bounds>>

(* Opening an acceptor fails while another one listens on its port.        *)
Bindable(p) == \A l \in 1 .. loops : port[l] = p => ~listening[l]

(* Start throws, and does not come to the other ports.                     *)
StartThrows ==
    /\ ~Unlocked
    /\ Head(starting) \in NoProvider \/ ~Bindable(Head(starting))
    /\ starting' = <<>>
    /\ UNCHANGED <<ports, acceptors, shutting_down, stopping, loop, accepts,
                   session, history, bounds>>

(* Variant: a loop made during a shutdown is not told to drain.            *)
LambdasOfStartAlone == <<Job("start")>>

LambdasOfStart ==
    (IF shutting_down THEN <<Job("drain")>> ELSE <<>>) \o <<Job("start")>>

(* One iteration: a new loop, which replaces the port's last one.          *)
StartPort ==
    /\ ~Unlocked
    /\ LET p == Head(starting)
           l == loops + 1
       IN  /\ p \notin NoProvider /\ Bindable(p)
           /\ starting' = Tail(starting)
           /\ loops' = l
           /\ port' = Append(port, p)
           /\ listening' = [listening EXCEPT ![l] = TRUE]
           /\ strand' = [strand EXCEPT ![l] = LambdasOfStart]
           /\ acceptors' = [acceptors EXCEPT ![p] = l]
    /\ UNCHANGED <<ports, shutting_down, stopping, stopped, draining, accepting,
                   timed, registering, session, history, bounds>>

(* The application calls it to change the mode.                            *)
EnableDrainingMode(enable) ==
    /\ Unlocked
    /\ toggles < MaxToggles
    /\ enable # shutting_down
    /\ toggles' = toggles + 1
    /\ shutting_down' = enable
    /\ strand' = Dispatched(Current, IF enable THEN "drain" ELSE "undrain")
    /\ UNCHANGED <<ports, acceptors, starting, stopping, loop, accepting, timed,
                   registering, session, history, crashed, stops>>

(* The first half of Stop, under mu_.                                      *)
Stop(force) ==
    /\ Unlocked
    /\ stopping = "none"
    /\ stops < MaxStops
    /\ stops' = stops + 1
    /\ stopping' = force
    /\ shutting_down' = TRUE
    /\ strand' = Dispatched(Current, "stop")
    /\ UNCHANGED <<ports, acceptors, starting, loop, accepting, timed,
                   registering, session, history, crashed, toggles>>

(* Variant: the sessions are removed before they are told to close.        *)
DrainCleared ==
    /\ registry' = IF stopping = "force" THEN {} ELSE registry
    /\ conn' = [c \in Conns |-> IF c \in registry' /\ conn[c] = "running"
                                THEN "closing" ELSE conn[c]]

(* The second half, without waiting for the strands: ShutdownAllSessions,  *)
(* which closes the registered sessions, and removes them if forced.       *)
Drain ==
    /\ conn' = [c \in Conns |-> IF c \in registry /\ conn[c] = "running"
                                THEN "closing" ELSE conn[c]]
    /\ registry' = IF stopping = "force" THEN {} ELSE registry

StopDrain ==
    /\ stopping # "none"
    /\ Drain
    /\ stopping' = "none"
    /\ UNCHANGED <<ports, acceptors, shutting_down, starting, loop, accepts,
                   history, bounds>>

-----------------------------------------------------------------------------
(* AcceptorLoop: what its strand runs.  Each action takes the oldest job.  *)

Runs(l, k) ==
    /\ registering[l] = 0
    /\ strand[l] # <<>>
    /\ Head(strand[l]).kind = k

Rest(l) == Tail(strand[l])

(* Cancelling the acceptor completes the pending accept with an error.     *)
Cancelled(l, rest) == IF accepting[l] THEN Append(rest, Job("error")) ELSE rest

DoAccept(l) ==
    /\ accepting' = [accepting EXCEPT ![l] = ~stopped[l]]
    /\ timed' = [timed EXCEPT ![l] = ~stopped[l]]

RunStart(l) ==
    /\ Runs(l, "start")
    /\ strand' = [strand EXCEPT ![l] = Rest(l)]
    /\ DoAccept(l)
    /\ UNCHANGED <<server, loop, registering, session, history, bounds>>

RunStop(l) ==
    /\ Runs(l, "stop")
    /\ stopped' = [stopped EXCEPT ![l] = TRUE]
    /\ listening' = [listening EXCEPT ![l] = FALSE]
    /\ strand' = [strand EXCEPT ![l] = Cancelled(l, Rest(l))]
    /\ accepting' = [accepting EXCEPT ![l] = FALSE]
    /\ UNCHANGED <<server, loops, port, draining, timed, registering, session,
                   history, bounds>>

RunDraining(l, enable) ==
    /\ Runs(l, IF enable THEN "drain" ELSE "undrain")
    /\ draining' = [draining EXCEPT ![l] = enable]
    /\ strand' = [strand EXCEPT ![l] = Rest(l)]
    /\ UNCHANGED <<server, loops, port, listening, stopped, accepting, timed,
                   registering, session, history, bounds>>

(* The timer's handler.  The accept it was meant for may have completed:   *)
(* then it cancels the next one.                                           *)
RunTimeout(l) ==
    /\ Runs(l, "timeout")
    /\ strand' = [strand EXCEPT ![l] = Cancelled(l, Rest(l))]
    /\ accepting' = [accepting EXCEPT ![l] = FALSE]
    /\ UNCHANGED <<server, loop, timed, registering, session, history, bounds>>

(* Variant: the handler of a stopped loop leaves its timer alone.          *)
AcceptStoppedTimed(l) ==
    /\ Runs(l, "error") \/ Runs(l, "accepted")
    /\ stopped[l]
    /\ strand' = [strand EXCEPT ![l] = Rest(l)]
    /\ conn' = [c \in Conns |-> IF c = Head(strand[l]).conn THEN "new"
                                ELSE conn[c]]
    /\ UNCHANGED <<server, loop, accepting, timed, registering, registry, history,
                   bounds>>

(* The accept's handler.  It cancels its timer in any case; the next       *)
(* DoAccept waits for a new one.                                           *)
AcceptStopped(l) ==
    /\ Runs(l, "error") \/ Runs(l, "accepted")
    /\ stopped[l]
    /\ strand' = [strand EXCEPT ![l] = Rest(l)]
    /\ timed' = [timed EXCEPT ![l] = FALSE]
    /\ conn' = [c \in Conns |-> IF c = Head(strand[l]).conn THEN "new"
                                ELSE conn[c]]
    /\ UNCHANGED <<server, loop, accepting, registering, registry, history, bounds>>

(* Variant: an error ends the loop.                                        *)
AcceptErrorEnds(l) ==
    /\ Runs(l, "error")
    /\ ~stopped[l]
    /\ strand' = [strand EXCEPT ![l] = Rest(l)]
    /\ timed' = [timed EXCEPT ![l] = FALSE]
    /\ UNCHANGED <<server, loop, accepting, registering, session, history, bounds>>

AcceptError(l) ==
    /\ Runs(l, "error")
    /\ ~stopped[l]
    /\ strand' = [strand EXCEPT ![l] = Rest(l)]
    /\ DoAccept(l)
    /\ UNCHANGED <<server, loop, registering, session, history, bounds>>

(* The peer has gone, filter_ refuses it, or the loop drains.              *)
AcceptRefused(l) ==
    /\ Runs(l, "accepted")
    /\ ~stopped[l]
    /\ strand' = [strand EXCEPT ![l] = Rest(l)]
    /\ conn' = [conn EXCEPT ![Head(strand[l]).conn] = "new"]
    /\ DoAccept(l)
    /\ UNCHANGED <<server, loop, registering, registry, history, bounds>>

(* Variant: stopped_ is not tested after the accept.                       *)
MayCreateSessionLate(l) == ~draining[l]

MayCreateSession(l) == ~stopped[l] /\ ~draining[l]

(* OnSessionAccepted as far as session->Start: the session runs, and its   *)
(* registration is still to come.                                          *)
OnSessionAccepted(l, c) ==
    /\ conn' = [conn EXCEPT ![c] = "running"]
    /\ registering' = [registering EXCEPT ![l] = c]

CreateSession(l) ==
    /\ Runs(l, "accepted")
    /\ MayCreateSession(l)
    /\ strand' = [strand EXCEPT ![l] = Rest(l)]
    /\ timed' = [timed EXCEPT ![l] = FALSE]
    /\ OnSessionAccepted(l, Head(strand[l]).conn)
    /\ UNCHANGED <<server, loop, accepting, registry, history, bounds>>

(* SessionManager::Add and Remove.                                         *)
AddSession(c)    == registry' = registry \cup {c}
RemoveSession(c) == registry' = registry \ {c}

(* Controller::RegisterSession, and the next accept.                       *)
RegisterSession(l) ==
    /\ registering[l] # 0
    /\ AddSession(registering[l])
    /\ registering' = [registering EXCEPT ![l] = 0]
    /\ late' = [late EXCEPT ![l] = IF ToldToStop(l) THEN @ + 1 ELSE @]
    /\ DoAccept(l)
    /\ UNCHANGED <<server, loop, strand, conn, bounds>>

-----------------------------------------------------------------------------
(* The network, the timers and the sessions.                               *)

(* A session's id is used once: a connection that is still registered, or  *)
(* about to be, is not made anew.                                          *)
Connect(l, c) ==
    /\ accepting[l]
    /\ conn[c] = "new"
    /\ c \notin registry /\ \A k \in Loops : registering[k] # c
    /\ conn' = [conn EXCEPT ![c] = "accepted"]
    /\ accepting' = [accepting EXCEPT ![l] = FALSE]
    /\ strand' = [strand EXCEPT ![l] = Append(@, Accepted(c))]
    /\ UNCHANGED <<server, loop, timed, registering, registry, history, bounds>>

AcceptFails(l) ==
    /\ accepting[l]
    /\ accepting' = [accepting EXCEPT ![l] = FALSE]
    /\ strand' = [strand EXCEPT ![l] = Append(@, Job("error"))]
    /\ UNCHANGED <<server, loop, timed, registering, session, history, bounds>>

TimerExpires(l) ==
    /\ timed[l]
    /\ timed' = [timed EXCEPT ![l] = FALSE]
    /\ strand' = [strand EXCEPT ![l] = Append(@, Job("timeout"))]
    /\ UNCHANGED <<server, loop, accepting, registering, session, history, bounds>>

(* The disconnect handler calls UnregisterSession, without the id.         *)
OnDisconnect(c) == RemoveSession(c) \/ UNCHANGED registry

(* The session shuts down: Session::Shutdown calls the handler it was      *)
(* given.  A session that is not registered yet will be.                   *)
Disconnect(c) ==
    /\ conn[c] \in {"running", "closing"}
    /\ conn' = [conn EXCEPT ![c] = "new"]
    /\ OnDisconnect(c)
    /\ UNCHANGED <<server, loop, accepts, history, bounds>>

(* Session::Close has closed the socket; no handler is called, and what is *)
(* registered stays registered.                                            *)
SessionCloses(c) ==
    /\ conn[c] = "closing"
    /\ conn' = [conn EXCEPT ![c] = "new"]
    /\ UNCHANGED <<server, loop, accepts, registry, history, bounds>>

-----------------------------------------------------------------------------
(* Messages.  Controller hands them to the channel managers.               *)

Channels == {}

(* GetChannel returns before the code that would create a channel, so that *)
(* channels_ stays empty and every lookup gives a null pointer.            *)
GetChannel(id) == IF id \in Channels THEN id ELSE "null"

(* A null channel is noticed, and used all the same.                       *)
Dispatch(id) ==
    /\ crashed' = (GetChannel(id) = "null")
    /\ UNCHANGED <<server, loop, accepts, session, history, toggles, stops>>

(* A session's message that OnInbound does not drop.  Sessions are given   *)
(* channels, messages are not: they go to channel 0.                       *)
RouteMessage(c) == conn[c] = "running" /\ Dispatch(0)

SendResponse == Dispatch(0)

-----------------------------------------------------------------------------
Strand(l) ==
    \/ RunStart(l) \/ RunStop(l) \/ RunTimeout(l)
    \/ \E enable \in BOOLEAN : RunDraining(l, enable)
    \/ AcceptStopped(l) \/ AcceptError(l) \/ AcceptRefused(l)
    \/ CreateSession(l) \/ RegisterSession(l)

Running ==
    \/ \E p \in Ports : AddPort(p) \/ RemovePort(p)
    \/ Start \/ StartPort \/ StartThrows
    \/ \E enable \in BOOLEAN : EnableDrainingMode(enable)
    \/ \E force \in {"graceful", "force"} : Stop(force)
    \/ StopDrain
    \/ \E l \in Loops :
          \/ Strand(l) \/ AcceptFails(l) \/ TimerExpires(l)
          \/ \E c \in Conns : Connect(l, c)
    \/ \E c \in Conns : Disconnect(c) \/ SessionCloses(c) \/ RouteMessage(c)
    \/ SendResponse

Next == ~crashed /\ Running

Spec == Init /\ [][Next]_vars

-----------------------------------------------------------------------------
(* Properties.                                                             *)

(* What draining_ will be when the strand has run what waits on it: the    *)
(* last lambda that sets it counts.                                        *)
WillDrain(l) ==
    LET undrained(from) == \E i \in from .. Len(strand[l]) : strand[l][i].kind = "undrain"
    IN  \/ draining[l] /\ ~undrained(1)
        \/ \E i \in DOMAIN strand[l] : strand[l][i].kind = "drain" /\ ~undrained(i + 1)

(* No loop escapes the server, however the calls that start loops, stop    *)
(* them and set the drain mode are interleaved: one that was not told to   *)
(* stop is in acceptors_, and drains, or will, when the server does.       *)
LoopsControlled ==
    \A l \in 1 .. loops :
        ToldToStop(l) \/ (l \in Current /\ WillDrain(l) = shutting_down)

(* A loop never dies of an error, a time-out that comes late or a refused  *)
(* connection: until it stops, it accepts, or what waits on its strand     *)
(* will.                                                                   *)
KeepsAccepting ==
    \A l \in 1 .. loops :
        \/ stopped[l] \/ accepting[l] \/ registering[l] # 0
        \/ \E i \in DOMAIN strand[l] :
               strand[l][i].kind \in {"start", "error", "accepted"}

(* Once a loop was told to stop, it registers at most one more session:    *)
(* the one whose accept was complete by then.                              *)
OneLateSession == \A l \in Loops : late[l] <= 1

(* No running session is out of reach of every later drain: it is in the   *)
(* registry, or its loop, which started it first, is about to register it, *)
(* wherever forced drains and other sessions' ends fall between the two.   *)
RunningRegistered ==
    \A c \in Conns : conn[c] = "running" =>
        c \in registry \/ \E l \in Loops : registering[l] = c

(* A loop that was told to stop comes to rest: when its strand has run     *)
(* everything, nothing is pending on its acceptor or its timer.            *)
StoppedQuiet ==
    \A l \in Loops : stopped[l] /\ strand[l] = <<>> /\ registering[l] = 0 =>
        ~accepting[l] /\ ~timed[l]

-----------------------------------------------------------------------------
(* What comments say and the code does not do.                             *)

(* "Stop accepting and tear down all sessions": when Stop has returned and *)
(* the loops have stopped, no session runs.                                *)
StopTearsDown ==
    stops = MaxStops /\ stopping = "none"
        /\ (\A l \in 1 .. loops : stopped[l] /\ registering[l] = 0)
    => \A c \in Conns : conn[c] # "running"

(* "Automatic Removal: unregister sessions upon their own shutdown         *)
(* callback".                                                              *)
AutomaticRemoval ==
    \A c \in registry : conn[c] # "new"

(* "Dispatch message to named channel": the process survives a message.    *)
MessagesDispatched == ~crashed

(* "can be called before Start or at runtime": a port that was added is    *)
(* started by the next Start.                                              *)
AddedPortStarts ==
    [][StartThrows => \A p \in ToSet(ports) : acceptors[p] # 0 \/ p \in NoProvider]_vars
=============================================================================
