\* One request, with a handler or an empty one, and three calls of the application:
\* two connections over TLS and a Close, a request across a Close, and so on,
\* with two threads running executor_.
CONSTANTS
    Requests = {r1}
    Push = Push
    Tls = TRUE
    MaxBatch = 1
    MaxCalls = 3
    MaxExpired = 1
    Runners = 2
SPECIFICATION FairSpec
INVARIANTS
    AnsweredOnce
    PendingExact
    ReadWatched
PROPERTIES
    ClosedLetGo
    RequestsAnswered
    SilentPeerDropped
CHECK_DEADLOCK FALSE
