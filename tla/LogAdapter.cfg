\* Two loggers, a limit that changes, a registration that a clear overtakes,
\* shutdown.
CONSTANTS
    Loggers = {l1, l2}
    Messages = {m1, m2, m3}
    Registrars = {r1}
    MaxSizes = {1, 2}
    MaxClears = 2
    ClearFirst = TRUE
    Null = Null
    Empty = Empty
    None = None
SPECIFICATION FairSpec
INVARIANTS
    QueueWithinMax
    InOrderOnce
    DropsConserved
    ShutdownDrains
PROPERTIES
    AcceptedDelivered
    ShutdownCompletes
