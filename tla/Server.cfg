\* One port, which is removed, added and started again, two loops for it.
CONSTANTS
    Ports = {p1}
    NoProvider = {}
    MaxConns = 1
    MaxLoops = 2
    MaxPorts = 1
    MaxToggles = 1
    MaxStops = 1
SPECIFICATION Spec
CHECK_DEADLOCK FALSE
INVARIANTS
    LoopsControlled
    KeepsAccepting
    OneLateSession
    RunningRegistered
    StoppedQuiet
