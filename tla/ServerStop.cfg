\* One port is started once; Stop races the accept of a connection.
CONSTANTS
    Ports = {p1}
    NoProvider = {}
    MaxConns = 1
    MaxLoops = 1
    MaxPorts = 1
    MaxToggles = 0
    MaxStops = 1
SPECIFICATION Spec
CHECK_DEADLOCK FALSE
INVARIANT StopTearsDown
