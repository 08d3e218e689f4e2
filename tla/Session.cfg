\* Three messages, two calls of Close, errors, exceptions and late timers.
CONSTANTS
    Messages = {m1, m2, m3}
    SendAnywhere = FALSE
    MaxCloses = 2
    MaxExpired = 1
SPECIFICATION FairSpec
INVARIANTS
    WrittenInOrder
    NothingStuck
PROPERTIES
    GracefulDrains
    GracefulEnds
    SilentPeerNoticed
CHECK_DEADLOCK FALSE
