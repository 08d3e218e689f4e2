\* The counter wrapped around below zero.
CONSTANTS
    NumThreads = 2
    Submitters = {s1, s2}
    Tasks = {t1, t2, t3}
    None = None
    Kinds = {"plain"}
    QueueCap = 3
    SizeMod = 32
    ModeSet = {"RoundRobin"}
    MaxSet = {3}
    BreakerSet = {TRUE}
    DrainSet = {TRUE}
    ThreadSet = {2}
    Configs <- MCConfigs
SPECIFICATION Spec
INVARIANT OnlyExcessDropped
