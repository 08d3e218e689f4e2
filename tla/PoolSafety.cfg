\* Two workers, two submitters, three tasks; work stealing, with a num_threads
\* that is changed at run time and may be out of range.
CONSTANTS
    NumThreads = 2
    Submitters = {s1, s2}
    Tasks = {t1, t2, t3}
    None = None
    Kinds = {"plain"}
    QueueCap = 1
    SizeMod = 16
    ModeSet = {"WorkStealing"}
    MaxSet = {1}
    BreakerSet = {TRUE}
    DrainSet = {TRUE}
    ThreadSet = {0, 1, 2, 3}
    Configs <- MCConfigs
SPECIFICATION Spec
SYMMETRY Symmetry
INVARIANTS
    IndicesInRange
    CounterExact
    QueueBound
    NoLostWakeup
    TaskAccounted
