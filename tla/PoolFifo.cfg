\* First-in first-out with two workers.
CONSTANTS
    NumThreads = 2
    Submitters = {s1, s2}
    Tasks = {t1, t2, t3}
    None = None
    Kinds = {"timed"}
    QueueCap = 2
    SizeMod = 16
    ModeSet = {"FIFO"}
    MaxSet = {2}
    BreakerSet = {TRUE}
    DrainSet = {TRUE, FALSE}
    ThreadSet = {2}
    Configs <- MCConfigs
SPECIFICATION Spec
PROPERTY ImplementsFifo
