\* The destructor's signal and a worker about to wait.
CONSTANTS
    NumThreads = 1
    Submitters = {s1}
    Tasks = {t1}
    None = None
    Kinds = {"plain"}
    QueueCap = 1
    SizeMod = 32
    ModeSet = {"FIFO"}
    MaxSet = {1}
    BreakerSet = {TRUE}
    DrainSet = {TRUE}
    ThreadSet = {1}
    Configs <- MCConfigs
SPECIFICATION FairSpec
PROPERTY ShutdownTerminates
