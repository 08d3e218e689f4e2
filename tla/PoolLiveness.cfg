\* Progress of the workers and of the destructor, and the futures.
CONSTANTS
    NumThreads = 2
    Submitters = {s1}
    Tasks = {t1, t2}
    None = None
    Kinds = {"result"}
    QueueCap = 2
    SizeMod = 16
    ModeSet = {"RoundRobin", "WorkStealing"}
    MaxSet = {2}
    BreakerSet = {TRUE}
    DrainSet = {TRUE}
    ThreadSet = {2}
    Configs <- MCConfigs
SPECIFICATION FairSpec
PROPERTIES
    AcceptedTasksRun
    FuturesResolve
    HeardShutdownCompletes
    FutureSetOnce
