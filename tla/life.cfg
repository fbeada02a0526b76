\* The life of the process, with fairness.
CONSTANTS
    Clients = {c1, c2}
    BaseThreads = 1
    MaxThreads = 2
    KeepAliveMax = 2
    DrainTimes = {0, 1}
SPECIFICATION FairSpec
INVARIANTS
    LifecycleTypeOK
    ExitAfterWork
    StopFindsSocket
PROPERTIES
    StopsOnceListening
    EndsWithServer
    EveryRequestAnswered
CHECK_DEADLOCK FALSE
