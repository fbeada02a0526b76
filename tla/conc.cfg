\* Two handlers interleaving: safety.
CONSTANTS
    MaxJobs = 2
    Workers = {w1, w2}
    MaxSubmits = 3
    PollCadence = 1
    RequestTimeout = 1
    Word = 8
    Timeouts = {1}
    Absent = Absent
    Malformed = Malformed
SYMMETRY Symmetry
SPECIFICATION Spec
INVARIANTS
    TypeOK
    Retention
    NoLostResult
    OwnResult
    Bookkeeping
    OneOwner
    TakenMeansHanded
    OrphansOnlyByEviction
    DanglingOnlyWhenEvicted
PROPERTIES
    TakeOnce
    SaysTakenTruly
    ImplementsContract
CHECK_DEADLOCK FALSE
