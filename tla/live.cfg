\* Two handlers interleaving: every request is answered.
CONSTANTS
    MaxJobs = 1
    Workers = {w1, w2}
    MaxSubmits = 2
    PollCadence = 1
    RequestTimeout = 2
    Word = 8
    Timeouts = {2, Absent, Malformed}
    Absent = Absent
    Malformed = Malformed
SPECIFICATION FairSpec
PROPERTIES
    EveryCallAnswered
CHECK_DEADLOCK FALSE
