\* A job evicted between the lookup and the answer.
CONSTANTS
    MaxJobs = 1
    Workers = {w1, w2}
    MaxSubmits = 2
    PollCadence = 1
    RequestTimeout = 1
    Word = 8
    Timeouts = {1, Absent, Malformed}
    Absent = Absent
    Malformed = Malformed
SPECIFICATION Spec
INVARIANTS
    NoUndefined
CHECK_DEADLOCK FALSE
