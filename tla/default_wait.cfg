\* A wait that leaves the timeout to the host.
CONSTANTS
    MaxJobs = 2
    Workers = {w1}
    MaxSubmits = 2
    PollCadence = 1
    RequestTimeout = 2
    Word = 8
    Timeouts = {2, Absent, Malformed}
    Absent = Absent
    Malformed = Malformed
SPECIFICATION Spec
INVARIANTS
    DefaultWaitEnds
CHECK_DEADLOCK FALSE
