\* Two handlers interleaving: a finished job goes back to WAITING.
CONSTANTS
    MaxJobs = 2
    Workers = {w1, w2}
    MaxSubmits = 2
    PollCadence = 1
    RequestTimeout = 1
    Word = 8
    Timeouts = {1, Absent, Malformed}
    Absent = Absent
    Malformed = Malformed
SPECIFICATION Spec
PROPERTIES
    TerminalStable
CHECK_DEADLOCK FALSE
