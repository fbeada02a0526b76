\* One request at a time: what the contract says of one client alone.
CONSTANTS
    MaxJobs = 2
    Workers = {w1}
    MaxSubmits = 3
    PollCadence = 2
    RequestTimeout = 3
    Word = 8
    Timeouts = {0, 1, 4, 8, 13, Absent, Malformed}
    Absent = Absent
    Malformed = Malformed
SPECIFICATION Spec
INVARIANTS
    NoUndefined
    PollingWaitEnds
    NewestFirst
PROPERTIES
    TerminalStable
    LateTakeSaysTaken
CHECK_DEADLOCK FALSE
