\* Two takes of one job: the late one is told not_ready.
CONSTANTS
    MaxJobs = 2
    Workers = {w1, w2}
    MaxSubmits = 2
    PollCadence = 1
    RequestTimeout = 1
    Word = 8
    Timeouts = {1, Absent, Malformed}
    Absent = Absent
    Malformed = Malformed
SPECIFICATION Spec
PROPERTIES
    LateTakeSaysTaken
CHECK_DEADLOCK FALSE
