\* Two calls overlapping: a lost increment, and the gauge wraps below zero.
CONSTANTS
    Workers = {w1, w2}
    MaxInflight = 2
    Word = 16
    MaxRequests = 3
    Overlapping = TRUE
    Nobody = Nobody
SPECIFICATION AdmissionSpec
INVARIANTS
    IdleAdmits
CHECK_DEADLOCK FALSE
