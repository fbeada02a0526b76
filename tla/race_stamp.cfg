\* Two calls overlapping: two responses with one number.
CONSTANTS
    Workers = {w1, w2}
    MaxInflight = 2
    Word = 16
    MaxRequests = 2
    Overlapping = TRUE
    Nobody = Nobody
SPECIFICATION AdmissionSpec
PROPERTIES
    UniqueStamps
CHECK_DEADLOCK FALSE
