\* Admission, no two calls overlapping.
CONSTANTS
    Workers = {w1, w2, w3}
    MaxInflight = 2
    Word = 16
    MaxRequests = 5
    Overlapping = FALSE
    Nobody = Nobody
SPECIFICATION AdmissionSpec
SYMMETRY Symmetry
INVARIANTS
    AdmissionTypeOK
    GaugeExact
    IdleAdmits
    MetricsAddUp
PROPERTIES
    UniqueStamps
    CountersNeverWrap
CHECK_DEADLOCK FALSE
