\* Bodies of submits, read character by character.
CONSTANTS
    Routes = {"chat", "tool"}
    Bodies <- MCBodies
    MaxBody = 31
    MaxField = 2
    DefaultModel <- MCDefaultModel
SPECIFICATION Spec
INVARIANTS
    ScannerOK
    KeysExact
    Verdict
    FieldsRead
    EnvelopeReadable
CHECK_DEADLOCK FALSE
