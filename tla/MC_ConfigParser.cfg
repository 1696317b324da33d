SPECIFICATION Spec
CONSTANTS
    Others = {"1", "2"}
    MaxLength = 6
INVARIANTS
    ScansFields
CHECK_DEADLOCK FALSE
