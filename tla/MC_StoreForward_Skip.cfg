SPECIFICATION Spec
CONSTANTS
    RingSize = 2
    MaxSaves = 3
    MaxResets = 0
    MaxErrors = 0
    DataCap = 2
    StateCap = 1
    MaxConnErrors = 0
INVARIANTS
    NoRecordSkipped
