SPECIFICATION StorageSpec
CONSTANTS
    RingSize = 3
    MaxSaves = 7
    MaxResets = 2
    MaxErrors = 1
INVARIANTS
    DurableSurvives
    RecentReadable
CHECK_DEADLOCK FALSE
