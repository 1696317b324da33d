SPECIFICATION FairSpec
CONSTANTS
    RingSize = 2
    MaxSaves = 3
    MaxResets = 0
    MaxErrors = 0
    DataCap = 1
    StateCap = 1
    MaxConnErrors = 1
PROPERTIES
    PassEnds
    BacklogClears
