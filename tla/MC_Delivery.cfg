SPECIFICATION FairSpec
CONSTANTS
    DataCap = 2
    MaxSaves = 4
    MaxResets = 1
    MaxFaults = 1
INVARIANTS
    TypeOK
    OrderKept
    LossBounded
PROPERTIES
    OneOfTwoArrives
