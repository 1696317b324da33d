SPECIFICATION FairSpec
CONSTANTS
    GSM_InitCmdsSize = 3
    MaxFails = 2
    MaxFaults = 4
CHECK_DEADLOCK FALSE
INVARIANTS
    TypeOK
    StatusTellsLink
    ConnectsDialled
PROPERTIES
    ServiceSpec
    InitEnds
    DisconnectEnds
    LossRepaired
