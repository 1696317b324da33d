SPECIFICATION ReachableSpec
CONSTANTS
    NumTopics = 2
    MinInterval = 1
    MaxInterval = 4
    MaxFaults = 5
    MaxUnread = 2
INVARIANTS
    TypeOK
    GivesUpLate
    OnePing
    ConfigArrives
PROPERTIES
    ServiceSpec
    SilenceNoticed
    ServesAgain
