SPECIFICATION Spec
CONSTANTS
    RingSize = 2
    MaxSaves = 3
    MaxResets = 1
    MaxErrors = 0
    DataCap = 1
    StateCap = 1
    MaxConnErrors = 1
INVARIANTS
    TypeOK
    FetchExact
    SentDrift
    
PROPERTIES
    ConnectorSpec
