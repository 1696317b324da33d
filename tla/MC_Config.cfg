SPECIFICATION FairSpec
CONSTANTS
    Messages <- MCMessages
    StackValues <- MCStackValues
    ConfigCap = 2
    MaxMessages = 3
    MaxResets = 1
    MaxErrors = 1
    Unset = Unset
INVARIANTS
    TypeOK
    InLimits
    MixesTwo
PROPERTIES
    CallbackNeverStuck
CHECK_DEADLOCK FALSE
