SPECIFICATION FairSpec
CONSTANTS
    Temperatures = {0, 5, 9}
    MinValues = {3, 7}
    MaxValues = {7, 10}
    Modulus = 16
    StateCap = 2
INVARIANTS
    TypeOK
    PowerReported
PROPERTIES
    PowerSettles
    AlertSettles
