SPECIFICATION Spec
CONSTANTS
    Temperatures = {0, 5, 9}
    MinValues <- MCNegative
    MaxValues = {7}
    Modulus = 16
    StateCap = 1
PROPERTIES
    LowIsLow
