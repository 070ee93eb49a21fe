\* A ring of two slots whose indices wrap twice.
CONSTANTS
    a = a
    b = b
    Values <- MCValues
    Size = 2
    Modulus = 4
    MaxPushes = 6
SPECIFICATION Spec
INVARIANTS
    NoDataRace
PROPERTY IsBoundedFifo
