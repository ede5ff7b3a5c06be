CONSTANTS
    hild = hild
    ulf = ulf
    Jarl = {hild, ulf}
    Casts <- Years
    LastDay = 31
    MaxSurprises = 1
    Levies = {10, 100}
    Loads = {100}
CHECK_DEADLOCK FALSE
SPECIFICATION Spec
INVARIANT RealmsOK
PROPERTIES
    NothingIsMadeAtSea
    NobodyIsErased
