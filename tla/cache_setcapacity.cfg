SPECIFICATION FairSpec
CONSTANTS
    a = a
    b = b
    c = c
    Keys = {a, b, c}
    Capacities = {1, 2, 3}
    MaxFreq = 3
PROPERTY SetCapacityReturns
