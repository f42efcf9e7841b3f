SPECIFICATION Spec
CONSTANTS
    a = a
    b = b
    c = c
    d = d
    Keys = {a, b, c, d}
    Capacities = {1, 2, 3}
    MaxFreq = 3
INVARIANTS
    TypeOK
    BucketsExact
    MinBelowAll
    Bounded
PROPERTY ImplementsLFU
