SPECIFICATION FairSpec
CONSTANTS
    BatchSize = 4
    MaxConcurrency = 3
CHECK_DEADLOCK FALSE
INVARIANTS
    TypeOK
    Conserved
    OneResultEach
    SendsAtOnce
PROPERTY AllEnd
