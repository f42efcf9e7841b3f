SPECIFICATION Spec
CONSTANTS
    batch = batch
    single = single
    Calls = {batch, single}
    BatchLen <- OneEach
    Rejected <- SingleRejected
    MaxWorkers = 1
    QueueCap = 1
    ResultsCap = 1
    MaxStarts = 2
    MaxResets = 0
    NoRequest = NoRequest
CHECK_DEADLOCK FALSE
INVARIANTS
    TypeOK
    Positions
    ExactlyOnce
    Accounting
