SPECIFICATION Spec
CONSTANTS
    batch = batch
    single = single
    Calls = {batch, single}
    BatchLen <- OneEach
    Rejected <- SingleRejected
    MaxWorkers = 2
    QueueCap = 1
    ResultsCap = 1
    MaxStarts = 1
    MaxResets = 0
    NoRequest = NoRequest
CHECK_DEADLOCK FALSE
INVARIANT NoPanic
