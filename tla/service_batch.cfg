SPECIFICATION FairSpec
CONSTANTS
    batch = batch
    single = single
    Calls = {batch}
    BatchLen <- BatchOfThree
    Rejected <- SecondRejected
    MaxWorkers = 1
    QueueCap = 1
    ResultsCap = 1
    MaxStarts = 1
    MaxResets = 1
    NoRequest = NoRequest
CHECK_DEADLOCK FALSE
INVARIANT ExactlyOnce
PROPERTIES
    LedgerSpec
    AcceptedIsAnswered
    ControlReturns
    StoppedWorkersExit
    CollectorsExit
    CallsReturn
