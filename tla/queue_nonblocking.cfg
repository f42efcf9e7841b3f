SPECIFICATION FairSpec
CONSTANTS
    enqueue = enqueue
    dequeue = dequeue
    close = close
    Calls = {enqueue, dequeue, close}
    Kind <- MCKind
    Capacity = 1
CHECK_DEADLOCK FALSE
PROPERTY EnqueueReturns
