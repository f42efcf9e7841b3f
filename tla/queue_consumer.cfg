SPECIFICATION ConsumerFairSpec
CONSTANTS
    enqueue = enqueue
    enqueueTimed = enqueueTimed
    close = close
    fetch1 = fetch1
    fetch2 = fetch2
    fetch3 = fetch3
    Calls = {enqueue, enqueueTimed, close, fetch1, fetch2, fetch3}
    Kind <- MCKind
    Fetches <- MCFetches
    Capacity = 1
CHECK_DEADLOCK FALSE
INVARIANTS
    ConsumerTypeOK
    CountersLag
    OncePerPolicy
PROPERTIES
    ClosedIsFrozen
    TakesWhileActive
    CallsReturn
    StopEndsLoop
