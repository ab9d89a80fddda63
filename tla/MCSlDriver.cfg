SPECIFICATION FairSpec
CONSTANTS
    Task = {t1, t2}
    Spawn = Spawn
    None = None
    Event = Event
    Abort = Abort
    QueueLen = 1
    W = 3
    MaxAhead = 1
INVARIANTS OwnResponse ReaderFindsMessage NoStrandedMessage
PROPERTIES CommandReturns MessagesRead
CHECK_DEADLOCK FALSE
