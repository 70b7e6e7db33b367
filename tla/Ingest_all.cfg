\* More records than the queue and both workers hold at a time, one crash and one
\* rebalance at any moment.  When all the records are handled and the faults are
\* used up the system rests.
SPECIFICATION FairSpec
CONSTANTS
    w1 = w1
    w2 = w2
    Workers = {w1, w2}
    None = None
    Consumer = Consumer
    Blank <- MCBlank
    HighWater = 0
    BatchMax = 2
    MaxMessages = 5
    MaxCrashes = 1
    MaxRebalances = 1
CHECK_DEADLOCK FALSE
INVARIANTS
    TypeOK
    QueueBound
    NothingSkipped
    LossBound
PROPERTIES
    EventuallyHandled
