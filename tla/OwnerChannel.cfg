SPECIFICATION FairSpec
CONSTANTS
    Agents = {luna, nova}
    Nobody = nobody
    Dispatcher = luna
    QueueMax = 1
    SweepCap = 3
    MaxMail = 2
    Bound <- MCBound
INVARIANTS TypeOK NothingTwice Threads
PROPERTY OwnerMailGetsOut
CHECK_DEADLOCK FALSE
