CONSTANTS
    Consumers = {c1, c2}
    Workers = {w1, w2}
    BatchSize = 2
    QueueLimit = 1
    MaxMsgs = 3
    Garbage = {2}
    MaxCrashes = 1
    MaxStops = 1
SPECIFICATION FairSpec
INVARIANTS
    HeldOnce
    StatsAgree
PROPERTIES
    EventuallyProcessed
    StopReturns
