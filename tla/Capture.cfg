SPECIFICATION FairSpec
CONSTANTS
    Frames <- MCFrames
    Scale = 12
    TicksPerMs = 2
    MaxFlows = 2
    FlowTimeout = 1
    IdleTimeout = 0
    QueueMax = 2
    t1 = t1
    t2 = t2
    Captors = {t1, t2}
    Configs <- MCConfigs
    RingLimit = 1
    BatchSize = 2
INVARIANTS
    FlowStatsExact
    OneFlowPerConversation
    PacketsConserved
    FlowsConserved
PROPERTIES
    OverdueExpires
    StopReturns
CHECK_DEADLOCK FALSE
