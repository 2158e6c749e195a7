SPECIFICATION FairSpec
CONSTANTS
    MaxRetry = 2
    Pan = {p1, p2}
    None = none
    FaultBound = 3
INVARIANTS TypeOK NoDanglingLink FallbackIsExclusive PublishedIsCurrent
PROPERTIES NetworkIsKept GatewayServes
CHECK_DEADLOCK FALSE
