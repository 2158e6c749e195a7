SPECIFICATION FairSpec
CONSTANTS
    Fd = {f1, f2}
    DeviceList = {d1, d2}
    LinkQuality = {q1}
    None = None
    Oversized = {None}
    Free = Free
    MaxClients = 1
    MinInterval = 1
    DupInterval = 1
    SlowInterval = 1
    Retry = 1
    Period = 1
    EventBound = 1
INVARIANTS TypeOK SendersOwnFrame ClientsAreOpen TimerRunsForClients
PROPERTY NewestReachesClient
