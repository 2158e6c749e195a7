SPECIFICATION FairSpec
CONSTANTS
    Addr = {a1, a2}
    Capacity = 2
    PageSize = 1
    MaxPages = 2
    MaxTable = 2
    MaxScan = 1
PROPERTY RefreshEnds
