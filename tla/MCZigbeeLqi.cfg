SPECIFICATION Spec
CONSTANTS
    Addr = {a1, a2, a3}
    Capacity = 2
    PageSize = 1
    MaxPages = 2
    MaxTable = 2
    MaxScan = 1
INVARIANTS TypeOK OneEntryPerDevice RefreshIsVisible
SYMMETRY Addresses
