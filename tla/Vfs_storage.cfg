SPECIFICATION VfsSpec
CONSTANTS
    HeapSize = 9
    MinPay = 1
    Slot = {1, 2}
    NameMax = 1
    FileUnits = 2
    Data = {a, b}
    Empty = Empty
    Paths <- MCPaths
    MaxMounts = 4
    Requests = {1, 2}
SYMMETRY MCSymmetry
INVARIANTS
    HeapTiled
    ReadsBack
    BlocksOwned
    ResolvesByComponent
CHECK_DEADLOCK FALSE
