SPECIFICATION Spec
CONSTANTS
    Task = {t1, t2, t3}
    New = New
    LastPage = 13
    BmPages = 1
    Reserved = {3}
    PtSize = 2
    Image = {3, 4}
    HeapBase = 6
    HeapTop = 9
    MaxOwned = 3
    MaxSbrk = 2
    WordPages = 10
SYMMETRY Symmetry
INVARIANTS
    PagePartition
    PrivatePages
    FreeCountExact
    ToldIsMapped
    NeverOnPageZero
PROPERTIES
    FailRestores
CHECK_DEADLOCK FALSE
