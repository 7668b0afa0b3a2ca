SPECIFICATION USpec
CONSTANTS
    LastCluster = 4
    SlotCount = 2
    short = short
    other = other
    long = long
    Name = {short, other, long}
    Cut <- MCCut
    UCut <- MCUCut
    Val = {a}
    a = a
    Sizes = {1, 2}
    Driver = {u1, u2}
    u1 = u1
    u2 = u2
    MaxOps = 3
SYMMETRY DriverSymmetry
CHECK_DEADLOCK FALSE
INVARIANTS
    UNoSharedCluster
    ULeakCause
    UFilesReadBack
    ParentExact
