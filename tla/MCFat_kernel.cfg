SPECIFICATION Spec
CONSTANTS
    LastCluster = 4
    SlotCount = 2
    short = short
    other = other
    long = long
    Name = {short, other, long}
    Cut <- MCCut
    Val = {a, b}
    a = a
    b = b
    Sizes = {1, 2}
SYMMETRY ValSymmetry
CHECK_DEADLOCK FALSE
INVARIANTS
    LeakCause
    FilesReadBack
    NamesUnique
    TreeLinked
