SPECIFICATION Spec
CONSTANTS
    Task = {p, c}
    MaxFd = 3
    Obj = {o1, o2}
    PipeCap = 2
    Val = {a, b}
    Sizes = {1, 3}
    BufMax = 2
    Word = 4
    Devices = {"zero"}
    MaxCalls = 7
SYMMETRY Symmetry
INVARIANTS
    RefsExact
    HeapExact
    WildCause
    PipeFifo
    PipeEnds
CHECK_DEADLOCK FALSE
