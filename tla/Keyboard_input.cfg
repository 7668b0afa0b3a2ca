SPECIFICATION Spec
CONSTANTS
    RingSize = 3
    EventCap = 1
    FifoMax = 2
    KernelShell = FALSE
    Mouse = TRUE
    Typed = {"ctrl", "c", "enter"}
INVARIANTS
    PacketsAligned
PROPERTIES
    KeysInOrder
VIEW View
