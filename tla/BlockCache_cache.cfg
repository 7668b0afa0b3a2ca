SPECIFICATION Spec
CONSTANTS
    MaxLba = 2
    Val = {a, b}
    a = a
    b = b
    Entries = 2
    MaxCount = 2
INVARIANTS
    OneSlotPerSector
    Coherent
PROPERTIES
    Transparent
