SPECIFICATION Spec
CONSTANTS
    MaxWin = 2
    MenuMax = 8
    Rows = 2
    Apps = {"expl", "task", "edit", "dlg", "ctrl", "term"}
    MaxEvents = 6
INVARIANT
    KillsSelected
CHECK_DEADLOCK FALSE
