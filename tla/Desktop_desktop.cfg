SPECIFICATION Spec
CONSTANTS
    MaxWin = 2
    MenuMax = 8
    Rows = 2
    Apps = {"expl", "task", "edit", "dlg", "ctrl", "term"}
    MaxEvents = 6
INVARIANTS
    TablesExact
    NothingAstray
    GrabsReleased
CHECK_DEADLOCK FALSE
