SPECIFICATION Spec
CONSTANTS
    MaxPid = 3
    Quantum = 2
    TickMod = 16
    TickStop = 16
    SleepTicks = {1, 2}
    Sigs = {2, 9, 11}
    KillSigs = {9}
    Handlers = {"IGN"}
    BoostStep = 1
    BoostCap = 2
    DecayPeriod = 1
    Ring0Mode = FALSE
    Ring3IrqOn = TRUE
    Workload = {"fork", "sleep", "waitpid", "exit"}
PROPERTIES
    WaitpidReaps
CHECK_DEADLOCK FALSE
