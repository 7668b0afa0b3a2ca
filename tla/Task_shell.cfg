SPECIFICATION FairSpec
CONSTANTS
    MaxPid = 3
    Quantum = 2
    TickMod = 8
    TickStop = 8
    SleepTicks = {1, 2}
    Sigs = {2, 9, 11}
    KillSigs = {9}
    Handlers = {"IGN"}
    BoostStep = 1
    BoostCap = 2
    DecayPeriod = 1
    Ring0Mode = FALSE
    Ring3IrqOn = TRUE
    Workload = {"fork", "exec", "sleep", "waitpid", "exit"}
INVARIANTS
    KernelRuns
PROPERTIES
    ReadyRuns
    SleepersWake
