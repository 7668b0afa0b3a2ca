SPECIFICATION Spec
CONSTANTS
    MaxPid = 3
    Quantum = 1
    TickMod = 16
    TickStop = 3
    SleepTicks = {1}
    Sigs = {2, 9, 11}
    KillSigs = {9}
    Handlers = {"IGN"}
    BoostStep = 1
    BoostCap = 2
    DecayPeriod = 1
    Ring0Mode = FALSE
    Ring3IrqOn = FALSE
    Workload = {"fork", "sleep", "waitpid", "exit", "abandon", "kill", "fault", "sigaction", "ctrlc", "dropcap"}
INVARIANTS
    QueueExact
    NoLostTask
    IdleCanEnd
    ListsExact
    HaltCause
CHECK_DEADLOCK FALSE
