\* more spawns than slots, tasks that use their stacks
CONSTANTS
    timer = timer
    other = other
    MAX_TASKS = 3
    Spawns = 4
    Irqs = {timer, other}
    TimerIrq = timer
    SwitchEvery = 2
    MaxStack = 2
    BootSwitches = FALSE
    Faults = TRUE
SPECIFICATION FairArmSpec
INVARIANTS
    ArmTypeOK
    RegistersAreOwn
    ExecutingIsRunning
PROPERTIES
    EverySpawnedRuns
\* an exception stops the machine
CHECK_DEADLOCK FALSE
