\* a tick that switches between enabling the scheduler and the first task
CONSTANTS
    timer = timer
    other = other
    MAX_TASKS = 2
    Spawns = 2
    Irqs = {timer, other}
    TimerIrq = timer
    SwitchEvery = 2
    MaxStack = 0
    BootSwitches = TRUE
    Faults = FALSE
SPECIFICATION ArmSpec
INVARIANTS
    RegistersAreOwn
