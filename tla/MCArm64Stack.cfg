\* a task interrupted with frames on its stack
CONSTANTS
    timer = timer
    other = other
    MAX_TASKS = 2
    Spawns = 2
    Irqs = {timer, other}
    TimerIrq = timer
    SwitchEvery = 2
    MaxStack = 1
    BootSwitches = FALSE
    Faults = FALSE
SPECIFICATION ArmSpec
INVARIANTS
    StackPointerKept
