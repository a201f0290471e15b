\* the interrupt lines after gic::init
CONSTANTS
    timer = timer
    other = other
    MAX_TASKS = 2
    Spawns = 2
    Irqs = {timer, other}
    TimerIrq = timer
    SwitchEvery = 2
    MaxStack = 0
    BootSwitches = FALSE
    Faults = FALSE
SPECIFICATION ArmSpec
INVARIANTS
    InitDisablesAll
