\* a debug build: schedule prints with interrupts off
CONSTANTS
    t1 = t1
    t2 = t2
    t3 = t3
    Task = {t1, t2, t3}
    None = None
    Boot = Boot
    BootOrder <- ThreeInOrder
    Cooperative = {t1, t2, t3}
    LockUsers = {}
    Printers = {t1}
    Returning = {}
    Faulty = {}
    Keyboard = FALSE
    Debug = TRUE
    OpenWindows = {}
SPECIFICATION PreSpec
INVARIANTS
    NoWaitWithInterruptsOff
CHECK_DEADLOCK FALSE
