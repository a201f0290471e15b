\* a tick while SCHEDULER is held with interrupts enabled
CONSTANTS
    t1 = t1
    t2 = t2
    t3 = t3
    Task = {t1, t2, t3}
    None = None
    Boot = Boot
    BootOrder <- ThreeInOrder
    Cooperative = {t1, t2, t3}
    LockUsers = {t1}
    Printers = {}
    Returning = {}
    Faulty = {}
    Keyboard = FALSE
    Debug = FALSE
    OpenWindows = {"lock"}
SPECIFICATION PreSpec
INVARIANTS
    YieldFindsLockFree
CHECK_DEADLOCK FALSE
