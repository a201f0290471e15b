\* a task returns and the timer keeps ticking
CONSTANTS
    t1 = t1
    t2 = t2
    t3 = t3
    Task = {t1, t2, t3}
    None = None
    Boot = Boot
    BootOrder <- ThreeInOrder
    Cooperative = {t1, t2, t3}
    LockUsers = {}
    Printers = {}
    Returning = {t1}
    Faulty = {}
    Keyboard = FALSE
    Debug = FALSE
    OpenWindows = {}
SPECIFICATION PreSpec
INVARIANTS
    EveryContextIsOwn
CHECK_DEADLOCK FALSE
