\* a tick between the first schedule and the first jump
CONSTANTS
    t1 = t1
    t2 = t2
    t3 = t3
    Task = {t1, t2, t3}
    None = None
    Boot = Boot
    BootOrder <- ThreeInOrder
    Cooperative = {t1, t2, t3}
    LockUsers = {}
    Printers = {}
    Returning = {}
    Faulty = {}
    Keyboard = FALSE
    Debug = FALSE
    OpenWindows = {"boot"}
SPECIFICATION PreSpec
INVARIANTS
    ContextIsOwn
CHECK_DEADLOCK FALSE
