\* a tick between popfq and the jump to a new task
CONSTANTS
    t1 = t1
    t2 = t2
    t3 = t3
    Task = {t1, t2, t3}
    None = None
    Boot = Boot
    BootOrder <- ThreeInOrder
    Cooperative = {t1, t2, t3}
    LockUsers = {}
    Printers = {}
    Returning = {}
    Faulty = {}
    Keyboard = FALSE
    Debug = FALSE
    OpenWindows = {"popfq"}
SPECIFICATION PreSpec
INVARIANTS
    FirstSwitchReachesEntry
CHECK_DEADLOCK FALSE
