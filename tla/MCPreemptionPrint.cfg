\* a task preempted while it prints
CONSTANTS
    t1 = t1
    t2 = t2
    t3 = t3
    Task = {t1, t2, t3}
    None = None
    Boot = Boot
    BootOrder <- ThreeInOrder
    Cooperative = {t1, t2, t3}
    LockUsers = {}
    Printers = {t1, t2}
    Returning = {}
    Faulty = {}
    Keyboard = FALSE
    Debug = FALSE
    OpenWindows = {}
SPECIFICATION FairPreSpec
PROPERTIES
    PrintEnds
CHECK_DEADLOCK FALSE
