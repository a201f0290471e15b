\* no task yields by itself: only the tick can share the CPU
CONSTANTS
    t1 = t1
    t2 = t2
    t3 = t3
    Task = {t1, t2, t3}
    None = None
    Boot = Boot
    BootOrder <- ThreeInOrder
    Cooperative = {}
    LockUsers = {}
    Printers = {}
    Returning = {}
    Faulty = {}
    Keyboard = FALSE
    Debug = FALSE
    OpenWindows = {}
SPECIFICATION FairPreSpec
PROPERTIES
    EveryTaskRuns
CHECK_DEADLOCK FALSE
