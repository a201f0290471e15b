\* a key while SERIAL1 is held
CONSTANTS
    t1 = t1
    t2 = t2
    t3 = t3
    Task = {t1, t2, t3}
    None = None
    Boot = Boot
    BootOrder <- ThreeInOrder
    Cooperative = {t1, t2, t3}
    LockUsers = {}
    Printers = {t1}
    Returning = {}
    Faulty = {}
    Keyboard = TRUE
    Debug = FALSE
    OpenWindows = {"print"}
SPECIFICATION PreSpec
INVARIANTS
    NoWaitWithInterruptsOff
CHECK_DEADLOCK FALSE
