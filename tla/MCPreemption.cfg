\* tick, key and yield in every order outside the windows; t1 may print, return,
\* panic or fault
CONSTANTS
    t1 = t1
    t2 = t2
    t3 = t3
    Task = {t1, t2, t3}
    None = None
    Boot = Boot
    BootOrder <- ThreeInOrder
    Cooperative = {t1, t2, t3}
    LockUsers = {t1, t2}
    Printers = {Boot, t1}
    Returning = {t1}
    Faulty = {t1}
    Keyboard = TRUE
    Debug = FALSE
    OpenWindows = {}
SPECIFICATION FairPreSpec
INVARIANTS
    PreTypeOK
    ContextIsOwn
    CpuIsCurrent
    InterruptFlagRestored
    OneHandlerInService
    SchedulerHeldOnCpu
PROPERTIES
    EveryTaskRuns
    InterruptIsAcknowledged
\* a task that returns in service of an interrupt stops the machine for good
CHECK_DEADLOCK FALSE
