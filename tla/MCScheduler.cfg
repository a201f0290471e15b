\* every sequence of calls on four tasks; no symmetry because of the liveness properties
CONSTANTS
    Task = {t1, t2, t3, t4}
    None = None
SPECIFICATION FairSchedSpec
INVARIANTS
    SchedTypeOK
    ReadyQueueExact
    RunningIsCurrent
PROPERTIES
    TerminatedIsFinal
    NoOvertaking
    RunnableIsScheduled
    ImplementsLifecycle
\* nothing is left to do when every task has terminated
CHECK_DEADLOCK FALSE
