\* two endpoints: s sends to r, which blocks, and v to u, which polls, with or without the
\* right to write; seven orders of adding them; of four messages one is too
\* large; queues of two, ticks anywhere, a revocation
CONSTANTS
    r = r
    s = s
    u = u
    v = v
    e1 = e1
    e2 = e2
    Endpoint = {e1, e2}
    Creates <- CreatesBoth
    Task = {r, s, u, v}
    None = None
    NoCap = NoCap
    Starts <- SomeOrders
    InitialCaps <- TwoEndpoints
    Senders = {s, v}
    Pollers = {u, r}
    Blockers = {r}
    Count = 4
    SetupYields = 1
    LargeMsgs = {1}
    MaxQueue = 2
    Ticks = TRUE
    Revocable = {r}
SPECIFICATION IpcSpec
INVARIANTS
    IpcTypeOK
    IntactUntilWoken
PROPERTIES
    ImplementsMailbox
\* a task that spins on the registry while its holder is preempted stops the system, and
\* the model ends where a stale context is restored
CHECK_DEADLOCK FALSE
