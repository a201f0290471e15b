\* the registry lock under ticks
CONSTANTS
    r = r
    s = s
    u = u
    v = v
    e1 = e1
    e2 = e2
    Endpoint = {e1}
    Creates <- CreatesFirst
    Task = {r, s, u}
    None = None
    NoCap = NoCap
    Starts <- InOrder
    InitialCaps <- TwoWriters
    Senders = {s, u}
    Pollers = {r}
    Blockers = {}
    Count = 2
    SetupYields = 1
    LargeMsgs = {}
    MaxQueue = 2
    Ticks = TRUE
    Revocable = {}
SPECIFICATION FairIpcSpec
PROPERTIES
    RegistryIsReleased
CHECK_DEADLOCK FALSE
