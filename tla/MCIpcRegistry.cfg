\* locks of send_message when it wakes a receiver
CONSTANTS
    r = r
    s = s
    u = u
    v = v
    e1 = e1
    e2 = e2
    Endpoint = {e1}
    Creates <- CreatesFirst
    Task = {r, s, u}
    None = None
    NoCap = NoCap
    Starts <- InOrder
    InitialCaps <- OneWriter
    Senders = {s}
    Pollers = {}
    Blockers = {r}
    Count = 2
    SetupYields = 1
    LargeMsgs = {}
    MaxQueue = 2
    Ticks = TRUE
    Revocable = {}
SPECIFICATION IpcSpec
INVARIANTS
    RegistryDroppedFirst
