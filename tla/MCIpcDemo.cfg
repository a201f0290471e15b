\* the demo of main.rs without a tick
CONSTANTS
    r = r
    s = s
    u = u
    v = v
    e1 = e1
    e2 = e2
    Endpoint = {e1}
    Creates <- CreatesFirst
    Task = {r, s, u, v}
    None = None
    NoCap = NoCap
    Starts <- AnyOrder
    InitialCaps <- OneWriter
    Senders = {s}
    Pollers = {r}
    Blockers = {}
    Count = 3
    SetupYields = 3
    LargeMsgs = {}
    MaxQueue = 3
    Ticks = FALSE
    Revocable = {}
SPECIFICATION FairIpcSpec
PROPERTIES
    DemoCompletes
