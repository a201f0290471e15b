\* a guest that fills the queue and then refuses its buffer
CONSTANTS
    c1 = c1
    c2 = c2
    Client = {c1, c2}
    Nobody = Nobody
    MaxDepth = 2
    MaxMsgs = 4
    MaxCaps = 0
    Grantable <- NoGrants
    Callbacks = {"allocating"}
SPECIFICATION WasmSpec
CHECK_DEADLOCK FALSE
INVARIANTS
    QueueDepthLimited
