\* a publish that meets a full queue
CONSTANTS
    c1 = c1
    c2 = c2
    Client = {c1, c2}
    Nobody = Nobody
    MaxDepth = 1
    MaxMsgs = 2
    MaxCaps = 0
    Grantable <- NoGrants
    Callbacks = {}
SPECIFICATION WasmSpec
CHECK_DEADLOCK FALSE
INVARIANTS
    PublishCountsQueued
