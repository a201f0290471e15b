\* guests that call the host from inside a delivery; the second one gets every list of up
\* to two capabilities for the endpoint of the first.  The kernel stops when it panics.
CONSTANTS
    c1 = c1
    c2 = c2
    Client = {c1, c2}
    Nobody = Nobody
    MaxDepth = 2
    MaxMsgs = 2
    MaxCaps = 2
    Grantable <- GrantsToSecond
    Callbacks = {"allocating", "receiving"}
SPECIFICATION FairWasmSpec
CHECK_DEADLOCK FALSE
INVARIANTS
    WasmTypeOK
    QueueNearlyBounded
PROPERTIES
    ImplementsMailbox
    DeliveryEnds
    SendNeedsWrite
