\* the kernel inserts under id 1 as test_scheduler does; the other ids come from
\* create and derive
CONSTANTS
    mem = mem
    ep = ep
    Resource = {mem, ep}
    KernelCaps <- SomeCaps
    ExplicitIds = {1}
    MaxId = 3
SPECIFICATION CapSpec
INVARIANTS
    CapTypeOK
    NoEscalation
    RevokedStaysDead
PROPERTIES
    CapabilityNeverChanges
