\* insert under id 1 as test_scheduler does, then derive
CONSTANTS
    mem = mem
    ep = ep
    Resource = {mem, ep}
    KernelCaps <- SomeCaps
    ExplicitIds = {1}
    MaxId = 2
SPECIFICATION CapSpec
PROPERTIES
    DeriveKeepsOthers
