\* create from user code
CONSTANTS
    mem = mem
    ep = ep
    Resource = {mem, ep}
    KernelCaps <- SomeCaps
    ExplicitIds = {}
    MaxId = 2
SPECIFICATION CapSpec
INVARIANTS
    CreateSucceeds
