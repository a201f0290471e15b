\* invoke checks that the capability exists
CONSTANTS
    mem = mem
    ep = ep
    Resource = {mem, ep}
    KernelCaps <- SomeCaps
    ExplicitIds = {}
    MaxId = 2
SPECIFICATION CapSpec
INVARIANTS
    InvokeNeedsRight
