CONSTANTS
    cgA = cgA
    cgB = cgB
    Root = Root
    Exited = Exited
    Max = Max
    Cgroups <- MCCgroups
    MemLimits <- MCMemLimits
    MemCap = 2
    HostTotal = 8
    HostFree = 3
    HostCache = 2
    MaxEnv = 2
    MaxCalls = 2

SPECIFICATION Spec
SYMMETRY MCSymmetry

INVARIANT AvailableNotAboveTotal

CHECK_DEADLOCK FALSE
