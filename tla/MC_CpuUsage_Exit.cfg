CONSTANTS
    cgA = cgA
    cgB = cgB
    Root = Root
    Exited = Exited
    Cgroups <- MCCgroups
    UsageCap = 3
    HostCpus = 2
    HostPercent = 40
    CpuCount = 2
    MaxEnv = 3
    MaxCalls = 2

SPECIFICATION Spec
SYMMETRY MCSymmetry

INVARIANT SamplerEndsOnlyOnIllegalIndex


CHECK_DEADLOCK FALSE
