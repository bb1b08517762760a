CONSTANTS
    cgA = cgA
    cgB = cgB
    Root = Root
    Exited = Exited
    Max = Max
    Cgroups <- MCCgroups
    QuotaVals <- MCQuotaVals
    PeriodVals <- MCPeriodVals
    NumCPU = 4
    MaxEnv = 2
    MaxCalls = 2

SPECIFICATION Spec
SYMMETRY MCSymmetry

INVARIANT DetectFollowsSpec

CHECK_DEADLOCK FALSE
