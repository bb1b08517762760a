CONSTANTS
    e1 = e1
    e2 = e2
    m1 = m1
    NoMatch = NoMatch
    Exps <- MCExps
    Matches <- MCMatches
    MaxFail = 2

SPECIFICATION Spec
SYMMETRY MCSymmetry

INVARIANT TypeOK
INVARIANT RunningDropsInstalledWhileNoFailure
INVARIANT CleanDestroyLeavesNoRules

CHECK_DEADLOCK FALSE
