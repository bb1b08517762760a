CONSTANTS
    e1 = e1
    e2 = e2
    m1 = m1
    NoMatch = NoMatch
    Exps <- MCExps
    Matches <- MCMatches
    MaxFail = 1

SPECIFICATION Spec
SYMMETRY MCSymmetry

INVARIANT RunningDropsInstalled

CHECK_DEADLOCK FALSE
