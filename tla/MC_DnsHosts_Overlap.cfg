CONSTANTS
    e1 = e1
    e2 = e2
    d1 = d1
    d2 = d2
    i1 = i1
    i2 = i2
    bad = bad
    NoBackup = NoBackup
    Exps <- MCTwoExps
    Domains <- MCDomains
    Ips <- MCIps
    BadIps = {bad}
    Base <- MCBase
    MaxFail = 0

SPECIFICATION Spec
INVARIANT DestroyRestoresHosts
SYMMETRY MCSymmetry

CHECK_DEADLOCK FALSE
