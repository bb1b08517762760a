CONSTANTS
    e1 = e1
    NoFile = NoFile
    Exps <- MCExps
    MaxCount = 2
    MaxTicks = 2
    MaxFail = 1

SPECIFICATION Spec

INVARIANT NoBackupMeansNoOriginal

CHECK_DEADLOCK FALSE
