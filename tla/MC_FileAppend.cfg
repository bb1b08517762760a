CONSTANTS
    e1 = e1
    NoFile = NoFile
    Exps <- MCExps
    MaxCount = 2
    MaxTicks = 2
    MaxFail = 2

SPECIFICATION Spec

INVARIANT TypeOK
INVARIANT CleanDestroyRemovesAppendedLines

CHECK_DEADLOCK FALSE
