SPECIFICATION Spec
CONSTANTS
    Size = 4
    NSeq = 1
    MaxPos = 5
    NSwa = 2
    Modes <- TrialModes
    NUbatch = 2
    MaxTok = 4
    Toks = {t1}
    NoTok = NoTok
PROPERTIES PrepareRestores
