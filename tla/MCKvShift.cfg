SPECIFICATION Spec
CONSTANTS
    Size = 3
    NSeq = 1
    MaxPos = 2
    NSwa = 2
    Modes <- ShiftModes
    NUbatch = 2
    MaxTok = 2
    Toks = {t1}
    NoTok = NoTok
INVARIANTS ShiftsHandled
