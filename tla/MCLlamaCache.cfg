SPECIFICATION LSpec
CONSTANTS
    Size = 4
    NSeq = 2
    MaxPos = 6
    NSwa = 2
    Modes <- Windowed
    NUbatch = 2
    MaxTok = 2
    ta = ta
    tb = tb
    Toks <- AB
    NoTok = NoTok
    Prompts <- LongAndEdited
    NumCtx = 7
    BatchSize = 2
CHECK_DEADLOCK FALSE
INVARIANTS InputsAreStored
