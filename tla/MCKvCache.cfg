SPECIFICATION Spec
CONSTANTS
    Size = 3
    NSeq = 2
    MaxPos = 3
    NSwa = 2
    Modes <- SafeModes
    NUbatch = 2
    MaxTok = 3
    Toks = {t1, t2}
    NoTok = NoTok
SYMMETRY Values
INVARIANTS TypeOK IndexExact AttentionExact PositionsPresent
