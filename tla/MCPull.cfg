SPECIFICATION Spec
CONSTANTS
    p1 = p1
    p2 = p2
    m1 = m1
    m2 = m2
    b0 = b0
    b1 = b1
    Pulls = {p1, p2}
    ModelOf <- Of
    Registry <- Reg
    Had <- Old
    Blobs = {b0, b1}
    NParts = 2
    Size = 1
    Writes = {TRUE, FALSE}
    NoPrune = FALSE
    MaxTries = 2
    MaxCrashes = 1
    None = None
INVARIANT ManifestIntact
CHECK_DEADLOCK FALSE
