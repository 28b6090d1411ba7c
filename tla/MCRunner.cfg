SPECIFICATION FairSpec
CONSTANTS
    q1 = q1
    q2 = q2
    ta = ta
    tb = tb
    Req = {q1, q2}
    Calls <- TwoCalls
    Impatient = {q2}
    Toks <- AB
    Kinds <- TextKinds
    NumCtx = 3
    BatchSize = 2
    RespCap = 1
    Confs <- TwoConfs
    None = None
    Zero = Zero
    Eos = Eos
    Pending = Pending
    Panicked = Panicked
INVARIANTS TypeOK StoredInputs WholeText OwnTokensInOrder PlacesCounted
PROPERTIES EveryRequestEnds
