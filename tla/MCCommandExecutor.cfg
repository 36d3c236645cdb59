SPECIFICATION FairSpec
CONSTANTS
    dWrite = dWrite
    dBegin = dBegin
    dResume = dResume
    Requests = {r1, r2}
    Commands = {c1, c2}
    Digests = {dWrite, dBegin, dResume}
    Operation <- MCOperation
    Nested <- MCNested
    PoolSize = 3
    None = None
INVARIANTS
    TransitionIntegrity
PROPERTIES
    SuspensionHonoured
    ImplementsLedger
    EveryRequestAnswered
