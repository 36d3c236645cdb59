SPECIFICATION Spec
CONSTANTS
    i1 = i1
    o = o
    t1 = t1
    t2 = t2
    Intents = {i1}
    Passports = {o, t1, t2}
    Owner <- MCOwner
    PassportEnd <- MCPassportEnd
    Handoffs = {h1, h2}
    Keys = {k1, k2}
    Checks = {c1}
    Hosts = {x1}
    Lease = 1
    Expiries <- MCExpiries
    Horizon = 2
    MaxEpoch = 2
    MaxSequence = 2
    Nobody = Nobody
    NoHandoff = NoHandoff
SYMMETRY Interchangeable
INVARIANTS
    AuthorityNested
    ResponsibilityTraced
    FencedIsRefused
    RecordedIsPrefix
CHECK_DEADLOCK FALSE
