SPECIFICATION Spec
CONSTANTS
    Requests = {r1, r2}
    g1 = g1
    g2 = g2
    Grants = {g1, g2}
    Observation <- MCObservation
    MaxAdvance = 2
    MaxSnapshots = 3
    MaxProjections = 1
SYMMETRY MCSymmetry
INVARIANTS
    CoverageIsReceived
    EffectiveIsApplied
PROPERTIES
    AcceptedInAuthority
    ImplementsPromise
CHECK_DEADLOCK FALSE
