SPECIFICATION Spec
CONSTANTS
    first = first
    second = second
    third = third
    shared = shared
    Artifacts = {first, second, third, shared}
    Erasures = {second, shared}
    Material <- MCMaterial
    Root <- MCRoot
    MaxRevision = 2
    MaxInvocations <- MCMaxInvocations
    k1 = k1
    k2 = k2
    Authorizations = {k1, k2}
    Nothing = Nothing
INVARIANTS
    UnclaimedIsAdmissible
    ReplacementIsExact
    DiagnosisFromOneRequest
    BytesMatchRestriction
PROPERTIES
    NoAuthorityAfterErasure
    ImplementsPromise
CHECK_DEADLOCK FALSE
