SPECIFICATION FairRestoreSpec
CONSTANTS
    sku = sku
    first = first
    Effects = {e1}
    Requirements = {"storefront_response"}
    Subjects = {sku}
    Subject <- MCSubject
    Quantities <- MCQuantities
    Quantity <- MCQuantity
    Initial = first
    MaxPermits = 1
    MaxEpoch = 1
    MaxSessions = 2
    MaxBackups = 2
    MaxRestores = 1
INVARIANTS
    EmittedOnce
    DoubtIsObligation
PROPERTIES
    ResolvedRestoreResumes
CHECK_DEADLOCK FALSE
