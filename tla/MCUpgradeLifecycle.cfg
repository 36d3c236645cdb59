SPECIFICATION Spec
CONSTANTS
    d1 = d1
    d2 = d2
    old = old
    new = new
    Deployments = {d1, d2}
    Packages = {old, new}
    PackageOf <- MCPackageOf
    Equivalent <- MCEquivalent
    Plans = {p1, p2}
    Reversibilities = {"conditionally_reversible"}
    Checkpoints = 1
    p1 = p1
    Repairs = {"compensation"}
    RepairChanges <- MCRepairChanges
    Works = {w1}
    Ends = {1}
    Horizon = 1
    MaxRevision = 3
    MaxMoves <- MCMaxMoves
    MaxActions <- MCMaxActions
    Nothing = Nothing
INVARIANTS
    RetiredIsUnreferenced
    FreshlyApproved
    ReceiptsNotReused
PROPERTIES
    ImplementsPromise
CHECK_DEADLOCK FALSE
