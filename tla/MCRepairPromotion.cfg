SPECIFICATION Spec
CONSTANTS
    one = one
    Tasks <- MCTasks
    LeaseTime = 2
    PassportEnd = 3
    Horizon = 2
    MaxRevision = 5
    MaxEdits = 2
    defective = defective
    repaired = repaired
    Behaviours = {defective, repaired}
    Patch <- MCPatch
    Original = defective
    Customer = Customer
INVARIANTS
    OnlyOrderedWrites
    RecordsTrue
PROPERTIES
    ImplementsPromise
CHECK_DEADLOCK FALSE
