SPECIFICATION Spec
CONSTANTS
    sku = sku
    first = first
    Effects = {e1, e2}
    Requirements = {"storefront_response", "post_write_observation"}
    Subjects = {sku}
    Subject <- MCSubject
    Quantities <- MCQuantities
    Quantity <- MCQuantity
    Initial = first
    MaxPermits = 2
    MaxEpoch = 1
SYMMETRY Symmetry
INVARIANTS
    AccountabilityHonest
    OnlyOverwritingLeavesOpen
CHECK_DEADLOCK FALSE
