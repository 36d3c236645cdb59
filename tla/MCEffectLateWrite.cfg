SPECIFICATION Spec
CONSTANTS
    sku = sku
    first = first
    Effects = {e1}
    Requirements = {"storefront_response", "post_write_observation"}
    Subjects = {sku}
    Subject <- MCSubject
    Quantities <- MCQuantities
    Quantity <- MCQuantity
    Initial = first
    MaxPermits = 2
    MaxEpoch = 1
INVARIANTS
    FailedIsNotApplied
CHECK_DEADLOCK FALSE
