SPECIFICATION FairSpec
CONSTANTS
    sku = sku
    first = first
    Effects = {e1}
    Requirements = {"storefront_response", "post_write_observation"}
    Subjects = {sku}
    Subject <- MCSubject
    Quantities <- MCQuantities
    Quantity <- MCQuantity
    Initial = first
    MaxPermits = 3
    MaxEpoch = 2
INVARIANTS
    AtMostOneWrite
    CaseAndPermits
    QuietVerdictStands
PROPERTIES
    ImplementsPromise
    ReconciliationConcludes
CHECK_DEADLOCK FALSE
