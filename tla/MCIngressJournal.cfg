SPECIFICATION FairSpec
CONSTANTS
    q1 = q1
    q2 = q2
    q3 = q3
    s1 = s1
    s2 = s2
    d1 = d1
    d2 = d2
    body = body
    Requests = {q1, q2, q3}
    Source <- MCSource
    Delivery <- MCDelivery
    Payload <- MCPayload
    Forwarders = {f1}
    Reporters = {r1}
INVARIANTS
    OneOperation
    PayloadUntilForwarded
PROPERTIES
    ForwardingGoesOn
    ImplementsPromise
