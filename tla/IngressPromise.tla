--------------------------- MODULE IngressPromise ---------------------------
(***************************************************************************)
(* What the ingress promises a customer, with no locks, leases or retries: a  *)
(* delivery enters a log at one instant and once, under the operation of its    *)
(* source; every answer is true of the log when it is given; and the payload      *)
(* stays until the runtime has received it, which receives nothing else.           *)
(***************************************************************************)
EXTENDS Naturals

CONSTANTS Requests, Source, Delivery, Payload

VARIABLES
    log,        \* what was delivered, each at its position
    length,     \* how many positions there are
    told,       \* what each request was answered
    kept,       \* the positions whose payload is kept
    received    \* the positions the runtime has received

logVars == <<log, length>>
promiseVars == <<log, length, told, kept, received>>

PromiseInit ==
    /\ log = {} /\ length = 0
    /\ told = [q \in Requests |-> "none"]
    /\ kept = {} /\ received = {}

Same(e, q) == Delivery[e.request] = Delivery[q]

Exactly(e, q) ==
    Same(e, q) /\ Source[e.request] = Source[q] /\ Payload[e.request] = Payload[q]

(* The operation a source has, which is named by the position that began it.   *)
Operations(q) ==
    LET begun == {e \in log : Source[e.request] = Source[q]} IN
    IF begun = {} THEN {length + 1} ELSE {e.operation : e \in begun}

Tell(q, what) ==
    /\ told[q] = "none"
    /\ told' = [told EXCEPT ![q] = what]

(* The answer may get lost, and the request comes again.                       *)
Enter(q) ==
    /\ \A e \in log : ~ Same(e, q)
    /\ \E o \in Operations(q) :
          log' = log \union {[position |-> length + 1, request |-> q, operation |-> o]}
    /\ length' = length + 1
    /\ kept' = kept \union {length + 1}
    /\ Tell(q, "accepted") \/ UNCHANGED told
    /\ UNCHANGED received

TellAccepted(q) ==
    /\ \E e \in log : Exactly(e, q)
    /\ Tell(q, "accepted")
    /\ UNCHANGED <<logVars, kept, received>>

TellConflict(q) ==
    /\ \E e \in log : Same(e, q) /\ ~ Exactly(e, q)
    /\ Tell(q, "conflict")
    /\ UNCHANGED <<logVars, kept, received>>

Receive(n) ==
    /\ n \in kept
    /\ received' = received \union {n}
    /\ UNCHANGED <<logVars, told, kept>>

Drop(n) ==
    /\ n \in received
    /\ kept' = kept \ {n}
    /\ UNCHANGED <<logVars, told, received>>

PromiseNext ==
    \/ \E q \in Requests : Enter(q) \/ TellAccepted(q) \/ TellConflict(q)
    \/ \E n \in 1 .. length : Receive(n) \/ Drop(n)

PromiseSpec == PromiseInit /\ [][PromiseNext]_promiseVars
=============================================================================
