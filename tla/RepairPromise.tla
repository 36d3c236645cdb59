--------------------------- MODULE RepairPromise ----------------------------
(***************************************************************************)
(* What the repair of a workflow promises the Owner of it, with no leases,     *)
(* calls, timeouts or crashes: a case is worked on by one attempt at a time, an   *)
(* attempt that has passed is written to the target once for each order of the     *)
(* Owner, and what is said of it is true when it is said and never unsaid.          *)
(***************************************************************************)
EXTENDS Naturals, Sequences

CONSTANTS
    Attempts,       \* <<case, number>>
    Behaviours, Patch,      \* what the repair of an attempt makes of a behaviour
    Original, Customer

VARIABLES
    begun, open,    \* the attempts made, and those of them still worked on
    passed,         \* those whose candidate has passed a verification
    order,          \* the revision an order of the Owner is for, 0 for no order
    target,         \* every revision of the target
    verdict         \* what is said of an attempt, and of which revision

attemptVars == <<begun, open, passed>>
promiseVars == <<begun, open, passed, order, target, verdict>>

OrderKinds == {"apply", "rollback"}
Revisions == Len(target)

PromiseInit ==
    /\ begun = {} /\ open = {} /\ passed = {}
    /\ order = [k \in Attempts |-> [kind \in OrderKinds |-> 0]]
    /\ target = <<[does |-> Original, of |-> Customer, kind |-> "edit"]>>
    /\ verdict = [k \in Attempts |-> [says |-> "none", at |-> 0]]

(* An attempt begins when no other one of its case goes on.                    *)
BeginAttempt(k) ==
    /\ k \notin begun
    /\ \A j \in begun : j[1] = k[1] => j \notin open /\ j[2] < k[2]
    /\ begun' = begun \union {k} /\ open' = open \union {k}
    /\ UNCHANGED <<passed, order, target, verdict>>

EndAttempts(ended) ==
    /\ open' = open \ ended
    /\ UNCHANGED <<begun, passed, order, target, verdict>>

Pass(k) ==
    /\ k \in begun
    /\ passed' = passed \union {k} /\ open' = open \ {k}
    /\ UNCHANGED <<begun, order, target, verdict>>

(* Each of the two orders is given once, for the revision the Owner has seen.  *)
GiveOrder(k, kind) ==
    /\ order[k][kind] = 0
    /\ IF kind = "apply" THEN k \in passed ELSE verdict[k].says = "confirmed"
    /\ order' = [order EXCEPT ![k][kind] =
                    IF kind = "apply" THEN Revisions ELSE verdict[k].at]
    /\ UNCHANGED <<attemptVars, target, verdict>>

ByOrder(i, k, kind) == target[i].of = k /\ target[i].kind = kind

(* What the order found, repaired, or again as it was found.                   *)
Found(k) == target[order[k]["apply"]].does
Wanted(k, kind) == IF kind = "apply" THEN Patch[k][Found(k)] ELSE Found(k)

WriteTarget(k, kind) ==
    /\ order[k][kind] # 0
    /\ \A i \in 1 .. Revisions : ~ByOrder(i, k, kind)
    /\ target' = Append(target, [does |-> Wanted(k, kind), of |-> k, kind |-> kind])
    /\ UNCHANGED <<attemptVars, order, verdict>>

EditTarget(b) ==
    /\ target' = Append(target, [does |-> b, of |-> Customer, kind |-> "edit"])
    /\ UNCHANGED <<attemptVars, order, verdict>>

Say(k, from, what, n) ==
    /\ order[k]["apply"] # 0 /\ verdict[k].says = from
    /\ verdict' = [verdict EXCEPT ![k] = [says |-> what, at |-> n]]
    /\ UNCHANGED <<attemptVars, order, target>>

(* The target did what the attempt wanted, after the order, and may have been    *)
(* made to by somebody else.                                                       *)
SayConfirmed(k) ==
    \E n \in order[k]["apply"] + 1 .. Revisions :
        Say(k, "none", "confirmed", n) /\ target[n].does = Wanted(k, "apply")

(* The target is still where the order found it.                               *)
SayFailed(k) ==
    Revisions = order[k]["apply"] /\ Say(k, "none", "failed", 0)

SayMismatch(k) ==
    /\ Say(k, "none", "target_mismatch", 0)
    /\ Revisions # order[k]["apply"] /\ target[Revisions].does # Wanted(k, "apply")

(* The target did again, later, what it had done before the attempt.           *)
SayRolledBack(k) ==
    /\ order[k]["rollback"] # 0
    /\ \E n \in verdict[k].at + 1 .. Revisions :
          /\ target[n].does = Wanted(k, "rollback")
          /\ Say(k, "confirmed", "rolled_back", n)

PromiseNext ==
    \/ \E k \in Attempts :
          \/ BeginAttempt(k) \/ Pass(k)
          \/ SayConfirmed(k) \/ SayFailed(k) \/ SayMismatch(k) \/ SayRolledBack(k)
          \/ \E kind \in OrderKinds : GiveOrder(k, kind) \/ WriteTarget(k, kind)
    \/ \E ended \in SUBSET open : EndAttempts(ended)
    \/ \E b \in Behaviours : EditTarget(b)

PromiseSpec == PromiseInit /\ [][PromiseNext]_promiseVars
=============================================================================
