--------------------------- MODULE EffectPromise ----------------------------
(***************************************************************************)
(* What a governed effect promises, whatever happens to the calls in        *)
(* between: it reaches its target at most once and only after the Kernel     *)
(* released it; it is called a success only if it did; and it is never given *)
(* up without having been in doubt first.                                    *)
(***************************************************************************)
CONSTANT Effects

VARIABLES
    status,   \* what the Kernel says about each effect
    applied,  \* what really reached the target
    doubted   \* effects whose outcome has ever been uncertain

promiseVars == <<status, applied, doubted>>

PromiseInit ==
    /\ status = [e \in Effects |-> "none"]
    /\ applied = {}
    /\ doubted = {}

Becomes(e, s) == status' = [status EXCEPT ![e] = s]

Admit(e) ==
    /\ status[e] = "none" /\ Becomes(e, "admitted")
    /\ UNCHANGED <<applied, doubted>>

Release(e) ==
    /\ status[e] = "admitted" /\ Becomes(e, "released")
    /\ UNCHANGED <<applied, doubted>>

(* The target does not wait for the Kernel's opinion. *)
Reach(e) ==
    /\ status[e] \notin {"none", "admitted"} /\ e \notin applied
    /\ applied' = applied \union {e}
    /\ UNCHANGED <<status, doubted>>

Doubt(e) ==
    /\ status[e] = "released" /\ Becomes(e, "uncertain")
    /\ doubted' = doubted \union {e}
    /\ UNCHANGED applied

Succeed(e) ==
    /\ status[e] \in {"released", "uncertain"} /\ e \in applied
    /\ Becomes(e, "succeeded")
    /\ UNCHANGED <<applied, doubted>>

Fail(e) ==
    /\ status[e] = "uncertain" /\ Becomes(e, "failed")
    /\ UNCHANGED <<applied, doubted>>

PromiseNext ==
    \E e \in Effects :
        Admit(e) \/ Release(e) \/ Reach(e) \/ Doubt(e) \/ Succeed(e) \/ Fail(e)

PromiseSpec == PromiseInit /\ [][PromiseNext]_promiseVars
=============================================================================
