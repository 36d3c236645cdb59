--------------------------- MODULE UpgradePromise ---------------------------
(***************************************************************************)
(* What changes of a capability promise to those who depend on it, with no    *)
(* policies, checkpoints, canaries or receipts: a Deployment becomes active by   *)
(* consent to that change, an upgrade and its way back follow on exactly what      *)
(* they were made for, and a Package Version is retired when nothing needs it.       *)
(***************************************************************************)
EXTENDS Naturals, Sequences

CONSTANTS Deployments, PackageOf, Plans, Works, Nothing

VARIABLES
    history,    \* the Deployments that have been active, the last one is
    consent,    \* to which Deployment, after how many
    upgrade,    \* what a plan changes, after how many, and what came of it
    uses,       \* the Package Version each Run or hand-off needs
    retired     \* the Package Versions out of service

promiseVars == <<history, consent, upgrade, uses, retired>>

Nowhere == [stage |-> "none", from |-> Nothing, to |-> Nothing, after |-> 0]

PromiseInit ==
    /\ history = <<>> /\ consent = {} /\ retired = {}
    /\ upgrade = [p \in Plans |-> Nowhere]
    /\ uses = [w \in Works |-> Nothing]

Count == Len(history)
To(d) == [deployment |-> d, against |-> Count]

Consent(d) ==
    /\ consent' = consent \union {To(d)}
    /\ UNCHANGED <<history, upgrade, uses, retired>>

(* Consent given before, or with the activation by what was agreed beforehand. *)
Switch(d) ==
    /\ PackageOf[d] \notin retired
    /\ consent' \in {consent, consent \union {To(d)}} /\ To(d) \in consent'
    /\ history' = Append(history, d)
    /\ UNCHANGED <<uses, retired>>

Activate(d) == To(d) \in consent /\ Switch(d) /\ UNCHANGED upgrade

Reach(p, from, to) ==
    /\ upgrade[p].stage \in from
    /\ upgrade' = [upgrade EXCEPT ![p].stage = to]

Analyse(p, t) ==
    /\ upgrade[p].stage = "none" /\ Count # 0 /\ t # history[Count]
    /\ upgrade' = [upgrade EXCEPT ![p] =
            [stage |-> "analysed", from |-> history[Count], to |-> t, after |-> Count]]
    /\ UNCHANGED <<history, consent, uses, retired>>

Upgrade(p) ==
    /\ Count = upgrade[p].after
    /\ Reach(p, {"analysed"}, "upgraded") /\ Switch(upgrade[p].to)

(* The upgraded reality breaks, and is mended.                                 *)
Break(p) ==
    Reach(p, {"upgraded"}, "broken") /\ UNCHANGED <<history, consent, uses, retired>>

Mend(p) ==
    Reach(p, {"broken"}, "upgraded") /\ UNCHANGED <<history, consent, uses, retired>>

(* There is a way back while nothing else has been activated or is broken.     *)
GoBack(p) ==
    /\ Count = upgrade[p].after + 1
    /\ Reach(p, {"upgraded"}, "reverted") /\ Switch(upgrade[p].from)

Use(w) ==
    /\ uses[w] = Nothing
    /\ Count # 0 /\ PackageOf[history[Count]] \notin retired
    /\ uses' = [uses EXCEPT ![w] = PackageOf[history[Count]]]
    /\ UNCHANGED <<history, consent, upgrade, retired>>

Release(w) ==
    /\ uses' = [uses EXCEPT ![w] = Nothing]
    /\ UNCHANGED <<history, consent, upgrade, retired>>

(* Not what is active, in use, or what a broken upgrade would go back to.      *)
Retire(p) ==
    LET k == PackageOf[upgrade[p].from]
    IN  /\ Reach(p, {"upgraded", "reverted"}, "ended")
        /\ k \notin retired /\ PackageOf[history[Count]] # k
        /\ \A w \in Works : uses[w] # k
        /\ \A q \in Plans :
              upgrade[q].stage = "broken" => PackageOf[upgrade[q].from] # k
        /\ retired' = retired \union {k}
        /\ UNCHANGED <<history, consent, uses>>

PromiseNext ==
    \/ \E d \in Deployments : Consent(d) \/ Activate(d)
    \/ \E p \in Plans :
          \/ Upgrade(p) \/ Break(p) \/ Mend(p) \/ GoBack(p) \/ Retire(p)
          \/ \E t \in Deployments : Analyse(p, t)
    \/ \E w \in Works : Use(w) \/ Release(w)

PromiseSpec == PromiseInit /\ [][PromiseNext]_promiseVars
=============================================================================
