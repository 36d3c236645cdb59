-------------------------- MODULE UpgradeLifecycle --------------------------
(***************************************************************************)
(* Which version of a capability has authority, and how it changes: direct   *)
(* business approval and activation, user-space upgrades (report, policy,     *)
(* plan, migration, verification, canary, activation), recovery after an       *)
(* upgrade, and retirement of the old Package Version.  One capability key;      *)
(* every command is a transaction that holds the row of the Environment, so       *)
(* each is one step.  Runs and hand-offs appear as what references a package.      *)
(***************************************************************************)
EXTENDS Naturals, Sequences

CONSTANTS
    Deployments,    \* staged Deployments that offer the capability
    Packages,       \* Package Versions
    PackageOf,      \* the Package Version of a Deployment
    Equivalent,     \* the pairs of Deployments whose authority is equivalent
    Plans,          \* identities of Compatibility Reports and their Upgrade Plan
    Reversibilities,    \* the repair.reversibility values plans may declare
    Checkpoints,    \* number of declared migration checkpoints
    Repairs,        \* the kinds of repair in use
    RepairChanges,  \* bound: the changes repairs of each plan are recorded with
    Works,          \* identities of Runs and of hand-offs
    Ends,           \* the expiry instants callers ask for
    Horizon, MaxRevision,       \* bounds: clock and activations
    MaxMoves, MaxActions,       \* bounds: transitions of each plan up to its
                                \* activation, and recovery actions after it
    Nothing

ASSUME UpgradeAssumption ==
    /\ PackageOf \in [Deployments -> Packages]
    /\ Equivalent \subseteq Deployments \X Deployments
    /\ Reversibilities \subseteq {"reversible", "conditionally_reversible", "forward_only"}
    /\ Repairs \subseteq {"forward_repair", "compensation"}
    /\ RepairChanges \in [Plans -> SUBSET {"compatible", "incompatible"}]
    /\ Checkpoints \in Nat \ {0} /\ Ends \subseteq Nat
    /\ MaxMoves \in [Plans -> Nat] /\ MaxActions \in [Plans -> Nat]
    /\ Nothing \notin Deployments \union Packages

VARIABLES
    now,            \* the clock
    history,        \* kernel_capability_activations: the Deployment of revision n
    approvals,      \* kernel_capability_business_approvals
    plan,           \* Compatibility Reports, Upgrade Plans and their states; the
                    \* latest of a plan's verifications and canary attempts
    receipts,       \* repair-verification receipts the data plane has signed
    work,           \* what references a Package Version: Runs, admitted or completed
                    \* with evidence, and hand-offs, pending or settled
    retired         \* kernel_package_retirements

vars == <<now, history, approvals, plan, receipts, work, retired>>

(* "compatible" stands for the value "none" too: a rollback must name one the  *)
(* plan's boundary allows, and nothing else tells them apart.                   *)
Changes == {"compatible", "incompatible"}
RecoveryAction == [type : Repairs \union {"verified", "deployment_rollback"},
                   change : Changes, resolves : Nat]
PlanStates == {"none", "reported", "planned", "migrating", "verified", "canary_passed",
               "canary_paused", "active", "repair_required", "repair_verified",
               "rolled_back", "retired"}
Plan == [state : PlanStates, revision : Nat,
         current : Deployments \union {Nothing}, target : Deployments \union {Nothing},
         source : Nat, activation : Nat, policy : Nat, preapproved : BOOLEAN,
         reversibility : Reversibilities \union {Nothing}, boundary : Nat, retention : Nat,
         checkpoint : 0 .. Checkpoints, latest : {"none", "verified", "passed", "paused"},
         actions : Seq(RecoveryAction), unresolved : Nat]
Receipt == [plan : Plans, resolves : Nat, type : Repairs, revision : Nat]
Work == [state : {"none", "admitted", "completed", "pending", "settled"},
         package : Packages \union {Nothing}, ends : Nat]

TypeOK ==
    /\ now \in Nat
    /\ history \in Seq(Deployments)
    /\ approvals \subseteq [deployment : Deployments, against : Nat]
    /\ plan \in [Plans -> Plan]
    /\ receipts \subseteq Receipt
    /\ work \in [Works -> Work]
    /\ retired \subseteq Packages

NoPlan == [state |-> "none", revision |-> 0, current |-> Nothing, target |-> Nothing,
           source |-> 0, activation |-> 0, policy |-> 0, preapproved |-> FALSE,
           reversibility |-> Nothing, boundary |-> 0, retention |-> 0,
           checkpoint |-> 0, latest |-> "none", actions |-> <<>>, unresolved |-> 0]
NoWork == [state |-> "none", package |-> Nothing, ends |-> 0]

Init ==
    /\ now = 0 /\ history = <<>> /\ approvals = {} /\ retired = {} /\ receipts = {}
    /\ plan = [p \in Plans |-> NoPlan]
    /\ work = [w \in Works |-> NoWork]
-----------------------------------------------------------------------------
(* Activation identities are the revisions they lead to, so that             *)
(* active_activation_id is current_revision, 0 when there is none.             *)
CurrentRevision == Len(history)
Active == IF history = <<>> THEN Nothing ELSE history[Len(history)]
CurrentApproval(d) == [deployment |-> d, against |-> CurrentRevision]

(* mutation: an approval of the Deployment is enough, whatever came since    *)
ApprovedOnce(d) == \E a \in approvals : a.deployment = d

ApprovedNow(d) == CurrentApproval(d) \in approvals

InService(d) == PackageOf[d] \notin retired

Activate(d) == CurrentRevision < MaxRevision /\ history' = Append(history, d)

ApproveCapability(d) ==
    /\ Active # d /\ ~ApprovedNow(d) /\ CurrentRevision < MaxRevision
    /\ approvals' = approvals \union {CurrentApproval(d)}
    /\ UNCHANGED <<now, history, plan, receipts, work, retired>>

ActivateCapability(d) ==
    /\ ApprovedNow(d) /\ Active # d /\ InService(d)
    /\ Activate(d)
    /\ UNCHANGED <<now, approvals, plan, receipts, work, retired>>
-----------------------------------------------------------------------------
(* setState: the transition, its revision, and what the new detail names.    *)
Moved(p, next) == [plan[p] EXCEPT !.state = next, !.revision = @ + 1, !.unresolved = 0]

CreateCompatibilityReport(p, c, t) ==
    /\ plan[p].state = "none"
    /\ c # t /\ Active = c
    /\ plan' = [plan EXCEPT ![p] = [NoPlan EXCEPT !.state = "reported", !.current = c,
                                        !.target = t, !.source = CurrentRevision]]
    /\ UNCHANGED <<now, history, approvals, receipts, work, retired>>

EquivalentAuthority(p) == <<plan[p].current, plan[p].target>> \in Equivalent

CreateActivationPolicy(p, e) ==
    /\ plan[p].state = "reported" /\ plan[p].policy = 0
    /\ now < e /\ EquivalentAuthority(p)
    /\ plan' = [plan EXCEPT ![p].policy = e]
    /\ UNCHANGED <<now, history, approvals, receipts, work, retired>>

(* A plan binds the policy of its report or none; one without is of use only *)
(* when the authority changes.  Retention may be over from the start.           *)
CreateUpgradePlan(p, r, b, keep) ==
    /\ plan[p].state = "reported"
    /\ plan[p].policy = 0 \/ now < plan[p].policy
    /\ now < b
    /\ plan' = [plan EXCEPT ![p].state = "planned", ![p].reversibility = r,
                            ![p].boundary = b, ![p].retention = keep,
                            ![p].preapproved = (plan[p].policy # 0)]
    /\ UNCHANGED <<now, history, approvals, receipts, work, retired>>

StartMigration(p) ==
    /\ plan[p].state = "planned"
    /\ plan' = [plan EXCEPT ![p] = Moved(p, "migrating")]
    /\ UNCHANGED <<now, history, approvals, receipts, work, retired>>

(* Checkpoints look at the migration's own state, which runs until it is     *)
(* verified, and never at the plan's.                                          *)
CheckpointMigration(p) ==
    /\ plan[p].state = "migrating" /\ plan[p].checkpoint < Checkpoints
    /\ plan' = [plan EXCEPT ![p].checkpoint = @ + 1]
    /\ UNCHANGED <<now, history, approvals, receipts, work, retired>>

VerifyMigration(p) ==
    /\ plan[p].state \in {"migrating", "verified", "canary_paused", "canary_passed"}
    /\ plan[p].checkpoint = Checkpoints
    /\ plan[p].revision < MaxMoves[p]
    /\ plan' = [plan EXCEPT ![p] = [Moved(p, "verified")
                                        EXCEPT !.latest = "verified"]]
    /\ UNCHANGED <<now, history, approvals, receipts, work, retired>>

EvaluateCanary(p, outcome) ==
    /\ plan[p].state \in {"verified", "canary_paused"}
    /\ plan[p].revision < MaxMoves[p]
    /\ plan' = [plan EXCEPT ![p] =
            [Moved(p, IF outcome = "passed" THEN "canary_passed" ELSE "canary_paused")
                EXCEPT !.latest = outcome]]
    /\ UNCHANGED <<now, history, approvals, receipts, work, retired>>

(* mutation: a plan is activated over whatever is active by now              *)
SourceForgotten(p) == history # <<>>

SourceUnchanged(p) == CurrentRevision = plan[p].source

(* The approval an upgrade or a rollback inserts is refused by the unique     *)
(* index when an operator has approved that Deployment at this revision.        *)
ActivateUpgrade(p) ==
    LET t == plan[p].target
    IN  /\ plan[p].state = "canary_passed"
        /\ SourceUnchanged(p)
        /\ IF EquivalentAuthority(p)
           THEN /\ plan[p].preapproved /\ now < plan[p].policy
                /\ ~ApprovedNow(t)
                /\ approvals' = approvals \union {CurrentApproval(t)}
           ELSE ApprovedNow(t) /\ UNCHANGED approvals
        /\ InService(t)
        /\ Activate(t)
        /\ plan' = [plan EXCEPT ![p] = [Moved(p, "active") EXCEPT
                                            !.activation = CurrentRevision + 1]]
        /\ UNCHANGED <<now, receipts, work, retired>>
-----------------------------------------------------------------------------
Recoverable(p) ==
    /\ plan[p].state \in {"active", "repair_required", "repair_verified"}
    /\ Len(plan[p].actions) < MaxActions[p]

(* The plan's state is set only when it changes: what the detail names as     *)
(* unresolved is then this action, and else whatever it was.                   *)
Recorded(p, action, next) ==
    [(IF next = plan[p].state THEN plan[p]
      ELSE [Moved(p, next) EXCEPT !.unresolved = Len(plan[p].actions) + 1])
        EXCEPT !.actions = Append(plan[p].actions, action)]

(* Forward repair needs the binding of a repair capability, which             *)
(* forward-only plans must declare and the others may.                         *)
RecordRepair(p, type, change) ==
    /\ Recoverable(p)
    /\ plan' = [plan EXCEPT ![p] =
            Recorded(p, [type |-> type, change |-> change, resolves |-> 0],
                     IF change = "incompatible" THEN "repair_required" ELSE plan[p].state)]
    /\ UNCHANGED <<now, history, approvals, receipts, work, retired>>

(* The data plane signs that one recorded action has restored compatible      *)
(* reality, naming the revision the plan has by then.                           *)
AttestRepair(p, n) ==
    /\ plan[p].state = "repair_required" /\ n \in DOMAIN plan[p].actions
    /\ plan[p].actions[n].type \in Repairs
    /\ receipts' = receipts \union {[plan |-> p, resolves |-> n,
            type |-> plan[p].actions[n].type, revision |-> plan[p].revision]}
    /\ UNCHANGED <<now, history, approvals, plan, work, retired>>

(* mutation: a receipt for any incident of the plan settles the open one      *)
OfAnIncident(x) == plan[x.plan].actions[x.resolves].change = "incompatible"

Resolves(x) ==
    LET p == x.plan
    IN  /\ x.revision = plan[p].revision
        /\ x.resolves = plan[p].unresolved
        /\ x.type = plan[p].actions[plan[p].unresolved].type

VerifyRepair(x) ==
    LET p == x.plan
    IN  /\ Recoverable(p) /\ plan[p].state = "repair_required"
        /\ Resolves(x)
        /\ plan' = [plan EXCEPT ![p] =
                Recorded(p, [type |-> "verified", change |-> "compatible",
                             resolves |-> x.resolves], "repair_verified")]
        /\ UNCHANGED <<now, history, approvals, receipts, work, retired>>

RollbackDeployment(p, change) ==
    LET s == plan[p].current
    IN  /\ Recoverable(p) /\ plan[p].state # "repair_required"
        /\ change # "incompatible"
        /\ plan[p].reversibility # "forward_only"
        /\ plan[p].reversibility = "conditionally_reversible" => now < plan[p].boundary
        /\ InService(s)
        /\ CurrentRevision = plan[p].activation
        /\ ~ApprovedNow(s)
        /\ approvals' = approvals \union {CurrentApproval(s)}
        /\ Activate(s)
        /\ plan' = [plan EXCEPT ![p] =
                Recorded(p, [type |-> "deployment_rollback", change |-> change,
                             resolves |-> 0], "rolled_back")]
        /\ UNCHANGED <<now, receipts, work, retired>>
-----------------------------------------------------------------------------
OldPackage(p) == PackageOf[plan[p].current]

RepairOpen(p) ==
    \E q \in Plans : plan[q].state = "repair_required" /\ OldPackage(q) = OldPackage(p)

(* mutation: hand-offs are counted only while they can still be accepted      *)
LiveReferences(k) ==
    \E w \in Works : work[w].package = k /\ \/ work[w].state \in {"admitted", "completed"}
                                            \/ work[w].state = "pending" /\ now < work[w].ends

(* Runs count while they are admitted and, by their evidence, when they are   *)
(* completed; hand-offs by their stored state.  A package is retired once.      *)
References(k) ==
    \E w \in Works : work[w].package = k /\ work[w].state # "settled"

RetirePackage(p) ==
    LET k == OldPackage(p)
    IN  /\ plan[p].state \in {"active", "rolled_back", "repair_verified"}
        /\ PackageOf[Active] # k /\ k \notin retired
        /\ ~References(k) /\ ~RepairOpen(p)
        /\ plan[p].retention <= now
        /\ retired' = retired \union {k}
        /\ plan' = [plan EXCEPT ![p] = Moved(p, "retired")]
        /\ UNCHANGED <<now, history, approvals, receipts, work>>
-----------------------------------------------------------------------------
(* What other components do with a Package Version: admit Runs and propose    *)
(* hand-offs under its active capability, and settle them in time.              *)
AdmitRun(w) ==
    /\ work[w].state = "none" /\ Active # Nothing /\ InService(Active)
    /\ work' = [work EXCEPT ![w] =
            [state |-> "admitted", package |-> PackageOf[Active], ends |-> 0]]
    /\ UNCHANGED <<now, history, approvals, plan, receipts, retired>>

CompleteRun(w) ==
    /\ work[w].state = "admitted"
    /\ work' = [work EXCEPT ![w].state = "completed"]
    /\ UNCHANGED <<now, history, approvals, plan, receipts, retired>>

ProposeHandoff(w, e) ==
    /\ work[w].state = "none" /\ Active # Nothing /\ now < e
    /\ work' = [work EXCEPT ![w] =
            [state |-> "pending", package |-> PackageOf[Active], ends |-> e]]
    /\ UNCHANGED <<now, history, approvals, plan, receipts, retired>>

SettleHandoff(w) ==
    /\ work[w].state = "pending" /\ now < work[w].ends
    /\ work' = [work EXCEPT ![w].state = "settled"]
    /\ UNCHANGED <<now, history, approvals, plan, receipts, retired>>

Tick ==
    /\ now < Horizon
    /\ now' = now + 1
    /\ UNCHANGED <<history, approvals, plan, receipts, work, retired>>

Next ==
    \/ \E d \in Deployments : ApproveCapability(d)
    \/ \E d \in Deployments : ActivateCapability(d)
    \/ \E p \in Plans, c, t \in Deployments : CreateCompatibilityReport(p, c, t)
    \/ \E p \in Plans, e \in Ends : CreateActivationPolicy(p, e)
    \/ \E p \in Plans, r \in Reversibilities, b, k \in Ends : CreateUpgradePlan(p, r, b, k)
    \/ \E p \in Plans : StartMigration(p)
    \/ \E p \in Plans : CheckpointMigration(p)
    \/ \E p \in Plans : VerifyMigration(p)
    \/ \E p \in Plans, o \in {"passed", "paused"} : EvaluateCanary(p, o)
    \/ \E p \in Plans : ActivateUpgrade(p)
    \/ \E p \in Plans, t \in Repairs : \E c \in RepairChanges[p] : RecordRepair(p, t, c)
    \/ \E p \in Plans : \E n \in 1 .. MaxActions[p] : AttestRepair(p, n)
    \/ \E x \in receipts : VerifyRepair(x)
    \/ \E p \in Plans, c \in Changes : RollbackDeployment(p, c)
    \/ \E p \in Plans : RetirePackage(p)
    \/ \E w \in Works : AdmitRun(w)
    \/ \E w \in Works : CompleteRun(w)
    \/ \E w \in Works, e \in Ends : ProposeHandoff(w, e)
    \/ \E w \in Works : SettleHandoff(w)
    \/ Tick

Spec == Init /\ [][Next]_vars
-----------------------------------------------------------------------------
(* A retired Package Version is never used again: it is not active, no Run    *)
(* was ever admitted under it and no hand-off binds it still, whatever          *)
(* upgrades, rollbacks and direct activations come after (retirePackage and the   *)
(* retirement checks of admission, activation and rollback).                       *)
RetiredIsUnreferenced ==
    \A k \in retired :
        /\ Active # Nothing /\ PackageOf[Active] # k
        /\ \A w \in Works : work[w].package = k => work[w].state = "settled"

(* An upgrade takes over from exactly the activation it was analysed against,  *)
(* that activation is upgraded at most once, and a rollback puts the same        *)
(* Deployment back right after: no activation in between is ever lost.            *)
UpgradesChain ==
    \A p \in Plans : plan[p].activation # 0 =>
        /\ plan[p].activation = plan[p].source + 1
        /\ plan[p].source # 0 /\ plan[p].activation <= CurrentRevision
        /\ history[plan[p].source] = plan[p].current
        /\ history[plan[p].activation] = plan[p].target
        /\ \A q \in Plans : plan[q].activation = plan[p].activation => q = p
        /\ plan[p].state = "rolled_back" =>
              /\ plan[p].activation < CurrentRevision
              /\ history[plan[p].activation + 1] = plan[p].current

(* Every activation was approved against the revision it replaced: an          *)
(* approval given before something else was activated never counts again,        *)
(* not even when the same Deployment has been active in the meantime.             *)
FreshlyApproved ==
    \A n \in DOMAIN history : [deployment |-> history[n], against |-> n - 1] \in approvals

(* An upgrade is activated on a canary that passed after the last verification *)
(* of the migrated data, however often both were repeated.                        *)
CanaryJudgesVerified ==
    \A p \in Plans : plan[p].activation # 0 => plan[p].latest = "passed"

(* A receipt proves one repair once: each verification resolves an incident    *)
(* that was recorded after the verification before it (item 7 of the docs).       *)
ReceiptsNotReused ==
    \A p \in Plans : \A n \in DOMAIN plan[p].actions :
        LET a == plan[p].actions
        IN  a[n].type = "verified" =>
                /\ a[a[n].resolves].change = "incompatible"
                /\ \A m \in 1 .. n - 1 : a[m].type = "verified" => m < a[n].resolves

(* A Package Version that an unrepaired upgrade would fall back to is not       *)
(* retired, through whichever plan retirement is asked for.                       *)
RepairHoldsPackage ==
    [][\A p \in Plans : plan[p].state = "repair_required" =>
            (OldPackage(p) \in retired' => OldPackage(p) \in retired)]_vars
-----------------------------------------------------------------------------
(* What the promise is about: how far a plan has come, and what still needs a  *)
(* Package Version.                                                              *)
Stage(state) ==
    CASE state = "none" -> "none"
      [] state \in {"active", "repair_verified"} -> "upgraded"
      [] state = "repair_required" -> "broken"
      [] state = "rolled_back" -> "reverted"
      [] state = "retired" -> "ended"
      [] OTHER -> "analysed"

Upgrades == [p \in Plans |-> [stage |-> Stage(plan[p].state), from |-> plan[p].current,
                              to |-> plan[p].target, after |-> plan[p].source]]

Uses == [w \in Works |->
            IF work[w].state \in {"none", "settled"} THEN Nothing ELSE work[w].package]

Promise == INSTANCE UpgradePromise WITH
    consent <- approvals, upgrade <- Upgrades, uses <- Uses

(* Policies, migrations, canaries, repairs, Runs and direct activations that    *)
(* race come to this: what is active was agreed to for that change, upgrades and  *)
(* rollbacks lose no activation, and nothing that is needed is retired.             *)
ImplementsPromise == Promise!PromiseSpec
=============================================================================
