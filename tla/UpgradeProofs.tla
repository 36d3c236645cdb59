--------------------------- MODULE UpgradeProofs ---------------------------
(***************************************************************************)
(* Approvals, upgrades, recovery and retirement, for any number of            *)
(* Deployments, Package Versions, plans, Runs and hand-offs.                    *)
(***************************************************************************)
EXTENDS UpgradeLifecycle, TLAPS

(* A plan names an activation of its current Deployment, and it has one of    *)
(* its own exactly from its activation on.                                      *)
Activated == {"active", "repair_required", "repair_verified", "rolled_back", "retired"}

PlansBound ==
    \A p \in Plans :
        /\ plan[p].state # "none" =>
              /\ plan[p].current \in Deployments /\ plan[p].target \in Deployments
              /\ plan[p].source \in 1 .. Len(history)
              /\ history[plan[p].source] = plan[p].current
        /\ plan[p].activation # 0 <=> plan[p].state \in Activated

(* The verdict of the canary is the last of the attempts it judges.          *)
CanaryIsLatest ==
    \A p \in Plans : plan[p].state = "canary_passed" => plan[p].latest = "passed"

(* An open repair names an incident that was recorded after every             *)
(* verification so far.                                                         *)
OpenIncident ==
    \A p \in Plans : plan[p].state = "repair_required" =>
        /\ plan[p].unresolved \in DOMAIN plan[p].actions
        /\ plan[p].actions[plan[p].unresolved].change = "incompatible"
        /\ \A m \in DOMAIN plan[p].actions :
                plan[p].actions[m].type = "verified" => m < plan[p].unresolved

(* Every verification names an incident between the verification before it    *)
(* and itself.                                                                  *)
ResolvedOnce(a) ==
    \A n \in DOMAIN a : a[n].type = "verified" =>
        /\ a[n].resolves \in 1 .. n - 1
        /\ a[a[n].resolves].change = "incompatible"
        /\ \A m \in 1 .. n - 1 : a[m].type = "verified" => m < a[n].resolves

ReceiptsOnce == \A p \in Plans : ResolvedOnce(plan[p].actions)

IInv == /\ TypeOK /\ PlansBound /\ UpgradesChain /\ FreshlyApproved
        /\ RetiredIsUnreferenced /\ CanaryIsLatest /\ CanaryJudgesVerified
        /\ OpenIncident /\ ReceiptsOnce
-----------------------------------------------------------------------------
(* What the transition of a plan changes.                                     *)
LEMMA MovedFields ==
    ASSUME TypeOK, NEW p \in Plans, NEW next \in PlanStates
    PROVE  /\ Moved(p, next) \in Plan
           /\ Moved(p, next).state = next
           /\ Moved(p, next).current = plan[p].current
           /\ Moved(p, next).target = plan[p].target
           /\ Moved(p, next).source = plan[p].source
           /\ Moved(p, next).activation = plan[p].activation
           /\ Moved(p, next).latest = plan[p].latest
           /\ Moved(p, next).actions = plan[p].actions
           /\ Moved(p, next).unresolved = 0
<1> DEFINE a == [plan[p] EXCEPT !.state = next]
           b == [a EXCEPT !.revision = plan[p].revision + 1]
           c == [b EXCEPT !.unresolved = 0]
<1>1. plan[p] \in Plan /\ plan[p].revision + 1 \in Nat
  BY DEF TypeOK, Plan
<1>2. a \in Plan
  BY <1>1 DEF Plan
<1>3. b \in Plan
  <2> HIDE DEF a
  <2> QED BY <1>1, <1>2 DEF Plan
<1>4. c \in Plan
  <2> HIDE DEF b
  <2> QED BY <1>3 DEF Plan
<1>5. Moved(p, next) = c
  BY <1>1 DEF Moved, Plan
<1>6. /\ c.state = next /\ c.current = plan[p].current /\ c.target = plan[p].target
      /\ c.source = plan[p].source /\ c.activation = plan[p].activation
      /\ c.latest = plan[p].latest /\ c.actions = plan[p].actions /\ c.unresolved = 0
  BY <1>1 DEF Plan
<1> QED BY <1>4, <1>5, <1>6

LEMMA RecordedFields ==
    ASSUME TypeOK, NEW p \in Plans, NEW a \in RecoveryAction, NEW next \in PlanStates
    PROVE  /\ Recorded(p, a, next) \in Plan
           /\ Recorded(p, a, next).state = next
           /\ Recorded(p, a, next).current = plan[p].current
           /\ Recorded(p, a, next).target = plan[p].target
           /\ Recorded(p, a, next).source = plan[p].source
           /\ Recorded(p, a, next).activation = plan[p].activation
           /\ Recorded(p, a, next).latest = plan[p].latest
           /\ Recorded(p, a, next).actions = Append(plan[p].actions, a)
           /\ Recorded(p, a, next).unresolved =
                IF next = plan[p].state THEN plan[p].unresolved
                ELSE Len(plan[p].actions) + 1
<1>1. plan[p] \in Plan /\ plan[p].actions \in Seq(RecoveryAction)
  BY DEF TypeOK, Plan
<1>2. Append(plan[p].actions, a) \in Seq(RecoveryAction) /\ Len(plan[p].actions) + 1 \in Nat
  BY <1>1
<1>3. CASE next = plan[p].state
  <2>1. Recorded(p, a, next) = [plan[p] EXCEPT !.actions = Append(plan[p].actions, a)]
    BY <1>3 DEF Recorded
  <2> QED BY <1>1, <1>2, <1>3, <2>1 DEF Plan
<1>4. CASE next # plan[p].state
  <2> DEFINE b == [Moved(p, next) EXCEPT !.unresolved = Len(plan[p].actions) + 1]
             c == [b EXCEPT !.actions = Append(plan[p].actions, a)]
  <2>1. Moved(p, next) \in Plan
    BY MovedFields
  <2>2. b \in Plan
    BY <1>2, <2>1 DEF Plan
  <2>3. c \in Plan
    <3> HIDE DEF b
    <3> QED BY <1>2, <2>2 DEF Plan
  <2>4. Recorded(p, a, next) = c
    BY <1>4, <2>1 DEF Recorded, Plan
  <2>5. /\ c.state = next /\ c.current = plan[p].current /\ c.target = plan[p].target
        /\ c.source = plan[p].source /\ c.activation = plan[p].activation
        /\ c.latest = plan[p].latest /\ c.actions = Append(plan[p].actions, a)
        /\ c.unresolved = Len(plan[p].actions) + 1
    <3> HIDE DEF Moved
    <3> QED BY <2>1, MovedFields DEF Plan
  <2> QED BY <1>4, <2>3, <2>4, <2>5
<1> QED BY <1>3, <1>4

(* The steps of Next, those that change nothing but one plan, and those of     *)
(* the components that reference packages, under one name each.                 *)
Preparing(p) ==
    \/ \E e \in Ends : CreateActivationPolicy(p, e)
    \/ \E r \in Reversibilities, b, k \in Ends : CreateUpgradePlan(p, r, b, k)
    \/ StartMigration(p) \/ CheckpointMigration(p) \/ VerifyMigration(p)
    \/ \E o \in {"passed", "paused"} : EvaluateCanary(p, o)

PlanOnly(p) ==
    \/ Preparing(p)
    \/ \E c, t \in Deployments : CreateCompatibilityReport(p, c, t)
    \/ \E t \in Repairs, c \in Changes : RecordRepair(p, t, c)

Referencing(w) ==
    \/ AdmitRun(w) \/ CompleteRun(w) \/ SettleHandoff(w)
    \/ \E e \in Ends : ProposeHandoff(w, e)

LEMMA NextCases ==
    ASSUME [Next]_vars
    PROVE  \/ UNCHANGED vars
           \/ \E d \in Deployments : ApproveCapability(d)
           \/ \E d \in Deployments : ActivateCapability(d)
           \/ \E p \in Plans : ActivateUpgrade(p)
           \/ \E p \in Plans, c \in Changes : RollbackDeployment(p, c)
           \/ \E p \in Plans : PlanOnly(p)
           \/ \E p \in Plans : \E n \in 1 .. MaxActions[p] : AttestRepair(p, n)
           \/ \E x \in receipts : VerifyRepair(x)
           \/ \E p \in Plans : RetirePackage(p)
           \/ \E w \in Works : Referencing(w)
           \/ Tick
<1>1. \A p \in Plans : RepairChanges[p] \subseteq Changes
  BY UpgradeAssumption DEF Changes
<1> QED BY <1>1 DEF Next, PlanOnly, Preparing, Referencing

(* Activations are only added.                                                *)
LEMMA HistoryGrows ==
    ASSUME TypeOK, PlansBound, [Next]_vars
    PROVE  /\ history' \in Seq(Deployments) /\ Len(history) \in Nat
           /\ \/ history' = history
              \/ \E d \in Deployments : history' = Append(history, d)
           /\ Len(history) <= Len(history')
           /\ \A n \in 1 .. Len(history) : history'[n] = history[n]
<1>1. ASSUME history' = history \/ \E d \in Deployments : history' = Append(history, d)
      PROVE  /\ history' \in Seq(Deployments) /\ Len(history) \in Nat
             /\ Len(history) <= Len(history')
             /\ \A n \in 1 .. Len(history) : history'[n] = history[n]
  <2>1. history \in Seq(Deployments) /\ Len(history) \in Nat
    BY DEF TypeOK
  <2>2. CASE history' = history
    BY <2>1, <2>2
  <2>3. ASSUME NEW d \in Deployments, history' = Append(history, d)
        PROVE  /\ history' \in Seq(Deployments) /\ Len(history) <= Len(history')
               /\ \A n \in 1 .. Len(history) : history'[n] = history[n]
    BY <2>1, <2>3
  <2> QED BY <1>1, <2>1, <2>2, <2>3
<1>2. ASSUME \/ \E d \in Deployments : ActivateCapability(d)
             \/ \E p \in Plans : ActivateUpgrade(p)
             \/ \E p \in Plans, c \in Changes : RollbackDeployment(p, c)
      PROVE  history' = history \/ \E d \in Deployments : history' = Append(history, d)
  <2>1. ASSUME NEW d \in Deployments, ActivateCapability(d)
        PROVE  history' = Append(history, d)
    BY <2>1 DEF ActivateCapability, Activate
  <2>2. ASSUME NEW p \in Plans, ActivateUpgrade(p)
        PROVE  plan[p].target \in Deployments /\ history' = Append(history, plan[p].target)
    BY <2>2 DEF ActivateUpgrade, Activate, PlansBound
  <2>3. ASSUME NEW p \in Plans, NEW c \in Changes, RollbackDeployment(p, c)
        PROVE  plan[p].current \in Deployments /\ history' = Append(history, plan[p].current)
    BY <2>3 DEF RollbackDeployment, Recoverable, Activate, PlansBound
  <2> QED BY <1>2, <2>1, <2>2, <2>3
<1>3. ASSUME \/ UNCHANGED vars
             \/ \E d \in Deployments : ApproveCapability(d)
             \/ \E p \in Plans : PlanOnly(p)
             \/ \E p \in Plans : \E n \in 1 .. MaxActions[p] : AttestRepair(p, n)
             \/ \E x \in receipts : VerifyRepair(x)
             \/ \E p \in Plans : RetirePackage(p)
             \/ \E w \in Works : Referencing(w)
             \/ Tick
      PROVE  history' = history
  <2>1. ASSUME NEW p \in Plans, NEW r \in Reversibilities, NEW b \in Ends, NEW k \in Ends,
               CreateUpgradePlan(p, r, b, k)
        PROVE  history' = history
    BY <2>1, Zenon DEF CreateUpgradePlan
  <2>2. ASSUME NEW p \in Plans, PlanOnly(p) PROVE history' = history
    BY <2>1, <2>2 DEF PlanOnly, Preparing, CreateCompatibilityReport,
        CreateActivationPolicy, StartMigration, CheckpointMigration, VerifyMigration,
        EvaluateCanary, RecordRepair
  <2>3. ASSUME NEW w \in Works, Referencing(w) PROVE history' = history
    BY <2>3 DEF Referencing, AdmitRun, CompleteRun, ProposeHandoff, SettleHandoff
  <2> QED BY <1>3, <2>2, <2>3
       DEF vars, ApproveCapability, AttestRepair, VerifyRepair, RetirePackage, Tick
<1>4. \/ UNCHANGED vars
      \/ \E d \in Deployments : ApproveCapability(d)
      \/ \E d \in Deployments : ActivateCapability(d)
      \/ \E p \in Plans : ActivateUpgrade(p)
      \/ \E p \in Plans, c \in Changes : RollbackDeployment(p, c)
      \/ \E p \in Plans : PlanOnly(p)
      \/ \E p \in Plans : \E n \in 1 .. MaxActions[p] : AttestRepair(p, n)
      \/ \E x \in receipts : VerifyRepair(x)
      \/ \E p \in Plans : RetirePackage(p)
      \/ \E w \in Works : Referencing(w)
      \/ Tick
  BY NextCases
<1> QED BY <1>1, <1>2, <1>3, <1>4
-----------------------------------------------------------------------------
(* What a step does to the plan it moves.                                     *)
SamePlan(p) ==
    /\ plan'[p].current = plan[p].current /\ plan'[p].target = plan[p].target
    /\ plan'[p].source = plan[p].source

Analysed(p) ==
    /\ plan'[p].state = "reported" /\ history' = history /\ history # <<>>
    /\ plan'[p].current = history[Len(history)] /\ plan'[p].target \in Deployments
    /\ plan'[p].source = Len(history) /\ plan'[p].activation = 0
    /\ plan'[p].actions = <<>>

Prepared(p) ==
    /\ SamePlan(p) /\ plan[p].state \notin Activated \union {"none"}
    /\ plan'[p].state \notin Activated \union {"none"}
    /\ plan'[p].activation = plan[p].activation /\ plan'[p].actions = plan[p].actions
    /\ plan'[p].state = "canary_passed" => plan'[p].latest = "passed"

Upgraded(p) ==
    /\ SamePlan(p) /\ plan[p].state = "canary_passed" /\ plan'[p].state = "active"
    /\ plan[p].source = Len(history) /\ history' = Append(history, plan[p].target)
    /\ plan'[p].activation = Len(history) + 1
    /\ plan'[p].actions = plan[p].actions /\ plan'[p].latest = plan[p].latest

Recovering(p) ==
    /\ SamePlan(p) /\ plan[p].state \in Activated \ {"rolled_back", "retired"}
    /\ plan'[p].activation = plan[p].activation /\ plan'[p].latest = plan[p].latest

Damaged(p) ==
    /\ Recovering(p)
    /\ \E a \in RecoveryAction :
          /\ plan'[p].actions = Append(plan[p].actions, a) /\ a.type # "verified"
          /\ \/ /\ plan'[p].state = plan[p].state
                /\ plan'[p].unresolved = plan[p].unresolved
             \/ /\ plan'[p].state = "repair_required" /\ a.change = "incompatible"
                /\ plan'[p].unresolved = Len(plan[p].actions) + 1

Repaired(p) ==
    /\ Recovering(p) /\ plan[p].state = "repair_required"
    /\ plan'[p].state = "repair_verified"
    /\ \E a \in RecoveryAction :
          /\ plan'[p].actions = Append(plan[p].actions, a)
          /\ a.type = "verified" /\ a.resolves = plan[p].unresolved

RolledBack(p) ==
    /\ Recovering(p) /\ plan'[p].state = "rolled_back"
    /\ plan[p].activation = Len(history) /\ history' = Append(history, plan[p].current)
    /\ \E a \in RecoveryAction :
          plan'[p].actions = Append(plan[p].actions, a) /\ a.type # "verified"

Retired(p) ==
    /\ SamePlan(p) /\ plan[p].state \in Activated /\ plan'[p].state = "retired"
    /\ plan'[p].activation = plan[p].activation /\ plan'[p].latest = plan[p].latest
    /\ plan'[p].actions = plan[p].actions

Moves(p) == \/ Analysed(p) \/ Prepared(p) \/ Upgraded(p) \/ Damaged(p)
            \/ Repaired(p) \/ RolledBack(p) \/ Retired(p)

OnlyPlan(p) == plan' \in [Plans -> Plan] /\ \A q \in Plans \ {p} : plan'[q] = plan[q]

(* The preparation of an upgrade, up to the verdict of its canary.            *)
LEMMA PreparationMoves ==
    ASSUME TypeOK, NEW p \in Plans, Preparing(p)
    PROVE  Prepared(p) /\ OnlyPlan(p)
<1> USE UpgradeAssumption
<1>0. plan \in [Plans -> Plan] /\ plan[p] \in Plan
  BY DEF TypeOK
<1>1. ASSUME NEW e \in Ends, CreateActivationPolicy(p, e) PROVE Prepared(p) /\ OnlyPlan(p)
  <2>1. [plan[p] EXCEPT !.policy = e] \in Plan
    BY <1>0 DEF Plan
  <2> QED BY <1>0, <1>1, <2>1
       DEF CreateActivationPolicy, Prepared, SamePlan, OnlyPlan, Activated, Plan
<1>2. ASSUME NEW r \in Reversibilities, NEW b \in Ends, NEW k \in Ends,
             CreateUpgradePlan(p, r, b, k)
      PROVE  Prepared(p) /\ OnlyPlan(p)
  <2> DEFINE x == [plan[p] EXCEPT !.state = "planned"]
             y == [x EXCEPT !.reversibility = r]
             z == [y EXCEPT !.boundary = b]
             v == [z EXCEPT !.retention = k]
             w == [v EXCEPT !.preapproved = (plan[p].policy # 0)]
  <2>1. x \in Plan
    BY <1>0 DEF Plan, PlanStates
  <2>2. y \in Plan
    <3> HIDE DEF x
    <3> QED BY <2>1 DEF Plan
  <2>3. z \in Plan
    <3> HIDE DEF y
    <3> QED BY <2>2 DEF Plan
  <2>4. v \in Plan
    <3> HIDE DEF z
    <3> QED BY <2>3 DEF Plan
  <2>5. w \in Plan
    <3> HIDE DEF v
    <3> QED BY <2>4 DEF Plan
  <2>6. plan' = [plan EXCEPT ![p] = w]
    BY <1>0, <1>2 DEF CreateUpgradePlan, Plan
  <2>7. /\ w.state = "planned" /\ w.current = plan[p].current /\ w.target = plan[p].target
        /\ w.source = plan[p].source /\ w.activation = plan[p].activation
        /\ w.actions = plan[p].actions
    BY <1>0 DEF Plan
  <2>8. plan[p].state = "reported"
    BY <1>2 DEF CreateUpgradePlan
  <2> HIDE DEF w
  <2> QED BY <1>0, <2>5, <2>6, <2>7, <2>8 DEF Prepared, SamePlan, OnlyPlan, Activated
<1>3. CASE StartMigration(p)
  <2>1. "migrating" \in PlanStates
    BY DEF PlanStates
  <2> HIDE DEF Moved
  <2> QED BY <1>0, <1>3, <2>1, MovedFields
       DEF StartMigration, Prepared, SamePlan, OnlyPlan, Activated
<1>4. CASE CheckpointMigration(p)
  <2>1. [plan[p] EXCEPT !.checkpoint = plan[p].checkpoint + 1] \in Plan
    <3>1. plan[p].checkpoint + 1 \in 0 .. Checkpoints
      BY <1>0, <1>4 DEF CheckpointMigration, Plan
    <3> QED BY <1>0, <3>1 DEF Plan
  <2> QED BY <1>0, <1>4, <2>1
       DEF CheckpointMigration, Prepared, SamePlan, OnlyPlan, Activated, Plan
<1>5. ASSUME NEW s \in PlanStates \ (Activated \union {"none"}),
             NEW l \in {"verified", "passed", "paused"},
             plan[p].state \notin Activated \union {"none"}, s = "canary_passed" => l = "passed",
             plan' = [plan EXCEPT ![p] = [Moved(p, s) EXCEPT !.latest = l]]
      PROVE  Prepared(p) /\ OnlyPlan(p)
  <2>1. [Moved(p, s) EXCEPT !.latest = l] \in Plan
    <3>1. Moved(p, s) \in Plan
      BY MovedFields
    <3> HIDE DEF Moved
    <3> QED BY <3>1 DEF Plan
  <2> HIDE DEF Moved
  <2>2. /\ [Moved(p, s) EXCEPT !.latest = l].state = s
        /\ [Moved(p, s) EXCEPT !.latest = l].current = plan[p].current
        /\ [Moved(p, s) EXCEPT !.latest = l].target = plan[p].target
        /\ [Moved(p, s) EXCEPT !.latest = l].source = plan[p].source
        /\ [Moved(p, s) EXCEPT !.latest = l].activation = plan[p].activation
        /\ [Moved(p, s) EXCEPT !.latest = l].actions = plan[p].actions
        /\ [Moved(p, s) EXCEPT !.latest = l].latest = l
    BY MovedFields DEF Plan
  <2> QED BY <1>0, <1>5, <2>1, <2>2 DEF Prepared, SamePlan, OnlyPlan
<1>6. CASE VerifyMigration(p)
  BY <1>5, <1>6 DEF VerifyMigration, PlanStates, Activated
<1>7. ASSUME NEW o \in {"passed", "paused"}, EvaluateCanary(p, o)
      PROVE  Prepared(p) /\ OnlyPlan(p)
  BY <1>5, <1>7 DEF EvaluateCanary, PlanStates, Activated
<1> QED BY <1>1, <1>2, <1>3, <1>4, <1>6, <1>7 DEF Preparing

LEMMA AnalysisMoves ==
    ASSUME TypeOK, NEW p \in Plans, NEW c \in Deployments, NEW t \in Deployments,
           CreateCompatibilityReport(p, c, t)
    PROVE  Analysed(p) /\ OnlyPlan(p)
<1>1. plan \in [Plans -> Plan] /\ history \in Seq(Deployments)
  BY DEF TypeOK
<1>2. history # <<>> /\ c = history[Len(history)]
  BY UpgradeAssumption DEF CreateCompatibilityReport, Active
<1> DEFINE x == [NoPlan EXCEPT !.state = "reported"]
           y == [x EXCEPT !.current = c]
           z == [y EXCEPT !.target = t]
           w == [z EXCEPT !.source = CurrentRevision]
<1>3. NoPlan \in Plan
  <2>1. <<>> \in Seq(RecoveryAction) /\ 0 \in 0 .. Checkpoints
    BY UpgradeAssumption
  <2> QED BY <2>1 DEF NoPlan, Plan, PlanStates
<1>4. x \in Plan
  BY <1>3 DEF Plan, PlanStates
<1>5. y \in Plan
  <2> HIDE DEF x
  <2> QED BY <1>4 DEF Plan
<1>6. z \in Plan
  <2> HIDE DEF y
  <2> QED BY <1>5 DEF Plan
<1>7. w \in Plan
  <2>1. CurrentRevision \in Nat
    BY <1>1 DEF CurrentRevision
  <2> HIDE DEF z
  <2> QED BY <1>6, <2>1 DEF Plan
<1>8. plan' = [plan EXCEPT ![p] = w] /\ history' = history
  BY DEF CreateCompatibilityReport, NoPlan
<1>9. /\ w.state = "reported" /\ w.current = c /\ w.target = t
      /\ w.source = Len(history) /\ w.activation = 0 /\ w.actions = <<>>
  BY DEF NoPlan, CurrentRevision
<1> HIDE DEF w
<1> QED BY <1>1, <1>2, <1>7, <1>8, <1>9 DEF Analysed, OnlyPlan

LEMMA UpgradeMoves ==
    ASSUME TypeOK, NEW p \in Plans, ActivateUpgrade(p)
    PROVE  Upgraded(p) /\ OnlyPlan(p)
<1>1. plan \in [Plans -> Plan] /\ history \in Seq(Deployments) /\ "active" \in PlanStates
  BY DEF TypeOK, PlanStates
<1> DEFINE w == [Moved(p, "active") EXCEPT !.activation = Len(history) + 1]
<1>2. Moved(p, "active") \in Plan
  BY <1>1, MovedFields
<1>3. w \in Plan
  <2>1. Len(history) + 1 \in Nat
    BY <1>1
  <2> HIDE DEF Moved
  <2> QED BY <1>2, <2>1 DEF Plan
<1>4. /\ w.state = "active" /\ w.current = plan[p].current /\ w.target = plan[p].target
      /\ w.source = plan[p].source /\ w.activation = Len(history) + 1
      /\ w.latest = plan[p].latest /\ w.actions = plan[p].actions
  <2> DEFINE v == Moved(p, "active")
  <2>1. v \in Plan
    BY <1>2
  <2>2. /\ v.state = "active" /\ v.current = plan[p].current
        /\ v.target = plan[p].target /\ v.source = plan[p].source
        /\ v.latest = plan[p].latest /\ v.actions = plan[p].actions
    BY <1>1, MovedFields
  <2>3. w = [v EXCEPT !.activation = Len(history) + 1]
    OBVIOUS
  <2> HIDE DEF v, w
  <2> QED BY <2>1, <2>2, <2>3 DEF Plan
<1>5. /\ plan' = [plan EXCEPT ![p] = w] /\ plan[p].state = "canary_passed"
      /\ plan[p].source = Len(history) /\ history' = Append(history, plan[p].target)
  <2> HIDE DEF Moved
  <2> QED BY DEF ActivateUpgrade, Activate, SourceUnchanged, CurrentRevision
<1> HIDE DEF w
<1> QED BY <1>1, <1>3, <1>4, <1>5 DEF Upgraded, SamePlan, OnlyPlan

(* Recovery after the activation, and the retirement that ends a plan.        *)
LEMMA RecoveryMoves ==
    ASSUME TypeOK, NEW p \in Plans, NEW a \in RecoveryAction, NEW s \in PlanStates,
           Recoverable(p), plan' = [plan EXCEPT ![p] = Recorded(p, a, s)]
    PROVE  /\ Recovering(p) /\ OnlyPlan(p)
           /\ plan'[p].state = s /\ plan'[p].actions = Append(plan[p].actions, a)
           /\ plan'[p].unresolved =
                IF s = plan[p].state THEN plan[p].unresolved ELSE Len(plan[p].actions) + 1
<1>1. plan \in [Plans -> Plan] /\ plan[p].state \in Activated \ {"rolled_back", "retired"}
  BY DEF TypeOK, Recoverable, Activated
<1> HIDE DEF Recorded
<1>2. plan'[p] = Recorded(p, a, s) /\ OnlyPlan(p)
  BY <1>1, RecordedFields DEF OnlyPlan
<1> QED BY <1>1, <1>2, RecordedFields DEF Recovering, SamePlan

LEMMA DamageMoves ==
    ASSUME TypeOK, NEW p \in Plans, NEW t \in Repairs, NEW c \in Changes,
           RecordRepair(p, t, c)
    PROVE  Damaged(p) /\ OnlyPlan(p)
<1> DEFINE a == [type |-> t, change |-> c, resolves |-> 0]
           s == IF c = "incompatible" THEN "repair_required" ELSE plan[p].state
<1>1. a \in RecoveryAction /\ a.type # "verified" /\ a.change = c
  BY UpgradeAssumption DEF RecoveryAction
<1>2. s \in PlanStates
  BY DEF TypeOK, Plan, PlanStates
<1>3. Recoverable(p) /\ plan' = [plan EXCEPT ![p] = Recorded(p, a, s)]
  BY DEF RecordRepair
<1> HIDE DEF a
<1>4. s = plan[p].state \/ (s = "repair_required" /\ a.change = "incompatible")
  <2>1. CASE c = "incompatible"
    BY <1>1, <2>1
  <2>2. CASE c # "incompatible"
    BY <2>2
  <2> QED BY <2>1, <2>2
<1> HIDE DEF s
<1>5. /\ Recovering(p) /\ OnlyPlan(p)
      /\ plan'[p].state = s /\ plan'[p].actions = Append(plan[p].actions, a)
      /\ plan'[p].unresolved =
            IF s = plan[p].state THEN plan[p].unresolved ELSE Len(plan[p].actions) + 1
  BY <1>1, <1>2, <1>3, RecoveryMoves
<1> QED BY <1>1, <1>4, <1>5 DEF Damaged

LEMMA RepairMoves ==
    ASSUME TypeOK, NEW x \in receipts, VerifyRepair(x)
    PROVE  x.plan \in Plans /\ Repaired(x.plan) /\ OnlyPlan(x.plan)
<1> DEFINE p == x.plan
           a == [type |-> "verified", change |-> "compatible", resolves |-> x.resolves]
<1>1. p \in Plans /\ a \in RecoveryAction /\ "repair_verified" \in PlanStates
  BY DEF TypeOK, Receipt, RecoveryAction, Changes, PlanStates
<1>2. /\ Recoverable(p) /\ plan[p].state = "repair_required"
      /\ plan' = [plan EXCEPT ![p] = Recorded(p, a, "repair_verified")]
      /\ a.type = "verified" /\ a.resolves = plan[p].unresolved
  BY DEF VerifyRepair, Resolves
<1> HIDE DEF p, a
<1>3. /\ Recovering(p) /\ OnlyPlan(p) /\ plan'[p].state = "repair_verified"
      /\ plan'[p].actions = Append(plan[p].actions, a)
  BY <1>1, <1>2, RecoveryMoves
<1>4. Repaired(p)
  BY <1>1, <1>2, <1>3 DEF Repaired
<1> QED BY <1>1, <1>3, <1>4 DEF p

LEMMA RollbackMoves ==
    ASSUME TypeOK, NEW p \in Plans, NEW c \in Changes, RollbackDeployment(p, c)
    PROVE  RolledBack(p) /\ OnlyPlan(p)
<1> DEFINE a == [type |-> "deployment_rollback", change |-> c, resolves |-> 0]
<1>1. a \in RecoveryAction /\ "rolled_back" \in PlanStates /\ a.type # "verified"
  BY DEF RecoveryAction, PlanStates
<1>2. /\ Recoverable(p) /\ plan' = [plan EXCEPT ![p] = Recorded(p, a, "rolled_back")]
      /\ plan[p].activation = Len(history) /\ history' = Append(history, plan[p].current)
  BY DEF RollbackDeployment, Activate, CurrentRevision
<1> HIDE DEF a
<1>3. /\ Recovering(p) /\ OnlyPlan(p) /\ plan'[p].state = "rolled_back"
      /\ plan'[p].actions = Append(plan[p].actions, a)
  BY <1>1, <1>2, RecoveryMoves
<1> QED BY <1>1, <1>2, <1>3 DEF RolledBack

LEMMA RetireMoves ==
    ASSUME TypeOK, NEW p \in Plans, RetirePackage(p)
    PROVE  Retired(p) /\ OnlyPlan(p)
<1>1. /\ plan \in [Plans -> Plan] /\ "retired" \in PlanStates
      /\ plan[p].state \in Activated /\ plan' = [plan EXCEPT ![p] = Moved(p, "retired")]
  BY DEF RetirePackage, TypeOK, PlanStates, Activated
<1> HIDE DEF Moved
<1> QED BY <1>1, MovedFields DEF Retired, SamePlan, OnlyPlan

LEMMA StepMoves ==
    ASSUME TypeOK, [Next]_vars
    PROVE  plan' = plan \/ \E p \in Plans : Moves(p) /\ OnlyPlan(p)
<1>1. ASSUME NEW p \in Plans, PlanOnly(p) PROVE Moves(p) /\ OnlyPlan(p)
  BY <1>1, PreparationMoves, AnalysisMoves, DamageMoves DEF PlanOnly, Moves
<1>2. ASSUME NEW x \in receipts, VerifyRepair(x)
      PROVE  \E p \in Plans : Moves(p) /\ OnlyPlan(p)
  BY <1>2, RepairMoves DEF Moves
<1>3. ASSUME NEW p \in Plans, NEW c \in Changes, RollbackDeployment(p, c)
      PROVE  Moves(p) /\ OnlyPlan(p)
  BY <1>3, RollbackMoves DEF Moves
<1>4. ASSUME NEW p \in Plans, RetirePackage(p) PROVE Moves(p) /\ OnlyPlan(p)
  BY <1>4, RetireMoves DEF Moves
<1>5. ASSUME NEW w \in Works, Referencing(w) PROVE plan' = plan
  BY <1>5 DEF Referencing, AdmitRun, CompleteRun, ProposeHandoff, SettleHandoff
<1>6. ASSUME \/ UNCHANGED vars \/ Tick
             \/ \E d \in Deployments : ApproveCapability(d) \/ ActivateCapability(d)
             \/ \E p \in Plans : \E n \in 1 .. MaxActions[p] : AttestRepair(p, n)
      PROVE  plan' = plan
  BY <1>6 DEF vars, Tick, ApproveCapability, ActivateCapability, AttestRepair
<1> QED BY NextCases, UpgradeMoves, <1>1, <1>2, <1>3, <1>4, <1>5, <1>6 DEF Moves
-----------------------------------------------------------------------------
LEMMA InitIInv == Init => IInv
<1> SUFFICES ASSUME Init PROVE IInv
  OBVIOUS
<1>1. NoPlan \in Plan /\ NoWork \in Work
  <2>1. <<>> \in Seq(RecoveryAction) /\ 0 \in 0 .. Checkpoints
    BY UpgradeAssumption
  <2> QED BY <2>1 DEF NoPlan, Plan, PlanStates, NoWork, Work
<1>2. <<>> \in Seq(Deployments)
  OBVIOUS
<1>3. TypeOK
  BY <1>1, <1>2 DEF Init, TypeOK
<1>4. PlansBound /\ UpgradesChain /\ CanaryIsLatest /\ CanaryJudgesVerified
  BY DEF Init, NoPlan, PlansBound, UpgradesChain, CanaryIsLatest, CanaryJudgesVerified,
         Activated
<1>5. FreshlyApproved /\ RetiredIsUnreferenced
  BY DEF Init, FreshlyApproved, RetiredIsUnreferenced
<1>6. OpenIncident /\ ReceiptsOnce
  BY DEF Init, NoPlan, OpenIncident, ReceiptsOnce, ResolvedOnce
<1> QED BY <1>3, <1>4, <1>5, <1>6 DEF IInv

LEMMA TypeStep == TypeOK /\ PlansBound /\ [Next]_vars => TypeOK'
<1> SUFFICES ASSUME TypeOK, PlansBound, [Next]_vars PROVE TypeOK'
  OBVIOUS
<1> USE UpgradeAssumption
<1>1. plan' \in [Plans -> Plan]
  BY StepMoves DEF TypeOK, OnlyPlan
<1>2. history' \in Seq(Deployments)
  BY HistoryGrows
<1>3. ASSUME NEW d \in Deployments
      PROVE  CurrentApproval(d) \in [deployment : Deployments, against : Nat]
  BY HistoryGrows DEF CurrentApproval, CurrentRevision
<1>4. /\ now' \in Nat /\ approvals' \subseteq [deployment : Deployments, against : Nat]
      /\ receipts' \subseteq Receipt /\ work' \in [Works -> Work] /\ retired' \subseteq Packages
  <2> DEFINE Goal ==
        /\ now' \in Nat /\ approvals' \subseteq [deployment : Deployments, against : Nat]
        /\ receipts' \subseteq Receipt /\ work' \in [Works -> Work] /\ retired' \subseteq Packages
  <2>0. SUFFICES Goal
    OBVIOUS
  <2>1. ASSUME NEW p \in Plans, PlanOnly(p)
        PROVE  UNCHANGED <<now, approvals, receipts, work, retired>>
    <3>1. ASSUME NEW r \in Reversibilities, NEW b \in Ends, NEW k \in Ends,
                 CreateUpgradePlan(p, r, b, k)
          PROVE  UNCHANGED <<now, approvals, receipts, work, retired>>
      BY <3>1, Zenon DEF CreateUpgradePlan
    <3> QED BY <2>1, <3>1 DEF PlanOnly, Preparing, CreateCompatibilityReport,
            CreateActivationPolicy, StartMigration, CheckpointMigration, VerifyMigration,
            EvaluateCanary, RecordRepair
  <2>2. ASSUME NEW p \in Plans, ActivateUpgrade(p)
        PROVE  /\ approvals' \subseteq approvals \union {CurrentApproval(plan[p].target)}
               /\ plan[p].target \in Deployments
               /\ UNCHANGED <<now, receipts, work, retired>>
    <3> HIDE DEF Moved
    <3> QED BY <2>2 DEF ActivateUpgrade, PlansBound
  <2>3. ASSUME NEW p \in Plans, NEW c \in Changes, RollbackDeployment(p, c)
        PROVE  /\ approvals' = approvals \union {CurrentApproval(plan[p].current)}
               /\ plan[p].current \in Deployments
               /\ UNCHANGED <<now, receipts, work, retired>>
    BY <2>3 DEF RollbackDeployment, Recoverable, PlansBound
  <2>4. ASSUME NEW p \in Plans, NEW n \in 1 .. MaxActions[p], AttestRepair(p, n)
        PROVE  receipts' \subseteq Receipt /\ UNCHANGED <<now, approvals, work, retired>>
    <3>1. /\ plan[p] \in Plan /\ n \in Nat
          /\ plan[p].actions[n].type \in Repairs
      BY <2>4 DEF AttestRepair, TypeOK, Plan
    <3> QED BY <2>4, <3>1 DEF AttestRepair, TypeOK, Plan, Receipt
  <2>5. ASSUME NEW x \in receipts, VerifyRepair(x)
        PROVE  UNCHANGED <<now, approvals, receipts, work, retired>>
    BY <2>5 DEF VerifyRepair
  <2>6. ASSUME NEW p \in Plans, RetirePackage(p)
        PROVE  retired' \subseteq Packages /\ UNCHANGED <<now, approvals, receipts, work>>
    BY <2>6 DEF RetirePackage, OldPackage, PlansBound, TypeOK
  <2>7. ASSUME NEW w \in Works, Referencing(w)
        PROVE  work' \in [Works -> Work] /\ UNCHANGED <<now, approvals, receipts, retired>>
    <3>1. Active # Nothing => PackageOf[Active] \in Packages
      BY DEF Active, TypeOK
    <3>2. CASE AdmitRun(w)
      <4>1. [state |-> "admitted", package |-> PackageOf[Active], ends |-> 0] \in Work
        BY <3>1, <3>2 DEF AdmitRun, Work
      <4> QED BY <3>2, <4>1 DEF AdmitRun, TypeOK
    <3>3. CASE CompleteRun(w)
      BY <3>3 DEF CompleteRun, TypeOK, Work
    <3>5. CASE SettleHandoff(w)
      BY <3>5 DEF SettleHandoff, TypeOK, Work
    <3>4. ASSUME NEW e \in Ends, ProposeHandoff(w, e)
          PROVE  work' \in [Works -> Work] /\ UNCHANGED <<now, approvals, receipts, retired>>
      <4>1. [state |-> "pending", package |-> PackageOf[Active], ends |-> e] \in Work
        BY <3>1, <3>4 DEF ProposeHandoff, Work
      <4> QED BY <3>4, <4>1 DEF ProposeHandoff, TypeOK
    <3> QED BY <2>7, <3>2, <3>3, <3>4, <3>5 DEF Referencing
  <2>8. ASSUME NEW d \in Deployments, ApproveCapability(d) \/ ActivateCapability(d)
        PROVE  /\ approvals' \subseteq approvals \union {CurrentApproval(d)}
               /\ UNCHANGED <<now, receipts, work, retired>>
    BY <2>8 DEF ApproveCapability, ActivateCapability
  <2>9. ASSUME Tick \/ UNCHANGED vars PROVE Goal
    BY <2>9 DEF Tick, vars, TypeOK
  <2>10. ASSUME NEW d \in Deployments, approvals' \subseteq approvals \union {CurrentApproval(d)}
         PROVE  approvals' \subseteq [deployment : Deployments, against : Nat]
    BY <1>3, <2>10 DEF TypeOK
  <2>11. ASSUME \E p \in Plans : PlanOnly(p) PROVE Goal
    BY <2>1, <2>11 DEF TypeOK
  <2>12. ASSUME \E p \in Plans : ActivateUpgrade(p) PROVE Goal
    BY <2>2, <2>10, <2>12 DEF TypeOK
  <2>13. ASSUME \E p \in Plans, c \in Changes : RollbackDeployment(p, c) PROVE Goal
    BY <2>3, <2>10, <2>13 DEF TypeOK
  <2>14. ASSUME \E p \in Plans : \E n \in 1 .. MaxActions[p] : AttestRepair(p, n) PROVE Goal
    BY <2>4, <2>14 DEF TypeOK
  <2>15. ASSUME \E p \in Plans : RetirePackage(p) PROVE Goal
    BY <2>6, <2>15 DEF TypeOK
  <2>16. ASSUME NEW d \in Deployments, ApproveCapability(d) \/ ActivateCapability(d)
         PROVE  Goal
    BY <2>8, <2>10, <2>16 DEF TypeOK
  <2>17. ASSUME \E x \in receipts : VerifyRepair(x) PROVE Goal
    BY <2>5, <2>17 DEF TypeOK
  <2>18. ASSUME \E w \in Works : Referencing(w) PROVE Goal
    BY <2>7, <2>18 DEF TypeOK
  <2> HIDE DEF Goal
  <2> QED BY NextCases, <2>9, <2>11, <2>12, <2>13, <2>14, <2>15, <2>16, <2>17, <2>18
<1> QED BY <1>1, <1>2, <1>4 DEF TypeOK

LEMMA BoundStep == TypeOK /\ PlansBound /\ [Next]_vars => PlansBound'
<1> SUFFICES ASSUME TypeOK, PlansBound, [Next]_vars, NEW q \in Plans
             PROVE  /\ plan'[q].state # "none" =>
                        /\ plan'[q].current \in Deployments /\ plan'[q].target \in Deployments
                        /\ plan'[q].source \in 1 .. Len(history')
                        /\ history'[plan'[q].source] = plan'[q].current
                    /\ plan'[q].activation # 0 <=> plan'[q].state \in Activated
  BY DEF PlansBound
<1>1. Len(history) \in Nat /\ Len(history') \in Nat /\ history \in Seq(Deployments)
  BY HistoryGrows DEF TypeOK
<1>2. ASSUME plan[q].state # "none", SamePlan(q)
      PROVE  /\ plan'[q].current \in Deployments /\ plan'[q].target \in Deployments
             /\ plan'[q].source \in 1 .. Len(history')
             /\ history'[plan'[q].source] = plan'[q].current
  BY <1>1, <1>2, HistoryGrows DEF PlansBound, SamePlan
<1>3. CASE plan'[q] = plan[q]
  BY <1>2, <1>3 DEF PlansBound, SamePlan
<1>4. CASE Analysed(q)
  BY <1>1, <1>4 DEF Analysed, Activated
<1>5. CASE Prepared(q)
  BY <1>2, <1>5 DEF Prepared, PlansBound
<1>6. CASE Upgraded(q)
  BY <1>1, <1>2, <1>6 DEF Upgraded, Activated
<1>7. CASE Damaged(q) \/ Repaired(q) \/ RolledBack(q) \/ Retired(q)
  <2>1. /\ SamePlan(q) /\ plan[q].state \in Activated /\ plan'[q].state \in Activated
        /\ plan'[q].activation = plan[q].activation
    BY <1>7 DEF Damaged, Repaired, RolledBack, Retired, Recovering, Activated
  <2> QED BY <1>2, <2>1 DEF PlansBound, Activated
<1>8. plan'[q] = plan[q] \/ Moves(q)
  BY StepMoves DEF OnlyPlan
<1> QED BY <1>3, <1>4, <1>5, <1>6, <1>7, <1>8 DEF Moves

(* An activation of a plan is one that the plan made itself, next to the one  *)
(* it was analysed against.                                                    *)
LEMMA ChainStep ==
    TypeOK /\ PlansBound /\ UpgradesChain /\ [Next]_vars => UpgradesChain'
<1> SUFFICES ASSUME TypeOK, PlansBound, UpgradesChain, [Next]_vars,
                    NEW q \in Plans, plan'[q].activation # 0
             PROVE  /\ plan'[q].activation = plan'[q].source + 1
                    /\ plan'[q].source # 0 /\ plan'[q].activation <= Len(history')
                    /\ history'[plan'[q].source] = plan'[q].current
                    /\ history'[plan'[q].activation] = plan'[q].target
                    /\ \A r \in Plans : plan'[r].activation = plan'[q].activation => r = q
                    /\ plan'[q].state = "rolled_back" =>
                          /\ plan'[q].activation < Len(history')
                          /\ history'[plan'[q].activation + 1] = plan'[q].current
  BY DEF UpgradesChain, CurrentRevision
<1>1. /\ Len(history) \in Nat /\ Len(history') \in Nat /\ history \in Seq(Deployments)
      /\ \A r \in Plans : plan[r].activation \in Nat /\ plan[r].source \in Nat
  <2>1. Len(history) \in Nat /\ history' \in Seq(Deployments)
    BY HistoryGrows
  <2>2. Len(history') \in Nat
    BY <2>1
  <2>3. history \in Seq(Deployments)
    BY DEF TypeOK
  <2>4. ASSUME NEW r \in Plans
        PROVE  plan[r].activation \in Nat /\ plan[r].source \in Nat
    <3>1. plan \in [Plans -> Plan]
      BY DEF TypeOK
    <3>2. plan[r] \in Plan
      BY <3>1
    <3> QED BY <3>2 DEF Plan
  <2> QED BY <2>1, <2>2, <2>3, <2>4
<1>2. \A r \in Plans : plan[r].activation # 0 =>
        /\ plan[r].activation = plan[r].source + 1 /\ plan[r].source # 0
        /\ plan[r].activation <= Len(history)
        /\ history[plan[r].source] = plan[r].current
        /\ history[plan[r].activation] = plan[r].target
        /\ \A s \in Plans : plan[s].activation = plan[r].activation => s = r
        /\ plan[r].state = "rolled_back" =>
              /\ plan[r].activation < Len(history)
              /\ history[plan[r].activation + 1] = plan[r].current
  BY DEF UpgradesChain, CurrentRevision
<1>3. \A r \in Plans : \/ plan'[r].activation = plan[r].activation
                      \/ plan'[r].activation = 0
                      \/ /\ plan'[r].activation = Len(history) + 1
                         /\ \A s \in Plans \ {r} : plan'[s] = plan[s]
  <2>1. ASSUME NEW r \in Plans, Moves(r)
        PROVE  plan'[r].activation \in {plan[r].activation, 0, Len(history) + 1}
    BY <2>1 DEF Moves, Analysed, Prepared, Upgraded, Damaged, Repaired, RolledBack,
                Recovering, Retired
  <2>2. CASE plan' = plan
    BY <2>2
  <2>4. CASE \E r \in Plans : Moves(r) /\ OnlyPlan(r)
    <3>1. PICK r \in Plans : Moves(r) /\ OnlyPlan(r)
      BY <2>4
    <3>2. \A s \in Plans \ {r} : plan'[s] = plan[s]
      BY <3>1 DEF OnlyPlan
    <3>3. plan'[r].activation \in {plan[r].activation, 0, Len(history) + 1}
      BY <2>1, <3>1
    <3> QED BY <3>2, <3>3
  <2> QED BY StepMoves, <2>2, <2>4
<1>4. \A r \in Plans : plan'[r].activation = plan'[q].activation => r = q
  BY <1>1, <1>2, <1>3
<1> DEFINE Chained ==
        /\ plan'[q].activation = plan'[q].source + 1
        /\ plan'[q].source # 0 /\ plan'[q].activation <= Len(history')
        /\ history'[plan'[q].source] = plan'[q].current
        /\ history'[plan'[q].activation] = plan'[q].target
        /\ plan'[q].state = "rolled_back" =>
              /\ plan'[q].activation < Len(history')
              /\ history'[plan'[q].activation + 1] = plan'[q].current
<1>14. SUFFICES Chained
  BY <1>4
<1>15. Len(history) <= Len(history') /\ \A n \in 1 .. Len(history) : history'[n] = history[n]
  BY HistoryGrows
<1>5. ASSUME SamePlan(q), plan'[q].activation = plan[q].activation,
             plan'[q].state = "rolled_back" => plan[q].state = "rolled_back"
      PROVE  Chained
  <2>1. /\ plan[q].source \in 1 .. Len(history) /\ plan[q].activation \in 1 .. Len(history)
        /\ plan[q].state = "rolled_back" => plan[q].activation + 1 \in 1 .. Len(history)
    BY <1>1, <1>2, <1>5
  <2>2. /\ history'[plan[q].source] = history[plan[q].source]
        /\ history'[plan[q].activation] = history[plan[q].activation]
        /\ plan[q].state = "rolled_back" =>
              history'[plan[q].activation + 1] = history[plan[q].activation + 1]
    BY <1>15, <2>1
  <2>3. /\ plan'[q].current = plan[q].current /\ plan'[q].target = plan[q].target
        /\ plan'[q].source = plan[q].source
    BY <1>5 DEF SamePlan
  <2>4. plan[q].activation # 0
    BY <1>5
  <2> QED BY <1>1, <1>2, <1>5, <1>15, <2>2, <2>3, <2>4
<1>6. CASE plan'[q] = plan[q]
  BY <1>5, <1>6 DEF SamePlan
<1>7. CASE Analysed(q)
  BY <1>7 DEF Analysed
<1>8. CASE Prepared(q)
  BY <1>5, <1>8 DEF Prepared, Activated
<1>9. CASE Upgraded(q)
  <2>1. /\ plan[q].source \in 1 .. Len(history) /\ plan[q].target \in Deployments
        /\ history[plan[q].source] = plan[q].current
    BY <1>9 DEF Upgraded, PlansBound
  <2> QED BY <1>1, <1>9, <2>1 DEF Upgraded, SamePlan
<1>10. CASE Damaged(q) \/ Repaired(q) \/ Retired(q)
  BY <1>5, <1>10 DEF Damaged, Repaired, Retired, Recovering
<1>11. CASE RolledBack(q)
  <2>1. plan[q].current \in Deployments /\ plan[q].activation # 0
    BY <1>11 DEF RolledBack, Recovering, PlansBound, Activated
  <2> QED BY <1>1, <1>2, <1>11, <2>1 DEF RolledBack, Recovering, SamePlan
<1> HIDE DEF Chained
<1>12. plan'[q] = plan[q] \/ Moves(q)
  BY StepMoves DEF OnlyPlan
<1> QED BY <1>6, <1>7, <1>8, <1>9, <1>10, <1>11, <1>12 DEF Moves

LEMMA CanaryStep ==
    TypeOK /\ PlansBound /\ CanaryIsLatest /\ CanaryJudgesVerified /\ [Next]_vars
        => CanaryIsLatest' /\ CanaryJudgesVerified'
<1> SUFFICES ASSUME TypeOK, PlansBound, CanaryIsLatest, CanaryJudgesVerified, [Next]_vars,
                    NEW q \in Plans
             PROVE  /\ plan'[q].state = "canary_passed" => plan'[q].latest = "passed"
                    /\ plan'[q].activation # 0 => plan'[q].latest = "passed"
  BY DEF CanaryIsLatest, CanaryJudgesVerified
<1>1. plan'[q] = plan[q] \/ Moves(q)
  BY StepMoves DEF OnlyPlan
<1>2. CASE plan'[q] = plan[q] \/ Analysed(q) \/ Prepared(q) \/ Upgraded(q)
  BY <1>2 DEF Analysed, Prepared, Upgraded, CanaryIsLatest, CanaryJudgesVerified,
              PlansBound, Activated
<1>3. CASE Damaged(q) \/ Repaired(q) \/ RolledBack(q) \/ Retired(q)
  <2>1. /\ plan[q].activation # 0 /\ plan'[q].latest = plan[q].latest
    BY <1>3 DEF Damaged, Repaired, RolledBack, Retired, Recovering, PlansBound, Activated
  <2> QED BY <2>1 DEF CanaryJudgesVerified
<1> QED BY <1>1, <1>2, <1>3 DEF Moves

LEMMA AppendOther ==
    ASSUME NEW b \in Seq(RecoveryAction), NEW a \in RecoveryAction,
           ResolvedOnce(b), a.type # "verified"
    PROVE  ResolvedOnce(Append(b, a))
<1>1. /\ Len(b) \in Nat /\ DOMAIN b = 1 .. Len(b) /\ DOMAIN Append(b, a) = 1 .. Len(b) + 1
      /\ Append(b, a)[Len(b) + 1] = a /\ \A m \in 1 .. Len(b) : Append(b, a)[m] = b[m]
  OBVIOUS
<1> QED BY <1>1 DEF ResolvedOnce

LEMMA AppendVerified ==
    ASSUME NEW b \in Seq(RecoveryAction), NEW a \in RecoveryAction, NEW u \in DOMAIN b,
           ResolvedOnce(b), a.type = "verified", a.resolves = u,
           b[u].change = "incompatible",
           \A m \in DOMAIN b : b[m].type = "verified" => m < u
    PROVE  ResolvedOnce(Append(b, a))
<1>1. /\ Len(b) \in Nat /\ DOMAIN b = 1 .. Len(b) /\ DOMAIN Append(b, a) = 1 .. Len(b) + 1
      /\ Append(b, a)[Len(b) + 1] = a /\ \A m \in 1 .. Len(b) : Append(b, a)[m] = b[m]
  OBVIOUS
<1> QED BY <1>1 DEF ResolvedOnce

(* An incident is recorded behind every verification, and a verification      *)
(* names the incident that is open.                                             *)
LEMMA IncidentStep ==
    TypeOK /\ PlansBound /\ OpenIncident /\ ReceiptsOnce /\ [Next]_vars
        => OpenIncident' /\ ReceiptsOnce'
<1> SUFFICES ASSUME TypeOK, PlansBound, OpenIncident, ReceiptsOnce, [Next]_vars,
                    NEW q \in Plans
             PROVE  /\ plan'[q].state = "repair_required" =>
                        /\ plan'[q].unresolved \in DOMAIN plan'[q].actions
                        /\ plan'[q].actions[plan'[q].unresolved].change = "incompatible"
                        /\ \A m \in DOMAIN plan'[q].actions :
                                plan'[q].actions[m].type = "verified" => m < plan'[q].unresolved
                    /\ ResolvedOnce(plan'[q].actions)
  BY DEF OpenIncident, ReceiptsOnce, ResolvedOnce
<1>1. /\ plan[q].actions \in Seq(RecoveryAction) /\ ResolvedOnce(plan[q].actions)
      /\ plan[q].state = "repair_required" =>
            /\ plan[q].unresolved \in DOMAIN plan[q].actions
            /\ plan[q].actions[plan[q].unresolved].change = "incompatible"
            /\ \A m \in DOMAIN plan[q].actions :
                    plan[q].actions[m].type = "verified" => m < plan[q].unresolved
  BY DEF TypeOK, Plan, OpenIncident, ReceiptsOnce
<1>2. ASSUME NEW a \in RecoveryAction
      PROVE  /\ Len(plan[q].actions) \in Nat
             /\ DOMAIN plan[q].actions = 1 .. Len(plan[q].actions)
             /\ DOMAIN Append(plan[q].actions, a) = 1 .. Len(plan[q].actions) + 1
             /\ Append(plan[q].actions, a)[Len(plan[q].actions) + 1] = a
             /\ \A m \in 1 .. Len(plan[q].actions) :
                    Append(plan[q].actions, a)[m] = plan[q].actions[m]
  BY <1>1
<1>3. CASE plan'[q] = plan[q]
  BY <1>1, <1>3
<1>4. CASE Analysed(q)
  BY <1>4 DEF Analysed, ResolvedOnce
<1>5. CASE Prepared(q) \/ Upgraded(q) \/ Retired(q)
  BY <1>1, <1>5 DEF Prepared, Upgraded, Retired, Activated
<1>6. CASE Damaged(q)
  <2>1. PICK a \in RecoveryAction :
          /\ plan'[q].actions = Append(plan[q].actions, a) /\ a.type # "verified"
          /\ \/ /\ plan'[q].state = plan[q].state
                /\ plan'[q].unresolved = plan[q].unresolved
             \/ /\ plan'[q].state = "repair_required" /\ a.change = "incompatible"
                /\ plan'[q].unresolved = Len(plan[q].actions) + 1
    BY <1>6 DEF Damaged
  <2>2. ResolvedOnce(plan'[q].actions)
    BY <1>1, <2>1, AppendOther
  <2>3. CASE plan'[q].state = plan[q].state /\ plan'[q].unresolved = plan[q].unresolved
    BY <1>1, <1>2, <2>1, <2>2, <2>3
  <2>4. CASE a.change = "incompatible" /\ plan'[q].unresolved = Len(plan[q].actions) + 1
    BY <1>1, <1>2, <2>1, <2>2, <2>4
  <2> QED BY <2>1, <2>3, <2>4
<1>7. CASE Repaired(q)
  <2>1. PICK a \in RecoveryAction :
          /\ plan'[q].actions = Append(plan[q].actions, a)
          /\ a.type = "verified" /\ a.resolves = plan[q].unresolved
    BY <1>7 DEF Repaired
  <2> QED BY <1>1, <1>7, <2>1, AppendVerified DEF Repaired
<1>8. CASE RolledBack(q)
  BY <1>1, <1>8, AppendOther DEF RolledBack
<1>9. plan'[q] = plan[q] \/ Moves(q)
  BY StepMoves DEF OnlyPlan
<1> QED BY <1>3, <1>4, <1>5, <1>6, <1>7, <1>8, <1>9 DEF Moves

(* A step activates an approved Deployment in service, or none.              *)
LEMMA ActivationStep ==
    ASSUME TypeOK, PlansBound, [Next]_vars
    PROVE  \/ history' = history /\ approvals \subseteq approvals'
           \/ /\ UNCHANGED <<work, retired>> /\ approvals \subseteq approvals'
              /\ \E d \in Deployments :
                    /\ history' = Append(history, d) /\ PackageOf[d] \notin retired
                    /\ [deployment |-> d, against |-> Len(history)] \in approvals'
<1>1. ASSUME NEW d \in Deployments, ActivateCapability(d)
      PROVE  /\ UNCHANGED <<work, retired>> /\ approvals' = approvals
             /\ history' = Append(history, d) /\ PackageOf[d] \notin retired
             /\ [deployment |-> d, against |-> Len(history)] \in approvals'
  BY <1>1 DEF ActivateCapability, Activate, InService, ApprovedNow, CurrentApproval,
              CurrentRevision
<1>2. ASSUME NEW p \in Plans, ActivateUpgrade(p)
      PROVE  /\ UNCHANGED <<work, retired>> /\ approvals \subseteq approvals'
             /\ plan[p].target \in Deployments
             /\ history' = Append(history, plan[p].target)
             /\ PackageOf[plan[p].target] \notin retired
             /\ [deployment |-> plan[p].target, against |-> Len(history)] \in approvals'
  <2> HIDE DEF Moved
  <2> QED BY <1>2 DEF ActivateUpgrade, Activate, InService, ApprovedNow, CurrentApproval,
                      CurrentRevision, PlansBound
<1>3. ASSUME NEW p \in Plans, NEW c \in Changes, RollbackDeployment(p, c)
      PROVE  /\ UNCHANGED <<work, retired>> /\ approvals \subseteq approvals'
             /\ plan[p].current \in Deployments
             /\ history' = Append(history, plan[p].current)
             /\ PackageOf[plan[p].current] \notin retired
             /\ [deployment |-> plan[p].current, against |-> Len(history)] \in approvals'
  BY <1>3 DEF RollbackDeployment, Recoverable, Activate, InService, CurrentApproval,
              CurrentRevision, PlansBound
<1>4. ASSUME NEW p \in Plans, PlanOnly(p)
      PROVE  history' = history /\ approvals' = approvals
  <2>1. ASSUME NEW r \in Reversibilities, NEW b \in Ends, NEW k \in Ends,
               CreateUpgradePlan(p, r, b, k)
        PROVE  history' = history /\ approvals' = approvals
    BY <2>1, Zenon DEF CreateUpgradePlan
  <2> QED BY <1>4, <2>1 DEF PlanOnly, Preparing, CreateCompatibilityReport,
          CreateActivationPolicy, StartMigration, CheckpointMigration, VerifyMigration,
          EvaluateCanary, RecordRepair
<1>5. ASSUME NEW w \in Works, Referencing(w) PROVE history' = history /\ approvals' = approvals
  BY <1>5 DEF Referencing, AdmitRun, CompleteRun, ProposeHandoff, SettleHandoff
<1>6. ASSUME \/ UNCHANGED vars \/ Tick \/ \E d \in Deployments : ApproveCapability(d)
             \/ \E p \in Plans : RetirePackage(p)
             \/ \E p \in Plans : \E n \in 1 .. MaxActions[p] : AttestRepair(p, n)
             \/ \E x \in receipts : VerifyRepair(x)
      PROVE  history' = history /\ approvals \subseteq approvals'
  BY <1>6 DEF vars, Tick, ApproveCapability, RetirePackage, AttestRepair, VerifyRepair
<1>7. CASE \E d \in Deployments : ActivateCapability(d)
  BY <1>1, <1>7
<1>8. CASE \E p \in Plans : ActivateUpgrade(p)
  BY <1>2, <1>8
<1>9. CASE \E p \in Plans, c \in Changes : RollbackDeployment(p, c)
  BY <1>3, <1>9
<1>10. CASE \E p \in Plans : PlanOnly(p)
  BY <1>4, <1>10
<1>11. CASE \E w \in Works : Referencing(w)
  BY <1>5, <1>11
<1> QED BY NextCases, <1>6, <1>7, <1>8, <1>9, <1>10, <1>11

LEMMA FreshStep ==
    TypeOK /\ PlansBound /\ FreshlyApproved /\ [Next]_vars => FreshlyApproved'
<1> SUFFICES ASSUME TypeOK, PlansBound, FreshlyApproved, [Next]_vars, NEW n \in DOMAIN history'
             PROVE  [deployment |-> history'[n], against |-> n - 1] \in approvals'
  BY DEF FreshlyApproved
<1>1. history \in Seq(Deployments) /\ Len(history) \in Nat /\ DOMAIN history = 1 .. Len(history)
  BY DEF TypeOK
<1>2. \A m \in DOMAIN history : [deployment |-> history[m], against |-> m - 1] \in approvals
  BY DEF FreshlyApproved
<1>3. CASE history' = history /\ approvals \subseteq approvals'
  BY <1>2, <1>3
<1>4. CASE /\ approvals \subseteq approvals'
           /\ \E d \in Deployments : /\ history' = Append(history, d)
                                    /\ [deployment |-> d, against |-> Len(history)] \in approvals'
  <2>1. PICK d \in Deployments : /\ history' = Append(history, d)
                               /\ [deployment |-> d, against |-> Len(history)] \in approvals'
    BY <1>4
  <2>2. /\ DOMAIN history' = 1 .. Len(history) + 1 /\ history'[Len(history) + 1] = d
        /\ \A m \in DOMAIN history : history'[m] = history[m]
    BY <1>1, <2>1
  <2>3. CASE n = Len(history) + 1
    BY <1>1, <2>1, <2>2, <2>3
  <2>4. CASE n \in DOMAIN history
    BY <1>2, <1>4, <2>2, <2>4
  <2> QED BY <1>1, <2>2, <2>3, <2>4
<1> QED BY ActivationStep, <1>3, <1>4

LEMMA OnlyRetirementRetires ==
    ASSUME [Next]_vars
    PROVE  retired' = retired \/ \E p \in Plans : RetirePackage(p)
<1>1. ASSUME NEW p \in Plans, PlanOnly(p) PROVE retired' = retired
  <2>1. ASSUME NEW r \in Reversibilities, NEW b \in Ends, NEW k \in Ends,
               CreateUpgradePlan(p, r, b, k)
        PROVE  retired' = retired
    BY <2>1, Zenon DEF CreateUpgradePlan
  <2> QED BY <1>1, <2>1 DEF PlanOnly, Preparing, CreateCompatibilityReport,
          CreateActivationPolicy, StartMigration, CheckpointMigration, VerifyMigration,
          EvaluateCanary, RecordRepair
<1>2. ASSUME NEW p \in Plans,
             ActivateUpgrade(p) \/ \E c \in Changes : RollbackDeployment(p, c)
      PROVE  retired' = retired
  BY <1>2 DEF ActivateUpgrade, RollbackDeployment
<1>3. ASSUME NEW w \in Works, Referencing(w) PROVE retired' = retired
  BY <1>3 DEF Referencing, AdmitRun, CompleteRun, ProposeHandoff, SettleHandoff
<1>4. ASSUME \/ UNCHANGED vars \/ Tick \/ \E x \in receipts : VerifyRepair(x)
             \/ \E d \in Deployments : ApproveCapability(d)
             \/ \E d \in Deployments : ActivateCapability(d)
             \/ \E p \in Plans : \E n \in 1 .. MaxActions[p] : AttestRepair(p, n)
      PROVE  retired' = retired
  BY <1>4 DEF vars, Tick, ApproveCapability, ActivateCapability, AttestRepair, VerifyRepair
<1>5. CASE \E p \in Plans : PlanOnly(p)
  BY <1>1, <1>5
<1>6. CASE \E p \in Plans : ActivateUpgrade(p)
  BY <1>2, <1>6
<1>7. CASE \E p \in Plans, c \in Changes : RollbackDeployment(p, c)
  BY <1>2, <1>7
<1>8. CASE \E w \in Works : Referencing(w)
  BY <1>3, <1>8
<1> QED BY NextCases, <1>4, <1>5, <1>6, <1>7, <1>8

(* Only a reference to what is in service is added, and only what nobody       *)
(* references is retired.                                                       *)
LEMMA RetiredStep ==
    TypeOK /\ PlansBound /\ UpgradesChain /\ RetiredIsUnreferenced /\ [Next]_vars
        => RetiredIsUnreferenced'
<1> SUFFICES ASSUME TypeOK, PlansBound, UpgradesChain, RetiredIsUnreferenced, [Next]_vars
             PROVE  RetiredIsUnreferenced'
  OBVIOUS
<1> USE UpgradeAssumption
<1>1. history \in Seq(Deployments)
  BY DEF TypeOK
<1>2. CASE \E d \in Deployments : /\ UNCHANGED <<work, retired>>
                                 /\ history' = Append(history, d)
                                 /\ PackageOf[d] \notin retired
  <2>1. PICK d \in Deployments : /\ UNCHANGED <<work, retired>>
                               /\ history' = Append(history, d)
                               /\ PackageOf[d] \notin retired
    BY <1>2
  <2>2. Active' = d /\ d # Nothing
    <3>1. Len(history') = Len(history) + 1 /\ Len(history) \in Nat
      BY <1>1, <2>1
    <3>2. history'[Len(history) + 1] = d
      BY <1>1, <2>1
    <3>3. history' # <<>>
      BY <3>1
    <3> QED BY <3>1, <3>2, <3>3 DEF Active
  <2> QED BY <2>1, <2>2 DEF RetiredIsUnreferenced
<1>3. ASSUME history' = history PROVE Active' = Active
  BY <1>3 DEF Active
<1>4. ASSUME NEW p \in Plans, RetirePackage(p) PROVE RetiredIsUnreferenced'
  <2>1. history' = history /\ work' = work /\ retired' = retired \union {OldPackage(p)}
    BY <1>4 DEF RetirePackage
  <2>2. history # <<>>
    BY <1>1, <1>4 DEF RetirePackage, PlansBound, UpgradesChain, CurrentRevision, Activated,
                      TypeOK, Plan
  <2>3. Active # Nothing /\ PackageOf[Active] # OldPackage(p)
    BY <1>1, <1>4, <2>2 DEF RetirePackage, Active
  <2>4. \A w \in Works : work[w].package = OldPackage(p) => work[w].state = "settled"
    BY <1>4 DEF RetirePackage, References
  <2> QED BY <1>3, <2>1, <2>3, <2>4 DEF RetiredIsUnreferenced
<1>5. ASSUME NEW w \in Works, Referencing(w) PROVE RetiredIsUnreferenced'
  <2>1. /\ history' = history /\ retired' = retired /\ work \in [Works -> Work]
        /\ \A v \in Works \ {w} : work'[v] = work[v]
    BY <1>5 DEF Referencing, AdmitRun, CompleteRun, ProposeHandoff, SettleHandoff, TypeOK
  <2>2. ASSUME NEW k \in retired, work'[w].package = k PROVE work'[w].state = "settled"
    <3>1. PackageOf[Active] # k /\ (work[w].package = k => work[w].state = "settled")
      BY DEF RetiredIsUnreferenced
    <3>2. CASE AdmitRun(w)
      BY <2>1, <2>2, <3>1, <3>2 DEF AdmitRun
    <3>3. CASE CompleteRun(w)
      BY <2>1, <2>2, <3>1, <3>3 DEF CompleteRun, Work
    <3>4. CASE SettleHandoff(w)
      BY <2>1, <2>2, <3>1, <3>4 DEF SettleHandoff, Work
    <3>5. CASE \E e \in Ends : ProposeHandoff(w, e)
      BY <2>1, <2>2, <3>1, <3>5 DEF ProposeHandoff
    <3> QED BY <1>5, <3>2, <3>3, <3>4, <3>5 DEF Referencing
  <2> QED BY <1>3, <2>1, <2>2 DEF RetiredIsUnreferenced
<1>6. ASSUME history' = history, work' = work, retired' = retired
      PROVE  RetiredIsUnreferenced'
  BY <1>3, <1>6 DEF RetiredIsUnreferenced
<1>7. ASSUME NEW p \in Plans, PlanOnly(p)
      PROVE  UNCHANGED <<history, work, retired>>
  <2>1. ASSUME NEW r \in Reversibilities, NEW b \in Ends, NEW k \in Ends,
               CreateUpgradePlan(p, r, b, k)
        PROVE  UNCHANGED <<history, work, retired>>
    BY <2>1, Zenon DEF CreateUpgradePlan
  <2> QED BY <1>7, <2>1 DEF PlanOnly, Preparing, CreateCompatibilityReport,
          CreateActivationPolicy, StartMigration, CheckpointMigration, VerifyMigration,
          EvaluateCanary, RecordRepair
<1>8. ASSUME \/ UNCHANGED vars \/ Tick \/ \E d \in Deployments : ApproveCapability(d)
             \/ \E p \in Plans : \E n \in 1 .. MaxActions[p] : AttestRepair(p, n)
             \/ \E x \in receipts : VerifyRepair(x)
      PROVE  UNCHANGED <<history, work, retired>>
  BY <1>8 DEF vars, Tick, ApproveCapability, AttestRepair, VerifyRepair
<1>9. CASE \E p \in Plans : PlanOnly(p)
  BY <1>6, <1>7, <1>9
<1>10. CASE \/ UNCHANGED vars \/ Tick \/ \E d \in Deployments : ApproveCapability(d)
            \/ \E p \in Plans : \E n \in 1 .. MaxActions[p] : AttestRepair(p, n)
            \/ \E x \in receipts : VerifyRepair(x)
  BY <1>6, <1>8, <1>10
<1>11. CASE history' # history
  BY <1>2, <1>11, ActivationStep
<1>12. ASSUME history' = history
       PROVE  /\ ~ \E d \in Deployments : ActivateCapability(d)
              /\ ~ \E p \in Plans : ActivateUpgrade(p)
              /\ ~ \E p \in Plans, c \in Changes : RollbackDeployment(p, c)
  <2>1. ASSUME NEW d PROVE Append(history, d) # history
    <3>1. Len(Append(history, d)) = Len(history) + 1 /\ Len(history) \in Nat
      BY <1>1
    <3> QED BY <3>1
  <2> QED BY <1>12, <2>1 DEF ActivateCapability, ActivateUpgrade, RollbackDeployment, Activate
<1> QED BY NextCases, <1>4, <1>5, <1>9, <1>10, <1>11, <1>12
-----------------------------------------------------------------------------
(* The strengthened invariant: types, what binds plans to the history of       *)
(* activations, and everything the theorems below read off it.                   *)
THEOREM UpgradeInvariant == Spec => []IInv
<1>1. IInv /\ [Next]_vars => IInv'
  BY TypeStep, BoundStep, ChainStep, FreshStep, RetiredStep, CanaryStep, IncidentStep DEF IInv
<1> QED BY InitIInv, <1>1, PTL DEF Spec

(* Types, for every number of Deployments, plans, Runs and hand-offs.        *)
THEOREM UpgradeTypes == Spec => []TypeOK
<1>1. IInv => TypeOK
  BY DEF IInv
<1> QED BY UpgradeInvariant, <1>1, PTL

(* Nothing that is retired is active or referenced, ever.                    *)
THEOREM RetirementHolds == Spec => []RetiredIsUnreferenced
<1>1. IInv => RetiredIsUnreferenced
  BY DEF IInv
<1> QED BY UpgradeInvariant, <1>1, PTL

(* Upgrades and rollbacks follow on exactly what they were made for.         *)
THEOREM ChainHolds == Spec => []UpgradesChain
<1>1. IInv => UpgradesChain
  BY DEF IInv
<1> QED BY UpgradeInvariant, <1>1, PTL

(* Each activation has an approval given against the one before it.          *)
THEOREM ApprovalsAreFresh == Spec => []FreshlyApproved
<1>1. IInv => FreshlyApproved
  BY DEF IInv
<1> QED BY UpgradeInvariant, <1>1, PTL

(* Upgrades are activated on the canary of what was verified last.           *)
THEOREM CanaryIsCurrent == Spec => []CanaryJudgesVerified
<1>1. IInv => CanaryJudgesVerified
  BY DEF IInv
<1> QED BY UpgradeInvariant, <1>1, PTL

(* A repair receipt settles one incident once.                               *)
THEOREM ReceiptsCountOnce == Spec => []ReceiptsNotReused
<1>1. IInv => ReceiptsNotReused
  BY DEF IInv, ReceiptsOnce, ResolvedOnce, ReceiptsNotReused
<1> QED BY UpgradeInvariant, <1>1, PTL

(* No step retires what an unrepaired upgrade would fall back to.            *)
THEOREM RepairHolds == Spec => RepairHoldsPackage
<1>1. ASSUME [Next]_vars, TypeOK, PlansBound,
             NEW p \in Plans, plan[p].state = "repair_required",
             OldPackage(p) \in retired'
      PROVE  OldPackage(p) \in retired
  <2>1. ASSUME NEW q \in Plans, RetirePackage(q) PROVE OldPackage(p) \in retired
    BY <1>1, <2>1 DEF RetirePackage, RepairOpen
  <2>2. CASE ~ \E q \in Plans : RetirePackage(q)
    <3>1. retired' = retired
      BY <1>1, <2>2, OnlyRetirementRetires
    <3> QED BY <1>1, <3>1
  <2> QED BY <2>1, <2>2
<1>2. IInv /\ [Next]_vars =>
        [\A p \in Plans : plan[p].state = "repair_required" =>
            (OldPackage(p) \in retired' => OldPackage(p) \in retired)]_vars
  BY <1>1 DEF IInv
<1> QED BY UpgradeInvariant, <1>2, PTL DEF Spec, RepairHoldsPackage
-----------------------------------------------------------------------------
(* What a step of one plan is to those who see its stage only.                *)
LEMMA StagesMove ==
    ASSUME TypeOK, NEW p \in Plans, OnlyPlan(p), SamePlan(p)
    PROVE  /\ Upgrades[p] = [stage |-> Stage(plan[p].state), from |-> plan[p].current,
                             to |-> plan[p].target, after |-> plan[p].source]
           /\ Upgrades' = [Upgrades EXCEPT ![p].stage = Stage(plan'[p].state)]
           /\ Stage(plan'[p].state) = Stage(plan[p].state) => Upgrades' = Upgrades
<1> DEFINE R(s, c, t, n) == [stage |-> Stage(s), from |-> c, to |-> t, after |-> n]
           Before(q) == R(plan[q].state, plan[q].current, plan[q].target, plan[q].source)
           After(q) == R(plan'[q].state, plan'[q].current, plan'[q].target, plan'[q].source)
<1>1. Upgrades = [q \in Plans |-> Before(q)] /\ Upgrades' = [q \in Plans |-> After(q)]
  BY DEF Upgrades
<1>2. \A q \in Plans \ {p} : After(q) = Before(q)
  BY DEF OnlyPlan
<1>3. After(p) = [Before(p) EXCEPT !.stage = Stage(plan'[p].state)]
  BY DEF SamePlan
<1>4. Stage(plan'[p].state) = Stage(plan[p].state) => After(p) = Before(p)
  BY DEF SamePlan
<1>5. Upgrades[p] = Before(p)
  BY <1>1
<1> HIDE DEF Before, After
<1>6. Upgrades' = [Upgrades EXCEPT ![p].stage = Stage(plan'[p].state)]
  BY <1>1, <1>2, <1>3
<1>7. Stage(plan'[p].state) = Stage(plan[p].state) => Upgrades' = Upgrades
  BY <1>1, <1>2, <1>4
<1> QED BY <1>5, <1>6, <1>7 DEF Before

LEMMA Stages ==
    /\ Stage("none") = "none" /\ Stage("repair_required") = "broken"
    /\ Stage("active") = "upgraded" /\ Stage("repair_verified") = "upgraded"
    /\ Stage("rolled_back") = "reverted" /\ Stage("retired") = "ended"
    /\ \A s \in PlanStates : s \notin Activated \union {"none"} => Stage(s) = "analysed"
  BY DEF Stage, Activated, PlanStates

Promised == [Promise!PromiseNext]_(Promise!promiseVars)

LEMMA StepUnseen ==
    ASSUME UNCHANGED <<history, approvals, retired>>, Upgrades' = Upgrades, Uses' = Uses
    PROVE  Promised
  BY DEF Promised, Promise!promiseVars

LEMMA UsesStay == UNCHANGED work => Uses' = Uses
  BY DEF Uses

LEMMA UpgradesStay == UNCHANGED plan => Upgrades' = Upgrades
  BY DEF Upgrades

LEMMA StepThatAgrees ==
    ASSUME NEW d \in Deployments, ApproveCapability(d) \/ ActivateCapability(d)
    PROVE  Promised
<1>1. Uses' = Uses /\ Upgrades' = Upgrades
  BY UsesStay, UpgradesStay DEF ApproveCapability, ActivateCapability
<1>2. Promise!To(d) = CurrentApproval(d)
  BY DEF Promise!To, Promise!Count, CurrentApproval, CurrentRevision
<1>3. CASE ApproveCapability(d)
  <2>1. Promise!Consent(d)
    BY <1>1, <1>2, <1>3 DEF ApproveCapability, Promise!Consent
  <2> QED BY <2>1 DEF Promised, Promise!PromiseNext
<1>4. CASE ActivateCapability(d)
  <2>1. Promise!Activate(d)
    BY <1>1, <1>2, <1>4 DEF ActivateCapability, ApprovedNow, InService, Activate,
       Promise!Activate, Promise!Switch
  <2> QED BY <2>1 DEF Promised, Promise!PromiseNext
<1> QED BY <1>3, <1>4

LEMMA StepThatUpgrades ==
    ASSUME TypeOK, NEW p \in Plans, ActivateUpgrade(p) PROVE Promised
<1> DEFINE t == plan[p].target
<1>1. Upgraded(p) /\ OnlyPlan(p)
  BY UpgradeMoves
<1>2. /\ plan[p].state = "canary_passed" /\ plan'[p].state = "active" /\ SamePlan(p)
      /\ plan[p].source = Len(history) /\ history' = Append(history, t)
  BY <1>1 DEF Upgraded
<1>3. Stage(plan[p].state) = "analysed" /\ Stage(plan'[p].state) = "upgraded"
  BY <1>2, Stages DEF Activated, PlanStates
<1>4. /\ Upgrades[p].stage = "analysed" /\ Upgrades[p].to = t
      /\ Upgrades[p].after = Len(history)
      /\ Upgrades' = [Upgrades EXCEPT ![p].stage = "upgraded"]
  <2>1. Upgrades[p] = [stage |-> "analysed", from |-> plan[p].current, to |-> t,
                       after |-> plan[p].source]
    BY <1>1, <1>2, <1>3, StagesMove
  <2>2. Upgrades' = [Upgrades EXCEPT ![p].stage = "upgraded"]
    BY <1>1, <1>2, <1>3, StagesMove
  <2> QED BY <1>2, <2>1, <2>2
<1>5. /\ PackageOf[t] \notin retired /\ retired' = retired /\ work' = work
      /\ \/ approvals' = approvals /\ CurrentApproval(t) \in approvals
         \/ approvals' = approvals \union {CurrentApproval(t)}
  <2> HIDE DEF Moved
  <2> QED BY DEF ActivateUpgrade, InService, ApprovedNow
<1>6. Promise!To(t) = CurrentApproval(t)
  BY DEF Promise!To, Promise!Count, CurrentApproval, CurrentRevision
<1>7. Promise!Switch(t)
  BY <1>2, <1>5, <1>6, UsesStay DEF Promise!Switch
<1>8. Promise!Upgrade(p)
  BY <1>4, <1>7 DEF Promise!Upgrade, Promise!Reach, Promise!Count
<1> QED BY <1>8 DEF Promised, Promise!PromiseNext

LEMMA StepThatGoesBack ==
    ASSUME TypeOK, PlansBound, UpgradesChain, NEW p \in Plans, NEW c \in Changes,
           RollbackDeployment(p, c)
    PROVE  Promised
<1> DEFINE s == plan[p].current
<1>1. RolledBack(p) /\ OnlyPlan(p)
  BY RollbackMoves
<1>2. /\ plan[p].state \in {"active", "repair_verified"} /\ plan'[p].state = "rolled_back"
      /\ SamePlan(p) /\ plan[p].activation = Len(history)
      /\ history' = Append(history, s)
  BY <1>1 DEF RolledBack, Recovering, RollbackDeployment, Recoverable
<1>3. plan[p].source + 1 = Len(history)
  BY <1>2 DEF PlansBound, Activated, UpgradesChain
<1>4. Stage(plan[p].state) = "upgraded" /\ Stage(plan'[p].state) = "reverted"
  BY <1>2, Stages
<1>5. /\ Upgrades[p].stage = "upgraded" /\ Upgrades[p].from = s
      /\ Upgrades[p].after = plan[p].source
      /\ Upgrades' = [Upgrades EXCEPT ![p].stage = "reverted"]
  <2>1. Upgrades[p] = [stage |-> "upgraded", from |-> s, to |-> plan[p].target,
                       after |-> plan[p].source]
    BY <1>1, <1>2, <1>4, StagesMove
  <2>2. Upgrades' = [Upgrades EXCEPT ![p].stage = "reverted"]
    BY <1>1, <1>2, <1>4, StagesMove
  <2> QED BY <2>1, <2>2
<1>6. /\ PackageOf[s] \notin retired /\ retired' = retired /\ work' = work
      /\ approvals' = approvals \union {CurrentApproval(s)}
  BY DEF RollbackDeployment, InService
<1>7. Promise!To(s) = CurrentApproval(s)
  BY DEF Promise!To, Promise!Count, CurrentApproval, CurrentRevision
<1>8. Promise!Switch(s)
  BY <1>2, <1>6, <1>7, UsesStay DEF Promise!Switch
<1>9. Promise!GoBack(p)
  BY <1>3, <1>5, <1>8 DEF Promise!GoBack, Promise!Reach, Promise!Count
<1> QED BY <1>9 DEF Promised, Promise!PromiseNext

LEMMA StepThatAnalyses ==
    ASSUME TypeOK, NEW p \in Plans, NEW c \in Deployments, NEW t \in Deployments,
           CreateCompatibilityReport(p, c, t)
    PROVE  Promised
<1>1. Analysed(p) /\ OnlyPlan(p)
  BY AnalysisMoves
<1>2. history \in Seq(Deployments) /\ history # <<>> /\ c = history[Len(history)] /\ c # t
      /\ plan[p].state = "none" /\ UNCHANGED <<history, approvals, retired, work>>
  BY UpgradeAssumption DEF CreateCompatibilityReport, Active, TypeOK
<1>3. plan'[p].state = "reported" /\ plan'[p].current = c /\ plan'[p].target = t
      /\ plan'[p].source = Len(history)
  <2>1. plan'[p] = [NoPlan EXCEPT !.state = "reported", !.current = c, !.target = t,
                                  !.source = CurrentRevision]
    BY DEF CreateCompatibilityReport, TypeOK
  <2> QED BY <2>1 DEF NoPlan, CurrentRevision
<1> DEFINE r == [stage |-> "analysed", from |-> c, to |-> t, after |-> Len(history)]
<1>4. Stage(plan'[p].state) = "analysed" /\ Stage(plan[p].state) = "none"
  BY <1>2, <1>3, Stages DEF Activated, PlanStates
<1>5. Upgrades[p].stage = "none"
  BY <1>4 DEF Upgrades
<1>6. Upgrades' = [Upgrades EXCEPT ![p] = r]
  <2>1. Upgrades' = [q \in Plans |->
            [stage |-> Stage(plan'[q].state), from |-> plan'[q].current,
             to |-> plan'[q].target, after |-> plan'[q].source]]
    BY DEF Upgrades
  <2>2. \A q \in Plans \ {p} : plan'[q] = plan[q]
    BY <1>1 DEF OnlyPlan
  <2> HIDE DEF Stage
  <2> QED BY <1>3, <1>4, <2>1, <2>2 DEF Upgrades
<1>7. Promise!Analyse(p, t)
  BY <1>2, <1>5, <1>6, UsesStay DEF Promise!Analyse, Promise!Count
<1> QED BY <1>7 DEF Promised, Promise!PromiseNext

LEMMA StepThatPrepares ==
    ASSUME TypeOK, NEW p \in Plans, Preparing(p) PROVE Promised
<1>1. Prepared(p) /\ OnlyPlan(p)
  BY PreparationMoves
<1>2. plan[p].state \in PlanStates /\ plan'[p].state \in PlanStates
  BY <1>1 DEF TypeOK, Plan, OnlyPlan
<1>3. Stage(plan'[p].state) = Stage(plan[p].state)
  BY <1>1, <1>2, Stages DEF Prepared
<1>4. Upgrades' = Upgrades
  BY <1>1, <1>3, StagesMove DEF Prepared
<1>5. UNCHANGED <<history, approvals, retired, work>>
  <2>1. ASSUME NEW r \in Reversibilities, NEW b \in Ends, NEW k \in Ends,
               CreateUpgradePlan(p, r, b, k)
        PROVE  UNCHANGED <<history, approvals, retired, work>>
    BY <2>1, Zenon DEF CreateUpgradePlan
  <2> QED BY <2>1 DEF Preparing, CreateActivationPolicy, StartMigration,
          CheckpointMigration, VerifyMigration, EvaluateCanary
<1> QED BY <1>4, <1>5, UsesStay, StepUnseen

LEMMA StepThatRecovers ==
    ASSUME TypeOK, NEW p \in Plans, NEW t \in Repairs, NEW c \in Changes,
           RecordRepair(p, t, c)
    PROVE  Promised
<1>1. Damaged(p) /\ SamePlan(p) /\ OnlyPlan(p)
  BY DamageMoves DEF Damaged, Recovering
<1>2. /\ UNCHANGED <<history, approvals, retired, work>>
      /\ plan[p].state \in {"active", "repair_required", "repair_verified"}
  BY DEF RecordRepair, Recoverable
<1>3. Uses' = Uses
  BY <1>2, UsesStay
<1>4. plan'[p].state \in {plan[p].state, "repair_required"}
  BY <1>1 DEF Damaged
<1>5. CASE Stage(plan'[p].state) = Stage(plan[p].state)
  <2>1. Upgrades' = Upgrades
    BY <1>1, <1>5, StagesMove
  <2> QED BY <1>2, <1>3, <2>1, StepUnseen
<1>6. CASE Stage(plan'[p].state) # Stage(plan[p].state)
  <2>1. Stage(plan[p].state) = "upgraded" /\ Stage(plan'[p].state) = "broken"
    BY <1>2, <1>4, <1>6, Stages
  <2>2. Upgrades[p] = [stage |-> "upgraded", from |-> plan[p].current,
                       to |-> plan[p].target, after |-> plan[p].source]
    BY <1>1, <2>1, StagesMove
  <2>3. Upgrades' = [Upgrades EXCEPT ![p].stage = "broken"]
    BY <1>1, <2>1, StagesMove
  <2>4. Promise!Break(p)
    BY <1>2, <1>3, <2>2, <2>3 DEF Promise!Break, Promise!Reach
  <2> QED BY <2>4 DEF Promised, Promise!PromiseNext
<1> QED BY <1>5, <1>6

LEMMA StepThatMends ==
    ASSUME TypeOK, NEW x \in receipts, VerifyRepair(x) PROVE Promised
<1> DEFINE p == x.plan
<1>1. p \in Plans /\ Repaired(p) /\ SamePlan(p) /\ OnlyPlan(p)
  BY RepairMoves DEF Repaired, Recovering
<1>2. UNCHANGED <<history, approvals, retired, work>>
  BY DEF VerifyRepair
<1>3. Uses' = Uses
  BY <1>2, UsesStay
<1>4. Stage(plan[p].state) = "broken" /\ Stage(plan'[p].state) = "upgraded"
  BY <1>1, Stages DEF Repaired
<1> HIDE DEF p
<1>5. Upgrades[p] = [stage |-> "broken", from |-> plan[p].current,
                     to |-> plan[p].target, after |-> plan[p].source]
  BY <1>1, <1>4, StagesMove
<1>6. Upgrades' = [Upgrades EXCEPT ![p].stage = "upgraded"]
  BY <1>1, <1>4, StagesMove
<1>7. Promise!Mend(p)
  BY <1>2, <1>3, <1>5, <1>6 DEF Promise!Mend, Promise!Reach
<1> QED BY <1>1, <1>7 DEF Promised, Promise!PromiseNext

LEMMA BrokenIsOpen ==
    ASSUME TypeOK, NEW q \in Plans, Upgrades[q].stage = "broken"
    PROVE  plan[q].state = "repair_required"
<1>1. plan[q].state \in PlanStates
  BY DEF TypeOK, Plan
<1>2. Upgrades[q].stage = Stage(plan[q].state)
  BY DEF Upgrades
<1>3. CASE plan[q].state \in Activated \union {"none"}
  BY <1>2, <1>3, Stages DEF Activated
<1>4. CASE plan[q].state \notin Activated \union {"none"}
  BY <1>1, <1>2, <1>4, Stages
<1> QED BY <1>3, <1>4

LEMMA StepThatRetires ==
    ASSUME TypeOK, PlansBound, UpgradesChain, NEW p \in Plans, RetirePackage(p)
    PROVE  Promised
<1> DEFINE k == OldPackage(p)
<1>1. Retired(p) /\ SamePlan(p) /\ OnlyPlan(p)
  BY RetireMoves DEF Retired
<1>2. /\ plan[p].state \in {"active", "rolled_back", "repair_verified"}
      /\ PackageOf[Active] # k /\ k \notin retired /\ ~References(k) /\ ~RepairOpen(p)
      /\ retired' = retired \union {k} /\ UNCHANGED <<history, approvals, work>>
  BY DEF RetirePackage
<1>3. plan[p].current \in Deployments /\ history # <<>> /\ k \in Packages
  <2>1. plan[p].current \in Deployments /\ plan[p].source \in 1 .. Len(history)
    BY <1>2 DEF PlansBound
  <2>2. history # <<>>
    BY <2>1 DEF TypeOK
  <2> QED BY <2>1, <2>2, UpgradeAssumption DEF OldPackage
<1>4. Stage(plan[p].state) \in {"upgraded", "reverted"} /\ Stage(plan'[p].state) = "ended"
  BY <1>1, <1>2, Stages DEF Retired
<1>5. /\ Upgrades[p].stage \in {"upgraded", "reverted"}
      /\ PackageOf[Upgrades[p].from] = k
      /\ Upgrades' = [Upgrades EXCEPT ![p].stage = "ended"]
  <2>1. Upgrades[p] = [stage |-> Stage(plan[p].state), from |-> plan[p].current,
                       to |-> plan[p].target, after |-> plan[p].source]
    BY <1>1, StagesMove
  <2>2. Upgrades' = [Upgrades EXCEPT ![p].stage = "ended"]
    BY <1>1, <1>4, StagesMove
  <2>3. Upgrades[p].stage = Stage(plan[p].state) /\ Upgrades[p].from = plan[p].current
    BY <2>1
  <2> QED BY <1>4, <2>2, <2>3 DEF OldPackage
<1>6. PackageOf[history[Len(history)]] # k
  BY <1>2, <1>3 DEF Active
<1>7. \A w \in Works : Uses[w] # k
  BY <1>2, <1>3, UpgradeAssumption DEF References, Uses
<1>8. ASSUME NEW q \in Plans, Upgrades[q].stage = "broken"
      PROVE  PackageOf[Upgrades[q].from] # k
  <2>1. plan[q].state = "repair_required"
    BY <1>8, BrokenIsOpen
  <2>2. Upgrades[q].from = plan[q].current
    BY DEF Upgrades
  <2> QED BY <1>2, <2>1, <2>2 DEF RepairOpen, OldPackage
<1> HIDE DEF k
<1>9. Promise!Retire(p)
  BY <1>2, <1>5, <1>6, <1>7, <1>8, UsesStay DEF Promise!Retire, Promise!Reach, Promise!Count
<1> QED BY <1>9 DEF Promised, Promise!PromiseNext

LEMMA StepThatUses ==
    ASSUME TypeOK, RetiredIsUnreferenced, NEW w \in Works, Referencing(w)
    PROVE  Promised
<1>1. /\ work \in [Works -> Work] /\ UNCHANGED <<history, approvals, plan, retired>>
      /\ \A v \in Works \ {w} : work'[v] = work[v]
      /\ DOMAIN work' = Works
  BY DEF Referencing, AdmitRun, CompleteRun, ProposeHandoff, SettleHandoff, TypeOK
<1>2. Upgrades' = Upgrades
  BY <1>1, UpgradesStay
<1>3. ASSUME NEW k, Uses[w] = Nothing, Active # Nothing, k = PackageOf[Active],
             work'[w].package = k, work'[w].state \in {"admitted", "pending"}
      PROVE  Promised
  <2>1. history # <<>> /\ k = PackageOf[history[Len(history)]] /\ Len(history) # 0
    BY <1>3 DEF Active, TypeOK
  <2>2. k \notin retired
    BY <1>3 DEF RetiredIsUnreferenced
  <2>3. Uses' = [Uses EXCEPT ![w] = k]
    BY <1>1, <1>3 DEF Uses
  <2>4. Promise!Use(w)
    BY <1>1, <1>2, <1>3, <2>1, <2>2, <2>3 DEF Promise!Use, Promise!Count
  <2> QED BY <2>4 DEF Promised, Promise!PromiseNext
<1>4. CASE AdmitRun(w)
  <2>1. work[w].state = "none" /\ Active # Nothing
        /\ work'[w] = [state |-> "admitted", package |-> PackageOf[Active], ends |-> 0]
    BY <1>1, <1>4 DEF AdmitRun
  <2>2. Uses[w] = Nothing
    BY <2>1 DEF Uses
  <2> QED BY <1>3, <2>1, <2>2
<1>5. CASE \E e \in Ends : ProposeHandoff(w, e)
  <2>1. PICK e \in Ends : ProposeHandoff(w, e)
    BY <1>5
  <2>2. work[w].state = "none" /\ Active # Nothing
        /\ work'[w] = [state |-> "pending", package |-> PackageOf[Active], ends |-> e]
    BY <1>1, <2>1 DEF ProposeHandoff
  <2>3. Uses[w] = Nothing
    BY <2>2 DEF Uses
  <2> QED BY <1>3, <2>2, <2>3
<1>6. CASE CompleteRun(w)
  <2>1. work[w].state = "admitted" /\ work'[w].state = "completed"
        /\ work'[w].package = work[w].package
    BY <1>1, <1>6 DEF CompleteRun, Work
  <2>2. Uses' = Uses
    BY <1>1, <2>1 DEF Uses
  <2> QED BY <1>1, <1>2, <2>2, StepUnseen
<1>7. CASE SettleHandoff(w)
  <2>1. work'[w].state = "settled"
    BY <1>1, <1>7 DEF SettleHandoff, Work
  <2>2. Uses' = [Uses EXCEPT ![w] = Nothing]
    BY <1>1, <2>1 DEF Uses
  <2>3. Promise!Release(w)
    BY <1>1, <1>2, <2>2 DEF Promise!Release
  <2> QED BY <2>3 DEF Promised, Promise!PromiseNext
<1> QED BY <1>4, <1>5, <1>6, <1>7 DEF Referencing

LEMMA StepPromised == IInv /\ [Next]_vars => Promised
<1> SUFFICES ASSUME IInv, [Next]_vars PROVE Promised
  OBVIOUS
<1> USE DEF IInv
<1>1. ASSUME NEW p \in Plans, PlanOnly(p) PROVE Promised
  BY <1>1, StepThatPrepares, StepThatAnalyses, StepThatRecovers DEF PlanOnly
<1>2. ASSUME \/ UNCHANGED vars \/ Tick
             \/ \E p \in Plans : \E n \in 1 .. MaxActions[p] : AttestRepair(p, n)
      PROVE  Promised
  <2>1. UNCHANGED <<history, approvals, plan, work, retired>>
    BY <1>2 DEF vars, Tick, AttestRepair
  <2> QED BY <2>1, UsesStay, UpgradesStay, StepUnseen
<1>3. ASSUME \/ \E d \in Deployments : ApproveCapability(d)
             \/ \E d \in Deployments : ActivateCapability(d)
      PROVE  Promised
  BY <1>3, StepThatAgrees
<1>4. ASSUME \/ \E p \in Plans : ActivateUpgrade(p)
             \/ \E p \in Plans, c \in Changes : RollbackDeployment(p, c)
             \/ \E p \in Plans : RetirePackage(p)
             \/ \E x \in receipts : VerifyRepair(x)
             \/ \E w \in Works : Referencing(w)
      PROVE  Promised
  BY <1>4, StepThatUpgrades, StepThatGoesBack, StepThatRetires, StepThatMends, StepThatUses
<1> QED BY <1>1, <1>2, <1>3, <1>4, NextCases

LEMMA StartPromised == Init => Promise!PromiseInit
<1> SUFFICES ASSUME Init PROVE Promise!PromiseInit
  OBVIOUS
<1>1. Upgrades = [p \in Plans |-> Promise!Nowhere]
  BY Stages DEF Init, Upgrades, NoPlan, Promise!Nowhere
<1>2. Uses = [w \in Works |-> Nothing]
  BY DEF Init, Uses, NoWork
<1> QED BY <1>1, <1>2 DEF Init, Promise!PromiseInit

(* Whatever policies, canaries, repairs, retirements, Runs and direct            *)
(* activations race with it, a change of the capability is agreed to for the       *)
(* activation it replaces, loses no other, and takes out of service only what       *)
(* nothing needs.                                                                     *)
THEOREM UpgradeKeepsPromise == Spec => ImplementsPromise
<1>1. IInv /\ [Next]_vars => [Promise!PromiseNext]_(Promise!promiseVars)
  BY StepPromised DEF Promised
<1>2. Spec => Promise!PromiseSpec
  BY <1>1, StartPromised, UpgradeInvariant, PTL DEF Spec, Promise!PromiseSpec
<1> QED BY <1>2 DEF ImplementsPromise
=============================================================================
