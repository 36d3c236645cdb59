---------------------------- MODULE IntakeProofs ----------------------------
(***************************************************************************)
(* Intake of observations, for any number of requests, grants, observations,   *)
(* snapshots and projections.                                                     *)
(***************************************************************************)
EXTENDS ObservationIntake, TLAPS

Desires == {"inactive", "activation_pending", "active", "revocation_pending", "revoked"}
Effects == {"inactive", "active_effective", "revoked_effective"}
Projection == [cutoff : Nat, outcomes : SUBSET Outcome]

(* The type invariant by the parts of the system that move together.            *)
GrantTypes ==
    /\ readiness \in [Grants -> {"none", "ready", "failed"}]
    /\ desired \in [Grants -> Desires]
    /\ effective \in [Grants -> Effects]
    /\ published \in [Grants -> Seq({"active", "revoked"})]
    /\ expired \in [Grants -> SUBSET Nat]
    /\ applied \in [Grants -> Nat]
    /\ applying \in [grant : Grants, number : Nat \ {0}] \union {NotApplying}

RequestTypes ==
    /\ phase \in [Requests -> Phase]
    /\ report \in [Requests -> Observation \union {NoReport}]
    /\ seen \in [Requests -> Nat]
    /\ covered \in [Requests -> SUBSET Nat]
    /\ position \in [Requests -> Nat]
    /\ answer \in [Requests -> Kinds \union {"none", "replayed", "unavailable"}]

PrefixTypes ==
    /\ coverage \in [Grants -> SUBSET Nat]
    /\ next \in Nat \ {0}
    /\ outcomes \subseteq Outcome

ProjectionTypes ==
    /\ cutoff \in Nat
    /\ projections \in Seq(Projection)

LEMMA TypesByPart ==
    TypeOK <=> GrantTypes /\ RequestTypes /\ PrefixTypes /\ ProjectionTypes
<1> DEFINE P == [cutoff : Nat, outcomes : SUBSET Outcome]
<1> HIDE DEF P
<1> QED BY DEF TypeOK, GrantTypes, RequestTypes, PrefixTypes, ProjectionTypes, Desires,
               Effects, Projection, P

LEMMA ObservationFacts ==
    ASSUME NEW o \in Observation \union {NoReport}
    PROVE  o.number \in Nat /\ (o \in Observation => o.grant \in Grants /\ o.number # 0)
  BY IntakeAssumption DEF NoReport
-----------------------------------------------------------------------------
(* Every step is one of the grants, of one request or of the projection.        *)
SameGrants == UNCHANGED <<grantVars, expired, planeVars>>
SameRequests == UNCHANGED requestVars
SameOutcomes == UNCHANGED prefixVars
SameProjections == UNCHANGED projectionVars

(* What a step does to the request it is about, and that it leaves the others.   *)
OnlyRequest(r) ==
    \A q \in Requests \ {r} :
        /\ phase'[q] = phase[q] /\ report'[q] = report[q] /\ seen'[q] = seen[q]
        /\ covered'[q] = covered[q] /\ position'[q] = position[q] /\ answer'[q] = answer[q]
-----------------------------------------------------------------------------
(* Types.  First the steps of grants.                                          *)
GrantAction(g) ==
    \/ \E status \in {"ready", "failed"} : RecordReadiness(g, status)
    \/ \E target \in {"active", "revoked"} : PublishSnapshot(g, target)
    \/ \E n \in 1 .. MaxSnapshots :
          ExpireSnapshot(g, n) \/ AcceptApplicationReceipt(g, n) \/ BeginApply(g, n)
    \/ FinishApply(g) \/ AbortApply

LEMMA PublishedTypes ==
    ASSUME GrantTypes, NEW g \in Grants, NEW n \in DOMAIN published[g]
    PROVE  /\ published[g] \in Seq({"active", "revoked"})
           /\ published[g][n] \in {"active", "revoked"}
           /\ n \in 1 .. Len(published[g]) /\ n \in Nat \ {0}
<1>1. published[g] \in Seq({"active", "revoked"})
  BY DEF GrantTypes
<1> QED BY <1>1

LEMMA GrantActionFrame ==
    ASSUME NEW g \in Grants, GrantAction(g)
    PROVE  SameRequests /\ SameOutcomes /\ SameProjections
  BY DEF GrantAction, RecordReadiness, PublishSnapshot, ExpireSnapshot, AcceptApplicationReceipt,
         BeginApply, FinishApply, AbortApply, SameRequests, SameOutcomes, SameProjections

LEMMA GrantActionTypes ==
    ASSUME GrantTypes, NEW g \in Grants, GrantAction(g)
    PROVE  GrantTypes'
<1>1. ASSUME NEW status \in {"ready", "failed"}, RecordReadiness(g, status)
      PROVE  GrantTypes'
  BY <1>1 DEF RecordReadiness, GrantTypes, planeVars
<1>2. ASSUME NEW target \in {"active", "revoked"}, PublishSnapshot(g, target)
      PROVE  GrantTypes'
  <2>1. published' \in [Grants -> Seq({"active", "revoked"})]
    <3>1. Append(published[g], target) \in Seq({"active", "revoked"})
      BY DEF GrantTypes
    <3> QED BY <1>2, <3>1 DEF PublishSnapshot, GrantTypes
  <2>2. desired' \in [Grants -> Desires]
    BY <1>2 DEF PublishSnapshot, GrantTypes, PendingFor, Desires
  <2> QED BY <1>2, <2>1, <2>2 DEF PublishSnapshot, GrantTypes, planeVars
<1>3. ASSUME NEW n \in 1 .. MaxSnapshots, ExpireSnapshot(g, n)
      PROVE  GrantTypes'
  <2>1. n \in Nat
    BY <1>3, PublishedTypes DEF ExpireSnapshot
  <2> QED BY <1>3, <2>1 DEF ExpireSnapshot, GrantTypes, planeVars, grantVars
<1>4. ASSUME NEW n \in 1 .. MaxSnapshots, AcceptApplicationReceipt(g, n)
      PROVE  GrantTypes'
  <2>1. published[g][n] \in {"active", "revoked"}
    <3>1. n = Len(published[g]) /\ n # 0
      BY <1>4 DEF AcceptApplicationReceipt, IsPending
    <3>2. n \in DOMAIN published[g]
      BY <3>1 DEF GrantTypes
    <3> QED BY <3>2, PublishedTypes
  <2> QED BY <1>4, <2>1 DEF AcceptApplicationReceipt, GrantTypes, planeVars, EffectiveFor,
                            Desires, Effects
<1>5. ASSUME NEW n \in 1 .. MaxSnapshots, BeginApply(g, n)
      PROVE  GrantTypes'
  <2>1. n \in Nat \ {0}
    BY <1>5, PublishedTypes DEF BeginApply
  <2> QED BY <1>5, <2>1 DEF BeginApply, GrantTypes, grantVars
<1>6. ASSUME FinishApply(g)
      PROVE  GrantTypes'
  <2>1. applying.number \in Nat
    BY DEF GrantTypes, NotApplying
  <2> QED BY <1>6, <2>1 DEF FinishApply, GrantTypes, grantVars
<1>7. ASSUME AbortApply
      PROVE  GrantTypes'
  BY <1>7 DEF AbortApply, GrantTypes, grantVars
<1> QED BY <1>1, <1>2, <1>3, <1>4, <1>5, <1>6, <1>7 DEF GrantAction
-----------------------------------------------------------------------------
(* A request that is being judged or is in its transaction has a report.        *)
Reporting(r) == phase[r] \in {"received", "authorized"} \union Locked
Reported == \A r \in Requests : Reporting(r) => report[r] \in Observation

(* The steps of requests: those that enter a phase, and those that end.         *)
EnterAction(r) ==
    Authorize(r) \/ LockIdentity(r) \/ LockStream(r) \/ CheckGrant(r) \/ ReceiveInvalid(r)

EndAction(r) ==
    \/ Replay(r) \/ PreserveConflict(r) \/ Accept(r) \/ PreserveRejection(r)
    \/ LoseRejection(r) \/ FailRequest(r)

LEMMA RequestStepKinds ==
    ASSUME NEW r \in Requests, RequestStep(r)
    PROVE  \/ \E o \in Observation : Receive(r, o)
           \/ EnterAction(r) \/ ReadCoverage(r) \/ AllocatePosition(r) \/ EndAction(r)
  BY DEF RequestStep, Handle, EnterAction, EndAction

LEMMA RequestFrame ==
    ASSUME NEW r \in Requests, RequestStep(r)
    PROVE  SameGrants /\ SameProjections
<1>1. ASSUME NEW o \in Observation, Receive(r, o) PROVE SameGrants /\ SameProjections
  BY <1>1 DEF Receive, SameGrants, SameProjections
<1>2. ASSUME EnterAction(r) PROVE SameGrants /\ SameProjections
  BY <1>2 DEF EnterAction, Authorize, LockIdentity, LockStream, CheckGrant, ReceiveInvalid,
              Enter, SameGrants, SameProjections
<1>3. ASSUME ReadCoverage(r) \/ AllocatePosition(r) PROVE SameGrants /\ SameProjections
  BY <1>3 DEF ReadCoverage, AllocatePosition, SameGrants, SameProjections
<1>4. ASSUME EndAction(r) PROVE SameGrants /\ SameProjections
  BY <1>4 DEF EndAction, Replay, PreserveConflict, Accept, PreserveRejection, LoseRejection,
              FailRequest, End, SameGrants, SameProjections
<1> QED BY <1>1, <1>2, <1>3, <1>4, RequestStepKinds

(* Of the requests, only the one that takes the step changes.                   *)
LEMMA OnlyOneMoves ==
    ASSUME RequestTypes, NEW r \in Requests, RequestStep(r)
    PROVE  OnlyRequest(r)
<1>1. ASSUME NEW o \in Observation, Receive(r, o) PROVE OnlyRequest(r)
  BY <1>1 DEF Receive, OnlyRequest, RequestTypes
<1>2. ASSUME EnterAction(r) PROVE OnlyRequest(r)
  BY <1>2 DEF EnterAction, Authorize, LockIdentity, LockStream, CheckGrant, ReceiveInvalid,
              Enter, OnlyRequest, RequestTypes
<1>3. ASSUME ReadCoverage(r) \/ AllocatePosition(r) PROVE OnlyRequest(r)
  BY <1>3 DEF ReadCoverage, AllocatePosition, OnlyRequest, RequestTypes
<1>4. ASSUME NEW a, End(r, a) PROVE OnlyRequest(r)
  BY <1>4 DEF End, OnlyRequest, RequestTypes
<1>5. ASSUME EndAction(r) PROVE OnlyRequest(r)
  BY <1>4, <1>5 DEF EndAction, Replay, PreserveConflict, Accept, PreserveRejection,
                    LoseRejection, FailRequest
<1> QED BY <1>1, <1>2, <1>3, <1>5, RequestStepKinds

LEMMA EnterKinds ==
    ASSUME NEW r \in Requests, EnterAction(r)
    PROVE  \E p \in Phase \ {"new", "fresh", "allocated", "answered"} : Enter(r, p)
<1>1. CASE Authorize(r)
  BY <1>1 DEF Authorize, Phase, Locked
<1>2. CASE LockIdentity(r) \/ LockStream(r)
  BY <1>2 DEF LockIdentity, LockStream, Phase, Locked
<1>3. CASE CheckGrant(r)
  BY <1>3 DEF CheckGrant, Phase, Locked
<1>4. CASE ReceiveInvalid(r)
  BY <1>4 DEF ReceiveInvalid, Enter, Phase, requestVars
<1> QED BY <1>1, <1>2, <1>3, <1>4 DEF EnterAction

LEMMA OutcomeTypes ==
    ASSUME RequestTypes, PrefixTypes, NEW r \in Requests, NEW kind \in Kinds,
           NEW n \in Nat, NEW under \in Nat, Preserve(r, kind, n, under)
    PROVE  outcomes' \subseteq Outcome /\ next' \in Nat \ {0}
<1>1. [position |-> n, kind |-> kind, report |-> report[r], under |-> under] \in Outcome
  BY DEF RequestTypes, Outcome
<1> QED BY <1>1 DEF Preserve, PrefixTypes

LEMMA EndTypes ==
    ASSUME RequestTypes, NEW r \in Requests,
           NEW a \in Kinds \union {"none", "replayed", "unavailable"}, End(r, a)
    PROVE  RequestTypes'
  BY DEF End, RequestTypes, Phase

LEMMA RequestStepTypes ==
    ASSUME TypeOK, Reported, NEW r \in Requests, RequestStep(r)
    PROVE  RequestTypes' /\ PrefixTypes'
<1>1. RequestTypes /\ PrefixTypes /\ GrantTypes
  BY TypesByPart
<1>2. ASSUME NEW o \in Observation, Receive(r, o) PROVE RequestTypes' /\ PrefixTypes'
  <2>1. applied[o.grant] \in Nat
    BY <1>1, IntakeAssumption DEF GrantTypes
  <2>2. RequestTypes'
    BY <1>1, <1>2, <2>1 DEF Receive, RequestTypes, Phase
  <2> QED BY <1>1, <1>2, <2>2 DEF Receive, PrefixTypes, prefixVars
<1>3. ASSUME EnterAction(r) PROVE RequestTypes' /\ PrefixTypes'
  <2>1. PICK p \in Phase : Enter(r, p)
    BY <1>3, EnterKinds
  <2> QED BY <1>1, <2>1 DEF Enter, RequestTypes, PrefixTypes, prefixVars
<1>4. ASSUME ReadCoverage(r) PROVE RequestTypes' /\ PrefixTypes'
  <2>1. report[r].grant \in Grants
    BY <1>4, ObservationFacts DEF ReadCoverage, Reported, Reporting, Locked
  <2>2. coverage[report[r].grant] \in SUBSET Nat
    BY <1>1, <2>1 DEF PrefixTypes
  <2> QED BY <1>1, <1>4, <2>2 DEF ReadCoverage, RequestTypes, PrefixTypes, prefixVars, Phase,
                                  Locked
<1>5. ASSUME AllocatePosition(r) PROVE RequestTypes' /\ PrefixTypes'
  BY <1>1, <1>5 DEF AllocatePosition, RequestTypes, PrefixTypes, prefixVars, Phase, Locked
<1>6. ASSUME Replay(r) \/ LoseRejection(r) \/ FailRequest(r) PROVE RequestTypes' /\ PrefixTypes'
  <2>1. PrefixTypes'
    BY <1>1, <1>6 DEF Replay, LoseRejection, FailRequest, PrefixTypes, prefixVars
  <2>2. RequestTypes'
    BY <1>1, <1>6, EndTypes DEF Replay, LoseRejection, FailRequest, Kinds
  <2> QED BY <2>1, <2>2
<1>7. ASSUME PreserveConflict(r) \/ PreserveRejection(r) PROVE RequestTypes' /\ PrefixTypes'
  <2>1. RequestTypes'
    BY <1>1, <1>7, EndTypes DEF PreserveConflict, PreserveRejection, Kinds
  <2>2. outcomes' \subseteq Outcome /\ next' \in Nat \ {0}
    BY <1>1, <1>7, OutcomeTypes DEF PreserveConflict, PreserveRejection, Kinds, PrefixTypes
  <2> QED BY <1>1, <1>7, <2>1, <2>2 DEF PreserveConflict, PreserveRejection, PrefixTypes
<1>8. ASSUME Accept(r) PROVE RequestTypes' /\ PrefixTypes'
  <2>1. RequestTypes'
    BY <1>1, <1>8, EndTypes DEF Accept, Kinds
  <2>2. position[r] \in Nat /\ seen[r] \in Nat /\ covered[r] \in SUBSET Nat
    BY <1>1 DEF RequestTypes
  <2>3. outcomes' \subseteq Outcome /\ next' \in Nat \ {0}
    BY <1>1, <1>8, <2>2, OutcomeTypes DEF Accept, Kinds
  <2>4. report[r].number \in Nat
    BY <1>1, ObservationFacts DEF RequestTypes
  <2>5. coverage' \in [Grants -> SUBSET Nat]
    BY <1>1, <1>8, <2>2, <2>4 DEF Accept, PrefixTypes
  <2> QED BY <2>1, <2>3, <2>5 DEF PrefixTypes
<1> QED BY <1>2, <1>3, <1>4, <1>5, <1>6, <1>7, <1>8, RequestStepKinds DEF EndAction

-----------------------------------------------------------------------------
(* The steps of the projection, and all steps together.                         *)
ProjectionAction == CaptureCutoff \/ CreateProjection \/ EndProjection

LEMMA ProjectionFrame ==
    ProjectionAction => SameGrants /\ SameRequests /\ SameOutcomes
  BY DEF ProjectionAction, CaptureCutoff, CreateProjection, EndProjection, SameGrants,
         SameRequests, SameOutcomes

LEMMA ProjectionActionTypes ==
    ASSUME PrefixTypes, ProjectionTypes, ProjectionAction
    PROVE  ProjectionTypes'
<1>1. ASSUME CaptureCutoff PROVE ProjectionTypes'
  <2>1. cutoff' \in Nat
    BY <1>1 DEF CaptureCutoff, PrefixTypes
  <2> QED BY <1>1, <2>1 DEF CaptureCutoff, ProjectionTypes
<1>2. ASSUME EndProjection PROVE ProjectionTypes'
  BY <1>2 DEF EndProjection, ProjectionTypes
<1>3. ASSUME CreateProjection PROVE ProjectionTypes'
  <2> DEFINE p == [cutoff |-> cutoff, outcomes |-> UpTo(cutoff)]
  <2>1. p \in Projection
    BY DEF Projection, UpTo, PrefixTypes, ProjectionTypes
  <2>2. projections' = Append(projections, p) /\ cutoff' = 0
    BY <1>3 DEF CreateProjection
  <2> QED BY <2>1, <2>2 DEF ProjectionTypes
<1> QED BY <1>1, <1>2, <1>3 DEF ProjectionAction

LEMMA StepKinds ==
    ASSUME TypeOK, Next
    PROVE  \/ \E g \in Grants : GrantAction(g)
           \/ \E r \in Requests : RequestStep(r)
           \/ ProjectionAction
<1>1. ASSUME AbortApply PROVE \E g \in Grants : GrantAction(g)
  <2>1. applying.grant \in Grants
    BY <1>1 DEF AbortApply, NodeFree, TypeOK
  <2> QED BY <1>1, <2>1 DEF GrantAction
<1> QED BY <1>1 DEF Next, GrantStep, GrantAction, ProjectionAction

LEMMA TypeStep == TypeOK /\ Reported /\ [Next]_vars => TypeOK'
<1> SUFFICES ASSUME TypeOK, Reported, [Next]_vars PROVE TypeOK'
  OBVIOUS
<1>1. GrantTypes /\ RequestTypes /\ PrefixTypes /\ ProjectionTypes
  BY TypesByPart
<1>2. SameGrants => GrantTypes'
  BY <1>1 DEF SameGrants, grantVars, planeVars, GrantTypes
<1>3. SameRequests => RequestTypes'
  BY <1>1 DEF SameRequests, requestVars, RequestTypes
<1>4. SameOutcomes => PrefixTypes'
  BY <1>1 DEF SameOutcomes, prefixVars, PrefixTypes
<1>5. SameProjections => ProjectionTypes'
  BY <1>1 DEF SameProjections, projectionVars, ProjectionTypes
<1>6. ASSUME NEW g \in Grants, GrantAction(g)
      PROVE  GrantTypes' /\ RequestTypes' /\ PrefixTypes' /\ ProjectionTypes'
  BY <1>1, <1>3, <1>4, <1>5, <1>6, GrantActionFrame, GrantActionTypes
<1>7. ASSUME NEW r \in Requests, RequestStep(r)
      PROVE  GrantTypes' /\ RequestTypes' /\ PrefixTypes' /\ ProjectionTypes'
  BY <1>2, <1>5, <1>7, RequestFrame, RequestStepTypes
<1>8. ASSUME ProjectionAction
      PROVE  GrantTypes' /\ RequestTypes' /\ PrefixTypes' /\ ProjectionTypes'
  BY <1>1, <1>2, <1>3, <1>4, <1>8, ProjectionFrame, ProjectionActionTypes
<1>9. ASSUME UNCHANGED vars
      PROVE  GrantTypes' /\ RequestTypes' /\ PrefixTypes' /\ ProjectionTypes'
  BY <1>2, <1>3, <1>4, <1>5, <1>9 DEF vars, SameGrants, SameRequests, SameOutcomes,
     SameProjections
<1>10. GrantTypes' /\ RequestTypes' /\ PrefixTypes' /\ ProjectionTypes'
  BY <1>6, <1>7, <1>8, <1>9, StepKinds
<1> QED BY <1>10, TypesByPart, PTL

LEMMA InitTypes == Init => TypeOK
<1> SUFFICES ASSUME Init PROVE TypeOK
  OBVIOUS
<1>1. GrantTypes
  BY DEF Init, GrantTypes, Desires, Effects
<1>2. RequestTypes
  BY DEF Init, RequestTypes, Phase
<1>3. PrefixTypes
  BY DEF Init, PrefixTypes
<1>4. ProjectionTypes
  BY DEF Init, ProjectionTypes
<1> QED BY <1>1, <1>2, <1>3, <1>4, TypesByPart
-----------------------------------------------------------------------------
(* Grants.  What the Kernel has published is at most one snapshot ahead of what *)
(* the Diagnostic Plane has applied, and its pending state says which.          *)
GrantInv(g) ==
    /\ applied[g] <= Len(published[g])
    /\ desired[g] \notin Pending =>
          /\ applied[g] = Len(published[g])
          /\ EffectiveFor(StateOf(g, applied[g])) = effective[g] \/ applied[g] = 0
    /\ desired[g] \in Pending =>
          /\ Len(published[g]) # 0 /\ Len(published[g]) <= applied[g] + 1
          /\ desired[g] = PendingFor(published[g][Len(published[g])])
    /\ desired[g] = "revocation_pending" => effective[g] = "active_effective"
    /\ effective[g] = "active_effective" =>
          StateOf(g, applied[g]) = "active" \/ desired[g] = "revocation_pending"

ApplyingInv ==
    applying # NotApplying => applying.number \in DOMAIN published[applying.grant]

(* What every step leaves of the snapshots: they are only added.                *)
Grows(g) ==
    /\ Len(published[g]) <= Len(published'[g])
    /\ \A n \in 1 .. Len(published[g]) : published'[g][n] = published[g][n]

LEMMA PublishGrows ==
    ASSUME GrantTypes, NEW g \in Grants, NEW target \in {"active", "revoked"},
           PublishSnapshot(g, target)
    PROVE  /\ Len(published'[g]) = Len(published[g]) + 1
           /\ published'[g][Len(published'[g])] = target
           /\ \A h \in Grants : Grows(h)
<1>1. published' = [published EXCEPT ![g] = Append(published[g], target)]
  BY DEF PublishSnapshot
<1>2. published \in [Grants -> Seq({"active", "revoked"})]
  BY DEF GrantTypes
<1>3. published'[g] = Append(published[g], target) /\ published[g] \in Seq({"active", "revoked"})
  BY <1>1, <1>2
<1>4. /\ Len(published'[g]) = Len(published[g]) + 1
      /\ published'[g][Len(published'[g])] = target
      /\ Grows(g)
  BY <1>3 DEF Grows
<1>5. ASSUME NEW h \in Grants, h # g PROVE Grows(h)
  BY <1>1, <1>2, <1>5 DEF Grows
<1> QED BY <1>4, <1>5

LEMMA SnapshotsGrow ==
    ASSUME GrantTypes, NEW g \in Grants, GrantAction(g), NEW h \in Grants
    PROVE  Grows(h)
<1>1. published[h] \in Seq({"active", "revoked"})
  BY DEF GrantTypes
<1>2. ASSUME published' = published PROVE Grows(h)
  BY <1>1, <1>2 DEF Grows
<1>3. ASSUME NEW target \in {"active", "revoked"}, PublishSnapshot(g, target) PROVE Grows(h)
  BY <1>3, PublishGrows
<1> QED BY <1>2, <1>3 DEF GrantAction, RecordReadiness, ExpireSnapshot,
           AcceptApplicationReceipt, BeginApply, FinishApply, AbortApply, grantVars

LEMMA OtherGrants ==
    ASSUME GrantTypes, NEW g \in Grants, GrantAction(g), NEW h \in Grants \ {g}, GrantInv(h)
    PROVE  GrantInv(h)'
<1>1. /\ published'[h] = published[h] /\ desired'[h] = desired[h]
      /\ effective'[h] = effective[h] /\ applied'[h] = applied[h]
  BY DEF GrantAction, RecordReadiness, PublishSnapshot, ExpireSnapshot, grantVars, planeVars,
         AcceptApplicationReceipt, BeginApply, FinishApply, AbortApply, GrantTypes
<1> QED BY <1>1 DEF GrantInv, StateOf

LEMMA GrantStepInv ==
    ASSUME GrantTypes, NEW g \in Grants, GrantAction(g), GrantInv(g), ApplyingInv
    PROVE  GrantInv(g)'
<1> DEFINE P == published[g]
<1>1. P \in Seq({"active", "revoked"}) /\ Len(P) \in Nat /\ applied[g] \in Nat
  BY DEF GrantTypes
<1>2. ASSUME /\ published'[g] = published[g] /\ desired'[g] = desired[g]
             /\ effective'[g] = effective[g] /\ applied'[g] = applied[g]
      PROVE  GrantInv(g)'
  BY <1>2 DEF GrantInv, StateOf
<1>3. ASSUME NEW target \in {"active", "revoked"}, PublishSnapshot(g, target)
      PROVE  GrantInv(g)'
  <2>1. /\ desired[g] \notin Pending
        /\ target = "active" => effective[g] # "active_effective"
        /\ target = "revoked" => effective[g] = "active_effective"
    BY <1>3 DEF PublishSnapshot, MayPublish
  <2>2. /\ desired'[g] = PendingFor(target) /\ effective'[g] = effective[g]
        /\ applied'[g] = applied[g]
    BY <1>3 DEF PublishSnapshot, planeVars, GrantTypes
  <2>3. applied[g] = Len(P)
    BY <2>1 DEF GrantInv
  <2>4. /\ Len(published'[g]) = Len(P) + 1 /\ published'[g][Len(published'[g])] = target
        /\ \A n \in 1 .. Len(P) : published'[g][n] = P[n]
    BY <1>3, PublishGrows DEF Grows
  <2>5. /\ PendingFor(target) \in Pending
        /\ target = "active" <=> PendingFor(target) # "revocation_pending"
    BY DEF PendingFor, Pending
  <2>6. applied'[g] <= Len(published'[g]) /\ Len(published'[g]) <= applied'[g] + 1
        /\ Len(published'[g]) # 0
    BY <1>1, <2>2, <2>3, <2>4
  <2> QED BY <2>1, <2>2, <2>4, <2>5, <2>6 DEF GrantInv
<1>4. ASSUME NEW n \in 1 .. MaxSnapshots, AcceptApplicationReceipt(g, n)
      PROVE  GrantInv(g)'
  <2>1. /\ n = Len(P) /\ n \in 1 .. applied[g]
        /\ published' = published /\ applied' = applied
        /\ desired'[g] = P[n] /\ effective'[g] = EffectiveFor(P[n])
    BY <1>4 DEF AcceptApplicationReceipt, IsPending, planeVars, GrantTypes
  <2>2. applied[g] = Len(P) /\ n # 0
    BY <1>1, <2>1 DEF GrantInv
  <2>3. P[n] \in {"active", "revoked"}
    BY <1>1, <2>1, <2>2
  <2> QED BY <2>1, <2>2, <2>3 DEF GrantInv, StateOf, Pending, EffectiveFor
<1>5. ASSUME FinishApply(g) PROVE GrantInv(g)'
  <2>1. /\ applying.grant = g /\ applied'[g] = applying.number
        /\ applying.number = applied[g] + 1
        /\ StateOf(g, applying.number) # StateOf(g, applied[g])
        /\ published' = published /\ desired' = desired /\ effective' = effective
    BY <1>5 DEF FinishApply, ValidTransition, grantVars, GrantTypes
  <2>2. applying # NotApplying
    BY <1>1, <2>1 DEF NotApplying
  <2>3. applying.number \in 1 .. Len(P)
    BY <1>1, <2>1, <2>2 DEF ApplyingInv
  <2>4. desired[g] \in Pending
    BY <1>1, <2>1, <2>3 DEF GrantInv
  <2>5. applying.number = Len(P) /\ Len(P) # 0 /\ Len(P) <= applying.number + 1
    BY <1>1, <2>1, <2>3, <2>4 DEF GrantInv
  <2>6. P[Len(P)] \in {"active", "revoked"} /\ desired[g] = PendingFor(P[Len(P)])
    BY <1>1, <2>4, <2>5 DEF GrantInv
  <2>7. ASSUME effective[g] = "active_effective", desired[g] # "revocation_pending" PROVE FALSE
    <3>1. StateOf(g, applied[g]) = "active"
      BY <2>7 DEF GrantInv
    <3>2. StateOf(g, applying.number) = P[Len(P)]
      BY <2>5 DEF StateOf
    <3>3. P[Len(P)] = "revoked"
      BY <2>1, <2>6, <3>1, <3>2
    <3> QED BY <2>6, <2>7, <3>3 DEF PendingFor
  <2>8. applying.number <= Len(P)
    BY <1>1, <2>5
  <2> QED BY <2>1, <2>4, <2>5, <2>6, <2>7, <2>8 DEF GrantInv
<1>6. ASSUME \/ \E status \in {"ready", "failed"} : RecordReadiness(g, status)
             \/ \E n \in 1 .. MaxSnapshots : ExpireSnapshot(g, n) \/ BeginApply(g, n)
             \/ AbortApply
      PROVE  GrantInv(g)'
  BY <1>2, <1>6 DEF RecordReadiness, ExpireSnapshot, BeginApply, AbortApply, grantVars, planeVars
<1> QED BY <1>3, <1>4, <1>5, <1>6 DEF GrantAction

LEMMA ApplyingStep ==
    ASSUME GrantTypes, NEW g \in Grants, GrantAction(g), ApplyingInv
    PROVE  ApplyingInv'
<1>1. \A h \in Grants : DOMAIN published[h] \subseteq DOMAIN published'[h]
  <2> TAKE h \in Grants
  <2>1. Grows(h) /\ published[h] \in Seq({"active", "revoked"})
        /\ published'[h] \in Seq({"active", "revoked"})
    BY SnapshotsGrow, GrantActionTypes DEF GrantTypes
  <2> QED BY <2>1 DEF Grows
<1>2. applying # NotApplying => applying.grant \in Grants
  BY DEF GrantTypes
<1>3. ASSUME applying' = applying PROVE ApplyingInv'
  BY <1>1, <1>2, <1>3 DEF ApplyingInv
<1>4. ASSUME NEW n \in 1 .. MaxSnapshots, BeginApply(g, n) PROVE ApplyingInv'
  BY <1>4 DEF BeginApply, ApplyingInv, grantVars
<1>5. ASSUME FinishApply(g) \/ AbortApply PROVE ApplyingInv'
  BY <1>5 DEF FinishApply, AbortApply, ApplyingInv
<1> QED BY <1>3, <1>4, <1>5 DEF GrantAction, RecordReadiness, PublishSnapshot, ExpireSnapshot,
           AcceptApplicationReceipt, planeVars

GrantsInv == (\A g \in Grants : GrantInv(g)) /\ ApplyingInv

LEMMA GrantsStep ==
    ASSUME TypeOK, GrantsInv, Next
    PROVE  GrantsInv'
<1>1. GrantTypes
  BY TypesByPart
<1>2. ASSUME NEW g \in Grants, GrantAction(g) PROVE GrantsInv'
  <2>1. \A h \in Grants : GrantInv(h)'
    BY <1>1, <1>2, OtherGrants, GrantStepInv DEF GrantsInv
  <2> QED BY <1>1, <1>2, <2>1, ApplyingStep DEF GrantsInv
<1>3. ASSUME SameGrants PROVE GrantsInv'
  BY <1>3 DEF SameGrants, grantVars, planeVars, GrantsInv, GrantInv, ApplyingInv, StateOf
<1> QED BY <1>2, <1>3, StepKinds, RequestFrame, ProjectionFrame
-----------------------------------------------------------------------------
(* Requests and grants.  What a request has found in effect has been published, *)
(* is active once the request is authorized, and stays in effect from when it    *)
(* shares the row of the grant.                                                   *)
Cleared == {"authorized"} \union Locked

RequestInv(r) ==
    /\ Reporting(r) =>
          report[r] \in Observation /\ seen[r] \in 1 .. Len(published[report[r].grant])
    /\ phase[r] \in Cleared => StateOf(report[r].grant, seen[r]) = "active"
    /\ phase[r] \in Sharing => applied[report[r].grant] = seen[r]

LEMMA ReportedFollows ==
    ASSUME \A r \in Requests : RequestInv(r)
    PROVE  Reported
  BY DEF RequestInv, Reported

LEMMA PhaseSets ==
    /\ \A p \in Sharing : p \in Locked
    /\ \A p \in Cleared : p \in {"received", "authorized"} \union Locked
  BY DEF Sharing, Cleared, Locked

LEMMA RequestUnderGrants ==
    ASSUME GrantTypes, RequestTypes, NEW g \in Grants, GrantAction(g),
           NEW r \in Requests, RequestInv(r)
    PROVE  RequestInv(r)'
<1>1. phase' = phase /\ report' = report /\ seen' = seen
  BY GrantActionFrame DEF SameRequests, requestVars
<1>2. CASE ~ Reporting(r)
  BY <1>1, <1>2, PhaseSets DEF RequestInv, Reporting
<1>3. CASE Reporting(r)
  <2> DEFINE h == report[r].grant
  <2>1. report[r] \in Observation /\ h \in Grants /\ seen[r] \in 1 .. Len(published[h])
    BY <1>3, IntakeAssumption DEF RequestInv
  <2>2. Grows(h) /\ published[h] \in Seq({"active", "revoked"})
        /\ published'[h] \in Seq({"active", "revoked"})
    BY <2>1, SnapshotsGrow, GrantActionTypes DEF GrantTypes
  <2>3. seen[r] \in 1 .. Len(published'[h]) /\ published'[h][seen[r]] = published[h][seen[r]]
    BY <2>1, <2>2 DEF Grows
  <2>4. ASSUME phase[r] \in Sharing PROVE applied'[h] = applied[h]
    <3>1. ASSUME FinishApply(g) PROVE applied'[h] = applied[h]
      BY <2>1, <2>4, <3>1 DEF FinishApply, RowFree, GrantTypes
    <3> QED BY <3>1 DEF GrantAction, RecordReadiness, PublishSnapshot, ExpireSnapshot,
               AcceptApplicationReceipt, BeginApply, AbortApply, planeVars
  <2> QED BY <1>1, <2>1, <2>3, <2>4 DEF RequestInv, StateOf, Reporting
<1> QED BY <1>2, <1>3

(* The step of the request itself, without a word on the prefix.                *)
LEMMA RequestOwnStep ==
    ASSUME TypeOK, GrantsInv, NEW r \in Requests, RequestStep(r), RequestInv(r)
    PROVE  RequestInv(r)'
<1>1. GrantTypes /\ RequestTypes
  BY TypesByPart
<1>2. published' = published /\ applied' = applied
  BY RequestFrame DEF SameGrants, grantVars, planeVars
<1>3. ASSUME NEW o \in Observation, Receive(r, o) PROVE RequestInv(r)'
  <2>1. /\ report'[r] = o /\ seen'[r] = applied[o.grant] /\ o.grant \in Grants
        /\ phase'[r] = IF applied[o.grant] = 0 THEN "refused" ELSE "received"
    BY <1>1, <1>3, IntakeAssumption DEF Receive, RequestTypes
  <2>2. /\ applied[o.grant] \in Nat /\ applied[o.grant] <= Len(published[o.grant])
        /\ published[o.grant] \in Seq({"active", "revoked"})
    BY <1>1, <2>1 DEF GrantTypes, GrantsInv, GrantInv
  <2>3. applied[o.grant] # 0 => applied[o.grant] \in 1 .. Len(published[o.grant])
    BY <2>2
  <2> QED BY <1>2, <2>1, <2>3 DEF RequestInv, Reporting, Cleared, Sharing, Locked
<1>4. ASSUME NEW p, Enter(r, p) PROVE phase'[r] = p /\ report' = report /\ seen' = seen
  BY <1>1, <1>4 DEF Enter, RequestTypes
<1>5. ASSUME EnterAction(r) PROVE RequestInv(r)'
  <2>1. ASSUME Authorize(r) PROVE RequestInv(r)'
    <3>1. Reporting(r)
      BY <2>1 DEF Authorize, Reporting
    <3>2. /\ phase'[r] = (IF Authorized(r) THEN "authorized" ELSE "refused")
          /\ report' = report /\ seen' = seen
      BY <1>4, <2>1 DEF Authorize
    <3> QED BY <1>2, <3>1, <3>2 DEF RequestInv, Reporting, Cleared, Sharing, Locked, Authorized,
               StateOf
  <2>2. ASSUME LockIdentity(r) \/ LockStream(r) PROVE RequestInv(r)'
    <3>1. Reporting(r) /\ phase[r] \in Cleared
      BY <2>2 DEF LockIdentity, LockStream, Reporting, Cleared, Locked
    <3>2. phase'[r] \in {"identity", "stream"} /\ report' = report /\ seen' = seen
      BY <1>4, <2>2 DEF LockIdentity, LockStream
    <3> QED BY <1>2, <3>1, <3>2 DEF RequestInv, Reporting, Cleared, Sharing, Locked, StateOf
  <2>3. ASSUME CheckGrant(r) PROVE RequestInv(r)'
    <3>1. Reporting(r) /\ phase[r] \in Cleared
      BY <2>3 DEF CheckGrant, Reporting, Cleared, Locked
    <3>2. /\ phase'[r] = (IF applied[report[r].grant] = seen[r] THEN "shared" ELSE "refused")
          /\ report' = report /\ seen' = seen
      BY <1>4, <2>3 DEF CheckGrant
    <3> QED BY <1>2, <3>1, <3>2 DEF RequestInv, Reporting, Cleared, Sharing, Locked, StateOf
  <2>4. ASSUME ReceiveInvalid(r) PROVE RequestInv(r)'
    <3>1. phase'[r] = "refused"
      BY <1>1, <2>4 DEF ReceiveInvalid, RequestTypes
    <3> QED BY <3>1 DEF RequestInv, Reporting, Cleared, Sharing, Locked
  <2> QED BY <1>5, <2>1, <2>2, <2>3, <2>4 DEF EnterAction
<1>6. ASSUME ReadCoverage(r) \/ AllocatePosition(r) PROVE RequestInv(r)'
  <2>1. phase[r] \in Sharing /\ Reporting(r) /\ phase[r] \in Cleared
    BY <1>6 DEF ReadCoverage, AllocatePosition, Sharing, Reporting, Locked, Cleared
  <2>2. phase'[r] \in {"fresh", "allocated"} /\ report' = report /\ seen' = seen
    BY <1>1, <1>6 DEF ReadCoverage, AllocatePosition, RequestTypes
  <2> QED BY <1>2, <2>1, <2>2 DEF RequestInv, Reporting, Cleared, Sharing, Locked, StateOf
<1>7. ASSUME NEW a, End(r, a) PROVE RequestInv(r)'
  <2>1. phase'[r] = "answered"
    BY <1>1, <1>7 DEF End, RequestTypes
  <2> QED BY <2>1 DEF RequestInv, Reporting, Cleared, Sharing, Locked
<1>8. ASSUME EndAction(r) PROVE RequestInv(r)'
  BY <1>7, <1>8 DEF EndAction, Replay, PreserveConflict, Accept, PreserveRejection,
                    LoseRejection, FailRequest
<1> QED BY <1>3, <1>5, <1>6, <1>8, RequestStepKinds

RequestsInv == \A r \in Requests : RequestInv(r)

LEMMA RequestsStep ==
    ASSUME TypeOK, GrantsInv, RequestsInv, Next
    PROVE  RequestsInv'
<1>1. GrantTypes /\ RequestTypes
  BY TypesByPart
<1>2. ASSUME NEW g \in Grants, GrantAction(g) PROVE RequestsInv'
  BY <1>1, <1>2, RequestUnderGrants DEF RequestsInv
<1>3. ASSUME NEW q \in Requests, RequestStep(q) PROVE RequestsInv'
  <2>1. published' = published /\ applied' = applied
    BY <1>3, RequestFrame DEF SameGrants, grantVars, planeVars
  <2>2. OnlyRequest(q)
    BY <1>1, <1>3, OnlyOneMoves
  <2>3. ASSUME NEW r \in Requests \ {q} PROVE RequestInv(r)'
    BY <2>1, <2>2, <2>3 DEF OnlyRequest, RequestsInv, RequestInv, Reporting, StateOf
  <2>4. RequestInv(q)'
    BY <1>3, RequestOwnStep DEF RequestsInv
  <2> QED BY <2>3, <2>4 DEF RequestsInv
<1>4. ASSUME ProjectionAction PROVE RequestsInv'
  BY <1>4, ProjectionFrame DEF SameGrants, SameRequests, grantVars, planeVars, requestVars,
     RequestsInv, RequestInv, Reporting, StateOf
<1> QED BY <1>2, <1>3, <1>4, StepKinds
-----------------------------------------------------------------------------
(* Locks.  Two transactions never hold the lock of one identity, nor of one     *)
(* stream, nor the counter of positions.                                         *)
LocksApart(r, q) ==
    /\ phase[r] \in Locked /\ phase[q] \in Locked => report[r].id # report[q].id
    /\ phase[r] \in Locked \ {"identity"} /\ phase[q] \in Locked \ {"identity"} =>
          report[r].grant # report[q].grant
    /\ ~ (phase[r] = "allocated" /\ phase[q] = "allocated")

LocksInv == \A r, q \in Requests : r # q => LocksApart(r, q)

LEMMA LockStep ==
    ASSUME RequestTypes, NEW r \in Requests, NEW q \in Requests \ {r}, RequestStep(r),
           LocksApart(r, q)
    PROVE  LocksApart(r, q)' /\ LocksApart(q, r)'
<1>1. phase'[q] = phase[q] /\ report'[q] = report[q]
  BY OnlyOneMoves DEF OnlyRequest
<1>2. ASSUME NEW p, Enter(r, p) PROVE phase'[r] = p /\ report' = report
  BY <1>2 DEF Enter, RequestTypes
<1>3. ASSUME NEW o \in Observation, Receive(r, o) PROVE phase'[r] \notin Locked
  BY <1>3 DEF Receive, RequestTypes, Locked
<1>4. ASSUME Authorize(r) \/ ReceiveInvalid(r) PROVE phase'[r] \notin Locked
  BY <1>2, <1>4 DEF Authorize, ReceiveInvalid, RequestTypes, Locked
<1>5. ASSUME LockIdentity(r) PROVE LocksApart(r, q)' /\ LocksApart(q, r)'
  <2>1. phase'[r] = "identity" /\ report' = report
    BY <1>2, <1>5 DEF LockIdentity
  <2>2. phase[q] \in Locked => report[q].id # report[r].id
    BY <1>5 DEF LockIdentity
  <2> QED BY <1>1, <2>1, <2>2 DEF LocksApart
<1>6. ASSUME LockStream(r) PROVE LocksApart(r, q)' /\ LocksApart(q, r)'
  <2>1. phase'[r] = "stream" /\ report' = report /\ phase[r] \in Locked
    BY <1>2, <1>6 DEF LockStream, Locked
  <2>2. phase[q] \in Locked \ {"identity"} => report[q].grant # report[r].grant
    BY <1>6 DEF LockStream, StreamFree
  <2> QED BY <1>1, <2>1, <2>2 DEF LocksApart
<1>7. ASSUME CheckGrant(r) PROVE LocksApart(r, q)' /\ LocksApart(q, r)'
  <2>1. phase'[r] \in {"shared", "refused"} /\ report' = report /\ phase[r] = "stream"
    BY <1>2, <1>7 DEF CheckGrant
  <2> QED BY <1>1, <2>1 DEF LocksApart, Locked
<1>8. ASSUME ReadCoverage(r) PROVE LocksApart(r, q)' /\ LocksApart(q, r)'
  <2>1. phase'[r] = "fresh" /\ report' = report /\ phase[r] = "shared"
    BY <1>8 DEF ReadCoverage, RequestTypes
  <2> QED BY <1>1, <2>1 DEF LocksApart, Locked
<1>9. ASSUME AllocatePosition(r) PROVE LocksApart(r, q)' /\ LocksApart(q, r)'
  <2>1. phase'[r] = "allocated" /\ report' = report /\ phase[r] = "fresh" /\ phase[q] # "allocated"
    BY <1>9 DEF AllocatePosition, RequestTypes, MayAllocate, PrefixFree
  <2> QED BY <1>1, <2>1 DEF LocksApart, Locked
<1>10. ASSUME NEW a, End(r, a) PROVE phase'[r] \notin Locked
  BY <1>10 DEF End, RequestTypes, Locked
<1>11. ASSUME EndAction(r) PROVE phase'[r] \notin Locked
  BY <1>10, <1>11 DEF EndAction, Replay, PreserveConflict, Accept, PreserveRejection,
                      LoseRejection, FailRequest
<1>12. ASSUME phase'[r] \notin Locked PROVE LocksApart(r, q)' /\ LocksApart(q, r)'
  BY <1>12 DEF LocksApart, Locked
<1> QED BY <1>3, <1>4, <1>5, <1>6, <1>7, <1>8, <1>9, <1>11, <1>12, RequestStepKinds
        DEF EnterAction

LEMMA LocksStep ==
    ASSUME TypeOK, LocksInv, Next
    PROVE  LocksInv'
<1>1. RequestTypes
  BY TypesByPart
<1>2. ASSUME NEW r \in Requests, RequestStep(r) PROVE LocksInv'
  <2>1. \A q \in Requests \ {r} : LocksApart(r, q)' /\ LocksApart(q, r)'
    BY <1>1, <1>2, LockStep DEF LocksInv
  <2>2. \A p, q \in Requests \ {r} : p # q => LocksApart(p, q)'
    BY <1>1, <1>2, OnlyOneMoves DEF OnlyRequest, LocksInv, LocksApart
  <2> QED BY <2>1, <2>2 DEF LocksInv
<1>3. ASSUME SameRequests PROVE LocksInv'
  BY <1>3 DEF SameRequests, requestVars, LocksInv, LocksApart
<1> QED BY <1>2, <1>3, StepKinds, GrantActionFrame, ProjectionFrame
-----------------------------------------------------------------------------
(* Requests and the prefix.  A cleared request is within reach of what has been *)
(* accepted; one that found nothing to answer with still finds nothing, since     *)
(* whoever could add it holds the same locks; the position allocated is the next.  *)
InReach(r) ==
    \/ report[r].number <= MaxAdvance
    \/ \E p \in Accepted : /\ p.report.grant = report[r].grant
                           /\ report[r].number <= p.report.number + MaxAdvance

AnswerOnRecord(r) ==
    /\ answer[r] \in {"accepted", "replayed"} => \E o \in Accepted : o.report = report[r]
    /\ answer[r] = "conflict" =>
          /\ \E o \in outcomes : o.kind = "conflict" /\ o.report = report[r]
          /\ \E o \in Candidates(r) : o.report # report[r]

ProgressInv(r) ==
    /\ phase[r] \in Cleared => InReach(r)
    /\ phase[r] \in {"fresh", "allocated"} =>
          Candidates(r) = {} /\ covered[r] = coverage[report[r].grant]
    /\ phase[r] = "allocated" => position[r] = next /\ cutoff = 0
    /\ answer[r] # "none" => phase[r] = "answered"
    /\ AnswerOnRecord(r)

(* What the steps of requests do to the prefix.                                 *)
Refuses(r) ==
    /\ PrefixFree /\ coverage' = coverage
    /\ \E kind \in {"conflict", "rejected"} : Preserve(r, kind, next, 0)
Accepts(r) ==
    /\ Accept(r) /\ cutoff = 0
    /\ Preserve(r, "accepted", next, seen[r])

LEMMA OutcomeKinds ==
    ASSUME NEW r \in Requests, ProgressInv(r), RequestStep(r)
    PROVE  SameOutcomes \/ Refuses(r) \/ Accepts(r)
<1>1. ASSUME NEW o \in Observation, Receive(r, o) PROVE SameOutcomes
  BY <1>1 DEF Receive, SameOutcomes
<1>2. ASSUME EnterAction(r) PROVE SameOutcomes
  BY <1>2 DEF EnterAction, Authorize, LockIdentity, LockStream, CheckGrant, ReceiveInvalid,
              Enter, SameOutcomes
<1>3. ASSUME ReadCoverage(r) \/ AllocatePosition(r) PROVE SameOutcomes
  BY <1>3 DEF ReadCoverage, AllocatePosition, SameOutcomes
<1>4. ASSUME Replay(r) \/ LoseRejection(r) \/ FailRequest(r) PROVE SameOutcomes
  BY <1>4 DEF Replay, LoseRejection, FailRequest, SameOutcomes
<1>5. ASSUME PreserveConflict(r) \/ PreserveRejection(r) PROVE Refuses(r)
  BY <1>5 DEF PreserveConflict, PreserveRejection, Refuses
<1>6. ASSUME Accept(r) PROVE Accepts(r)
  BY <1>6 DEF Accept, Accepts, ProgressInv
<1> QED BY <1>1, <1>2, <1>3, <1>4, <1>5, <1>6, RequestStepKinds DEF EndAction

(* Outcomes are only added, and accepted ones only by Accept.                   *)
LEMMA AcceptedGrow ==
    ASSUME NEW r \in Requests, SameOutcomes \/ Refuses(r) \/ Accepts(r)
    PROVE  /\ outcomes \subseteq outcomes' /\ Accepted \subseteq Accepted'
           /\ ~ Accepts(r) => Accepted' = Accepted /\ coverage' = coverage
           /\ Accepts(r) => \A o \in Accepted' \ Accepted :
                 /\ o.report = report[r] /\ o.under = seen[r] /\ o.position = next
<1>1. CASE SameOutcomes
  BY <1>1 DEF SameOutcomes, prefixVars, Accepted, Accepts, Preserve
<1>2. CASE Refuses(r)
  BY <1>2 DEF Refuses, Preserve, Accepted
<1>3. CASE Accepts(r)
  BY <1>3 DEF Accepts, Preserve, Accepted
<1> QED BY <1>1, <1>2, <1>3
-----------------------------------------------------------------------------
(* The prefix.                                                                  *)
PositionsInv ==
    /\ PrefixIsStable
    /\ cutoff # 0 => cutoff + 1 = next
    /\ \A i \in DOMAIN projections : projections[i].cutoff < next

LEMMA PositionsBelow ==
    ASSUME PrefixTypes, PositionsInv, NEW o \in outcomes
    PROVE  o.position \in Nat /\ 1 <= o.position /\ o.position < next
<1>1. o.position \in 1 .. next - 1
  BY DEF PositionsInv, PrefixIsStable
<1>2. next \in Nat
  BY DEF PrefixTypes
<1> QED BY <1>1, <1>2

LEMMA CutoffTypes ==
    ASSUME ProjectionTypes, NEW i \in DOMAIN projections
    PROVE  projections[i].cutoff \in Nat
<1>1. projections[i] \in Projection
  BY DEF ProjectionTypes
<1> QED BY <1>1 DEF Projection

LEMMA PreservePositions ==
    ASSUME RequestTypes, PrefixTypes, ProjectionTypes, PositionsInv, cutoff = 0,
           SameProjections, NEW r \in Requests, NEW kind, NEW under,
           Preserve(r, kind, next, under)
    PROVE  PositionsInv'
<1> DEFINE new == [position |-> next, kind |-> kind, report |-> report[r], under |-> under]
<1>1. /\ outcomes' = outcomes \union {new} /\ next' = next + 1
      /\ cutoff' = 0 /\ projections' = projections /\ new.position = next
  BY DEF Preserve, SameProjections, projectionVars
<1> HIDE DEF new
<1>2. next \in Nat \ {0} /\ {o.position : o \in outcomes} = 1 .. next - 1
  BY DEF PrefixTypes, PositionsInv, PrefixIsStable
<1>3. {o.position : o \in outcomes'} = 1 .. next' - 1
  <2>1. {o.position : o \in outcomes'} = (1 .. next - 1) \union {next}
    BY <1>1, <1>2
  <2>2. (1 .. next - 1) \union {next} = 1 .. (next + 1) - 1
    BY <1>2
  <2> QED BY <1>1, <2>1, <2>2
<1>4. \A o, p \in outcomes' : o.position = p.position => o = p
  <2>1. \A o \in outcomes : o.position # next
    BY <1>2, PositionsBelow
  <2> QED BY <1>1, <2>1 DEF PositionsInv, PrefixIsStable
<1>5. \A i \in DOMAIN projections : UpTo(projections[i].cutoff)' = UpTo(projections[i].cutoff)
  <2> TAKE i \in DOMAIN projections
  <2>1. projections[i].cutoff \in Nat /\ projections[i].cutoff < next
    BY CutoffTypes DEF PositionsInv
  <2>2. ~ (next <= projections[i].cutoff)
    BY <1>2, <2>1
  <2> QED BY <1>1, <2>2 DEF UpTo
<1>6. \A i \in DOMAIN projections' : projections'[i].outcomes = UpTo(projections[i].cutoff)'
  BY <1>1, <1>5 DEF PositionsInv, PrefixIsStable
<1>7. \A i \in DOMAIN projections : projections[i].cutoff < next + 1
  <2> TAKE i \in DOMAIN projections
  <2>1. projections[i].cutoff \in Nat /\ projections[i].cutoff < next
    BY CutoffTypes DEF PositionsInv
  <2> QED BY <1>2, <2>1
<1>8. PrefixIsStable'
  BY <1>1, <1>3, <1>4, <1>6 DEF PositionsInv, PrefixIsStable
<1> QED BY <1>1, <1>7, <1>8 DEF PositionsInv

LEMMA ProjectionPositions ==
    ASSUME PrefixTypes, ProjectionTypes, PositionsInv, ProjectionAction
    PROVE  PositionsInv'
<1>1. outcomes' = outcomes /\ next' = next /\ next \in Nat \ {0}
  BY ProjectionFrame DEF SameOutcomes, prefixVars, PrefixTypes
<1>2. ASSUME projections' = projections PROVE
        PrefixIsStable' /\ \A i \in DOMAIN projections' : projections'[i].cutoff < next'
  BY <1>1, <1>2 DEF PositionsInv, PrefixIsStable, UpTo
<1>3. CASE CaptureCutoff
  <2>1. cutoff' + 1 = next'
    BY <1>1, <1>3 DEF CaptureCutoff
  <2> QED BY <1>2, <1>3, <2>1 DEF CaptureCutoff, PositionsInv
<1>4. CASE EndProjection
  BY <1>2, <1>4 DEF EndProjection, PositionsInv
<1>5. CASE CreateProjection
  <2> DEFINE p == [cutoff |-> cutoff, outcomes |-> UpTo(cutoff)]
             n == Len(projections)
  <2>1. /\ projections' = Append(projections, p) /\ cutoff' = 0 /\ cutoff > 0
        /\ \A i \in DOMAIN projections : projections[i].cutoff # cutoff
        /\ p.cutoff = cutoff /\ p.outcomes = UpTo(cutoff)
    BY <1>5 DEF CreateProjection
  <2>2. p \in Projection
    BY DEF Projection, UpTo, PrefixTypes, ProjectionTypes
  <2> HIDE DEF p
  <2>3. cutoff \in Nat /\ cutoff + 1 = next
    BY <2>1 DEF ProjectionTypes, PositionsInv
  <2>4. /\ projections \in Seq(Projection) /\ n \in Nat
        /\ DOMAIN projections' = 1 .. n + 1 /\ DOMAIN projections = 1 .. n
        /\ \A i \in 1 .. n : projections'[i] = projections[i]
        /\ projections'[n + 1] = p
    BY <2>1, <2>2 DEF ProjectionTypes
  <2>5. \A i \in 1 .. n : projections[i].cutoff < cutoff
    <3> TAKE i \in 1 .. n
    <3>1. projections[i].cutoff \in Nat /\ projections[i].cutoff < next
      BY <2>4, CutoffTypes DEF PositionsInv
    <3>2. projections[i].cutoff # cutoff
      BY <2>1, <2>4
    <3> QED BY <2>3, <3>1, <3>2
  <2>6. \A i \in DOMAIN projections' : projections'[i].cutoff < next'
    <3> TAKE i \in DOMAIN projections'
    <3>1. CASE i = n + 1
      BY <1>1, <2>1, <2>3, <2>4, <3>1
    <3>2. CASE i \in 1 .. n
      BY <1>1, <2>4, <3>2 DEF PositionsInv
    <3> QED BY <2>4, <3>1, <3>2
  <2>7. \A i, j \in DOMAIN projections' : i < j => projections'[i].cutoff < projections'[j].cutoff
    <3> SUFFICES ASSUME NEW i \in 1 .. n + 1, NEW j \in 1 .. n + 1, i < j
                 PROVE  projections'[i].cutoff < projections'[j].cutoff
      BY <2>4
    <3>1. i \in 1 .. n
      BY <2>4
    <3>2. CASE j = n + 1
      BY <2>1, <2>4, <2>5, <3>1, <3>2
    <3>3. CASE j \in 1 .. n
      BY <2>4, <3>1, <3>3 DEF PositionsInv, PrefixIsStable
    <3> QED BY <2>4, <3>2, <3>3
  <2>8. \A i \in DOMAIN projections' : projections'[i].outcomes = UpTo(projections[i].cutoff)'
    <3> SUFFICES ASSUME NEW i \in 1 .. n + 1
                 PROVE  projections'[i].outcomes =
                            {o \in outcomes : o.position <= projections'[i].cutoff}
      BY <1>1, <2>4 DEF UpTo
    <3>1. CASE i = n + 1
      BY <2>1, <2>4, <3>1 DEF UpTo
    <3>2. CASE i \in 1 .. n
      BY <2>4, <3>2 DEF PositionsInv, PrefixIsStable, UpTo
    <3> QED BY <2>4, <3>1, <3>2
  <2> QED BY <1>1, <2>1, <2>6, <2>7, <2>8 DEF PositionsInv, PrefixIsStable
<1> QED BY <1>3, <1>4, <1>5 DEF ProjectionAction

LEMMA PositionsStep ==
    ASSUME TypeOK, PositionsInv, \A r \in Requests : ProgressInv(r), Next
    PROVE  PositionsInv'
<1>1. RequestTypes /\ PrefixTypes /\ ProjectionTypes
  BY TypesByPart
<1>2. ASSUME SameOutcomes, SameProjections PROVE PositionsInv'
  BY <1>2 DEF SameOutcomes, SameProjections, prefixVars, projectionVars, PositionsInv,
     PrefixIsStable, UpTo
<1>3. ASSUME NEW r \in Requests, RequestStep(r) PROVE PositionsInv'
  <2>1. SameOutcomes \/ Refuses(r) \/ Accepts(r)
    BY <1>3, OutcomeKinds
  <2>2. SameProjections
    BY <1>3, RequestFrame
  <2>3. CASE Refuses(r)
    BY <1>1, <2>2, <2>3, PreservePositions DEF Refuses, PrefixFree
  <2>4. CASE Accepts(r)
    BY <1>1, <2>2, <2>4, PreservePositions DEF Accepts
  <2> QED BY <1>2, <2>1, <2>2, <2>3, <2>4
<1> QED BY <1>1, <1>2, <1>3, StepKinds, GrantActionFrame, ProjectionPositions
-----------------------------------------------------------------------------
(* What is accepted.  The coverage of a stream has a highest sequence, so the   *)
(* advance is judged by a number that was accepted, or by zero.                  *)
AcceptedOnce ==
    \A o, p \in Accepted :
        \/ o.report.id = p.report.id
        \/ o.report.grant = p.report.grant /\ o.report.number = p.report.number
        => o = p

HasHighest(S) == \E n \in S \union {0} : \A m \in S : m <= n

StreamInv == CoverageIsReceived /\ \A g \in Grants : HasHighest(coverage[g])

LEMMA ReceivedOn ==
    ASSUME CoverageIsReceived, NEW g \in Grants, NEW n
    PROVE  n \in coverage[g] <=>
               \E o \in Accepted : o.report.grant = g /\ o.report.number = n
  BY DEF CoverageIsReceived

LEMMA AuthorizedIsInReach ==
    ASSUME PrefixTypes, StreamInv, NEW r \in Requests, report[r] \in Observation, Authorized(r)
    PROVE  InReach(r)
<1> DEFINE g == report[r].grant
           m == HighestSeen(g)
<1>1. g \in Grants /\ report[r].number \in Nat /\ MaxAdvance \in Nat
  BY IntakeAssumption
<1>2. \E n \in coverage[g] \union {0} : \A k \in coverage[g] : k <= n
  BY <1>1 DEF StreamInv, HasHighest
<1>3. m \in coverage[g] \union {0}
  BY <1>2 DEF HighestSeen
<1>4. report[r].number <= m + MaxAdvance
  BY DEF Authorized
<1>5. CASE m = 0
  BY <1>1, <1>4, <1>5 DEF InReach
<1>6. CASE m \in coverage[g]
  <2>1. PICK o \in Accepted : o.report.grant = g /\ o.report.number = m
    BY <1>1, <1>6, ReceivedOn DEF StreamInv
  <2> QED BY <1>4, <2>1 DEF InReach
<1> QED BY <1>3, <1>5, <1>6

LEMMA HighestGrows ==
    ASSUME NEW S \in SUBSET Nat, NEW n \in Nat, HasHighest(S)
    PROVE  HasHighest(S \union {n})
<1>1. PICK m \in S \union {0} : \A k \in S : k <= m
  BY DEF HasHighest
<1>2. CASE n <= m
  BY <1>1, <1>2 DEF HasHighest
<1>3. CASE ~ (n <= m)
  <2>1. \A k \in S : k <= n
    BY <1>1, <1>3
  <2> QED BY <2>1 DEF HasHighest
<1> QED BY <1>2, <1>3

LEMMA AcceptStream ==
    ASSUME RequestTypes, PrefixTypes, PositionsInv, StreamInv, NEW r \in Requests,
           ProgressInv(r), report[r] \in Observation, Accepts(r)
    PROVE  StreamInv'
<1> DEFINE h == report[r].grant
           new == [position |-> next, kind |-> "accepted", report |-> report[r],
                   under |-> seen[r]]
<1>1. h \in Grants /\ report[r].number \in Nat
  BY IntakeAssumption
<1>2. /\ Accepted' = Accepted \union {new}
      /\ new.report = report[r] /\ new.position = next
  BY DEF Accepts, Preserve, Accepted
<1> HIDE DEF new
<1>3. /\ phase[r] = "allocated"
      /\ coverage' = [coverage EXCEPT ![h] = covered[r] \union {report[r].number}]
      /\ covered[r] = coverage[h]
  BY DEF Accepts, Accept, ProgressInv
<1>4. /\ coverage'[h] = coverage[h] \union {report[r].number}
      /\ \A g \in Grants \ {h} : coverage'[g] = coverage[g]
      /\ \A g \in Grants : coverage[g] \in SUBSET Nat
  BY <1>1, <1>3 DEF PrefixTypes
<1>5. \A g \in Grants : HasHighest(coverage'[g])
  BY <1>1, <1>4, HighestGrows DEF StreamInv
<1>6. ASSUME NEW g \in Grants
      PROVE  coverage'[g] = {o.report.number : o \in {p \in Accepted' : p.report.grant = g}}
  <2>1. \A n : n \in coverage[g] <=>
                   \E o \in Accepted : o.report.grant = g /\ o.report.number = n
    BY ReceivedOn DEF StreamInv
  <2>2. \A n : n \in coverage'[g] <=>
                   n \in coverage[g] \/ (g = h /\ n = report[r].number)
    BY <1>4
  <2>3. \A n : n \in coverage'[g] <=>
                   \E o \in Accepted' : o.report.grant = g /\ o.report.number = n
    BY <1>2, <2>1, <2>2
  <2> QED BY <2>3
<1>7. ASSUME NEW o \in Accepted'
      PROVE  \/ o.report.number <= MaxAdvance
             \/ \E p \in Accepted' :
                   /\ p.report.grant = o.report.grant /\ p.position < o.position
                   /\ o.report.number <= p.report.number + MaxAdvance
  <2>1. CASE o \in Accepted
    BY <1>2, <2>1 DEF StreamInv, CoverageIsReceived
  <2>2. CASE o = new
    <3>1. \/ report[r].number <= MaxAdvance
          \/ \E p \in Accepted : /\ p.report.grant = report[r].grant
                                 /\ report[r].number <= p.report.number + MaxAdvance
      BY <1>3 DEF ProgressInv, Cleared, Locked, InReach
    <3>2. \A p \in Accepted : p.position < next
      BY PositionsBelow DEF Accepted
    <3> QED BY <1>2, <2>2, <3>1, <3>2
  <2> QED BY <1>2, <2>1, <2>2
<1>8. CoverageIsReceived'
  BY <1>6, <1>7 DEF CoverageIsReceived
<1> QED BY <1>5, <1>8 DEF StreamInv

LEMMA AcceptOnce ==
    ASSUME AcceptedOnce, NEW r \in Requests, ProgressInv(r), Accepts(r)
    PROVE  AcceptedOnce'
<1> DEFINE new == [position |-> next, kind |-> "accepted", report |-> report[r],
                   under |-> seen[r]]
<1>1. Accepted' = Accepted \union {new} /\ new.report = report[r]
  BY DEF Accepts, Preserve, Accepted
<1> HIDE DEF new
<1>2. Candidates(r) = {}
  BY DEF Accepts, Accept, ProgressInv
<1>3. \A o \in Accepted :
         ~ (\/ o.report.id = report[r].id
            \/ o.report.grant = report[r].grant /\ o.report.number = report[r].number)
  BY <1>2 DEF Candidates
<1> QED BY <1>1, <1>3 DEF AcceptedOnce

AcceptedInv == AcceptedOnce /\ StreamInv

LEMMA AcceptedStep ==
    ASSUME TypeOK, PositionsInv, AcceptedInv, RequestsInv, \A r \in Requests : ProgressInv(r),
           Next
    PROVE  AcceptedInv'
<1>1. RequestTypes /\ PrefixTypes
  BY TypesByPart
<1>2. ASSUME Accepted' = Accepted, coverage' = coverage PROVE AcceptedInv'
  BY <1>2 DEF AcceptedInv, AcceptedOnce, StreamInv, CoverageIsReceived
<1>3. ASSUME SameOutcomes PROVE AcceptedInv'
  BY <1>2, <1>3 DEF SameOutcomes, prefixVars, Accepted
<1>4. ASSUME NEW r \in Requests, RequestStep(r) PROVE AcceptedInv'
  <2>1. SameOutcomes \/ Refuses(r) \/ Accepts(r)
    BY <1>4, OutcomeKinds
  <2>2. ~ Accepts(r) => AcceptedInv'
    BY <1>2, <2>1, AcceptedGrow
  <2>3. ASSUME Accepts(r) PROVE AcceptedInv'
    <3>1. report[r] \in Observation
      BY <2>3 DEF Accepts, Accept, RequestsInv, RequestInv, Reporting, Locked
    <3> QED BY <1>1, <2>3, <3>1, AcceptStream, AcceptOnce DEF AcceptedInv
  <2> QED BY <2>2, <2>3
<1> QED BY <1>3, <1>4, StepKinds, GrantActionFrame, ProjectionFrame
-----------------------------------------------------------------------------
(* The progress of a request under the steps of the others.                     *)
SameRequest(r) ==
    /\ phase'[r] = phase[r] /\ report'[r] = report[r] /\ covered'[r] = covered[r]
    /\ position'[r] = position[r] /\ answer'[r] = answer[r]

LEMMA RecordsGrow ==
    ASSUME NEW r \in Requests, report'[r] = report[r],
           outcomes \subseteq outcomes', Accepted \subseteq Accepted'
    PROVE  /\ InReach(r) => InReach(r)'
           /\ answer'[r] = answer[r] /\ AnswerOnRecord(r) => AnswerOnRecord(r)'
<1>1. InReach(r) => InReach(r)'
  BY DEF InReach
<1>2. Candidates(r) \subseteq Candidates(r)'
  BY DEF Candidates
<1>3. answer'[r] = answer[r] /\ AnswerOnRecord(r) => AnswerOnRecord(r)'
  BY <1>2 DEF AnswerOnRecord
<1> QED BY <1>1, <1>3

LEMMA ProgressOfOthers ==
    ASSUME RequestTypes, PrefixTypes, LocksInv, RequestsInv,
           NEW q \in Requests, RequestStep(q), ProgressInv(q),
           NEW r \in Requests \ {q}, ProgressInv(r)
    PROVE  ProgressInv(r)'
<1>1. SameRequest(r) /\ cutoff' = cutoff
  BY OnlyOneMoves, RequestFrame DEF OnlyRequest, SameRequest, SameProjections, projectionVars
<1>2. SameOutcomes \/ Refuses(q) \/ Accepts(q)
  BY OutcomeKinds
<1>3. outcomes \subseteq outcomes' /\ Accepted \subseteq Accepted'
  BY <1>2, AcceptedGrow
<1>4. (phase'[r] \in Cleared => InReach(r)') /\ AnswerOnRecord(r)'
  BY <1>1, <1>3, RecordsGrow DEF SameRequest, ProgressInv
<1>5. ASSUME phase[r] \in {"fresh", "allocated"}
      PROVE  Candidates(r)' = {} /\ coverage'[report[r].grant] = coverage[report[r].grant]
  <2>1. Candidates(r) = {}
    BY <1>5 DEF ProgressInv
  <2>2. CASE ~ Accepts(q)
    <3>1. Accepted' = Accepted /\ coverage' = coverage
      BY <1>2, <2>2, AcceptedGrow
    <3> QED BY <1>1, <2>1, <3>1 DEF Candidates, SameRequest
  <2>3. CASE Accepts(q)
    <3>1. phase[q] = "allocated"
      BY <2>3 DEF Accepts, Accept
    <3>2. report[r].id # report[q].id /\ report[r].grant # report[q].grant
      BY <1>5, <3>1 DEF LocksInv, LocksApart, Locked
    <3>3. \A o \in Accepted' \ Accepted : o.report = report[q]
      BY <2>3, AcceptedGrow
    <3>4. Candidates(r)' = {}
      BY <1>1, <2>1, <3>2, <3>3 DEF Candidates, SameRequest
    <3>5. report[r].grant \in Grants
      BY <1>5, IntakeAssumption DEF RequestsInv, RequestInv, Reporting, Locked
    <3>6. coverage'[report[r].grant] = coverage[report[r].grant]
      BY <2>3, <3>2, <3>5 DEF Accepts, Accept, PrefixTypes
    <3> QED BY <3>4, <3>6
  <2> QED BY <2>2, <2>3
<1>6. ASSUME phase[r] = "allocated" PROVE next' = next
  <2>1. CASE SameOutcomes
    BY <2>1 DEF SameOutcomes, prefixVars
  <2>2. CASE Refuses(q)
    BY <1>6, <2>2 DEF Refuses, PrefixFree
  <2>3. CASE Accepts(q)
    BY <1>6, <2>3 DEF Accepts, Accept, LocksInv, LocksApart
  <2> QED BY <1>2, <2>1, <2>2, <2>3
<1> QED BY <1>1, <1>4, <1>5, <1>6 DEF ProgressInv, SameRequest

LEMMA ProgressUnderProjection ==
    ASSUME NEW r \in Requests, ProgressInv(r), ProjectionAction
    PROVE  ProgressInv(r)'
<1>1. /\ outcomes' = outcomes /\ next' = next /\ coverage' = coverage
      /\ Accepted' = Accepted /\ UNCHANGED requestVars
  BY ProjectionFrame DEF SameOutcomes, prefixVars, Accepted, SameRequests
<1>2. phase[r] = "allocated" => cutoff' = 0
  BY DEF ProjectionAction, CaptureCutoff, CreateProjection, EndProjection, PrefixFree
<1> QED BY <1>1, <1>2 DEF ProgressInv, InReach, AnswerOnRecord, Candidates, requestVars

(* The progress of the request whose step it is.                                *)
LEMMA ProgressEnters ==
    ASSUME RequestTypes, PrefixTypes, StreamInv, RequestsInv,
           NEW r \in Requests, EnterAction(r), ProgressInv(r)
    PROVE  ProgressInv(r)'
<1>1. PICK p \in Phase \ {"new", "fresh", "allocated", "answered"} : Enter(r, p)
  BY EnterKinds
<1>2. /\ phase'[r] = p /\ report' = report /\ answer' = answer
      /\ outcomes' = outcomes /\ Accepted' = Accepted
  BY <1>1 DEF Enter, RequestTypes, prefixVars, Accepted
<1>3. phase[r] # "answered"
  BY DEF EnterAction, Authorize, LockIdentity, LockStream, CheckGrant, ReceiveInvalid
<1>4. answer'[r] = "none" /\ AnswerOnRecord(r)'
  BY <1>2, <1>3 DEF ProgressInv, AnswerOnRecord
<1>5. ASSUME phase'[r] \in Cleared PROVE InReach(r)
  <2>1. CASE Authorize(r)
    <3>1. Authorized(r)
      BY <1>5, <2>1 DEF Authorize, Enter, RequestTypes, Cleared, Locked
    <3>2. report[r] \in Observation
      BY <2>1 DEF Authorize, RequestsInv, RequestInv, Reporting
    <3> QED BY <3>1, <3>2, AuthorizedIsInReach
  <2>2. CASE LockIdentity(r) \/ LockStream(r) \/ CheckGrant(r)
    BY <2>2 DEF LockIdentity, LockStream, CheckGrant, ProgressInv, Cleared, Locked
  <2>3. CASE ReceiveInvalid(r)
    BY <1>5, <2>3 DEF ReceiveInvalid, RequestTypes, Cleared, Locked
  <2> QED BY <2>1, <2>2, <2>3 DEF EnterAction
<1>6. phase'[r] \in Cleared => InReach(r)'
  BY <1>2, <1>5 DEF InReach
<1> QED BY <1>2, <1>4, <1>6 DEF ProgressInv

LEMMA ProgressEnds ==
    ASSUME RequestTypes, NEW r \in Requests, EndAction(r), ProgressInv(r)
    PROVE  ProgressInv(r)'
<1>1. ASSUME NEW a, End(r, a) PROVE phase'[r] = "answered" /\ answer'[r] = a /\ report' = report
  BY <1>1 DEF End, RequestTypes
<1>2. ASSUME phase'[r] = "answered", AnswerOnRecord(r)' PROVE ProgressInv(r)'
  BY <1>2 DEF ProgressInv, Cleared, Locked
<1>3. CASE Replay(r)
  <2>1. phase'[r] = "answered" /\ answer'[r] = "replayed" /\ report' = report
        /\ Accepted' = Accepted
    BY <1>1, <1>3 DEF Replay, prefixVars, Accepted
  <2>2. \E o \in Accepted : o.report = report[r]
    BY <1>3 DEF Replay, Candidates, Exact
  <2> QED BY <1>2, <2>1, <2>2 DEF AnswerOnRecord
<1>4. CASE PreserveConflict(r)
  <2> DEFINE new == [position |-> next, kind |-> "conflict", report |-> report[r], under |-> 0]
  <2>1. phase'[r] = "answered" /\ answer'[r] = "conflict" /\ report' = report
    BY <1>1, <1>4 DEF PreserveConflict
  <2>2. /\ outcomes' = outcomes \union {new} /\ Accepted' = Accepted
        /\ new.kind = "conflict" /\ new.report = report[r]
    BY <1>4 DEF PreserveConflict, Preserve, Accepted
  <2> HIDE DEF new
  <2>3. \E o \in Candidates(r) : o.report # report[r]
    BY <1>4 DEF PreserveConflict, Exact
  <2>4. \E o \in Candidates(r)' : o.report # report'[r]
    BY <2>1, <2>2, <2>3 DEF Candidates
  <2> QED BY <1>2, <2>1, <2>2, <2>4 DEF AnswerOnRecord
<1>5. CASE Accept(r)
  <2> DEFINE new == [position |-> position[r], kind |-> "accepted", report |-> report[r],
                     under |-> seen[r]]
  <2>1. phase'[r] = "answered" /\ answer'[r] = "accepted" /\ report' = report
    BY <1>1, <1>5 DEF Accept
  <2>2. new \in Accepted' /\ new.report = report[r]
    BY <1>5 DEF Accept, Preserve, Accepted
  <2> HIDE DEF new
  <2> QED BY <1>2, <2>1, <2>2 DEF AnswerOnRecord
<1>6. CASE PreserveRejection(r) \/ LoseRejection(r) \/ FailRequest(r)
  <2>1. phase'[r] = "answered" /\ answer'[r] \in {"rejected", "unavailable"}
    BY <1>1, <1>6 DEF PreserveRejection, LoseRejection, FailRequest
  <2> QED BY <1>2, <2>1 DEF AnswerOnRecord
<1> QED BY <1>3, <1>4, <1>5, <1>6 DEF EndAction

LEMMA ProgressOwn ==
    ASSUME RequestTypes, PrefixTypes, StreamInv, RequestsInv,
           NEW r \in Requests, RequestStep(r), ProgressInv(r)
    PROVE  ProgressInv(r)'
<1>1. ASSUME NEW o \in Observation, Receive(r, o) PROVE ProgressInv(r)'
  <2>1. phase'[r] \in {"refused", "received"} /\ answer' = answer /\ phase[r] = "new"
    BY <1>1 DEF Receive, RequestTypes
  <2> QED BY <2>1 DEF ProgressInv, AnswerOnRecord, Cleared, Locked
<1>2. ASSUME ReadCoverage(r) PROVE ProgressInv(r)'
  <2>1. /\ phase[r] = "shared" /\ phase'[r] = "fresh" /\ report' = report /\ answer' = answer
        /\ covered'[r] = coverage[report[r].grant] /\ Candidates(r) = {}
        /\ outcomes' = outcomes /\ Accepted' = Accepted /\ coverage' = coverage
    BY <1>2 DEF ReadCoverage, RequestTypes, prefixVars, Accepted
  <2>2. answer'[r] = "none" /\ AnswerOnRecord(r)' /\ InReach(r)
    BY <2>1 DEF ProgressInv, AnswerOnRecord, Cleared, Locked
  <2> QED BY <2>1, <2>2 DEF ProgressInv, InReach, Candidates
<1>3. ASSUME AllocatePosition(r) PROVE ProgressInv(r)'
  <2>1. /\ phase[r] = "fresh" /\ phase'[r] = "allocated" /\ report' = report /\ answer' = answer
        /\ covered' = covered /\ position'[r] = next /\ next' = next /\ cutoff = 0
        /\ outcomes' = outcomes /\ Accepted' = Accepted /\ coverage' = coverage
        /\ cutoff' = cutoff
    BY <1>3 DEF AllocatePosition, RequestTypes, prefixVars, Accepted, MayAllocate, PrefixFree,
                projectionVars
  <2>2. answer'[r] = "none" /\ AnswerOnRecord(r)' /\ InReach(r)
    BY <2>1 DEF ProgressInv, AnswerOnRecord, Cleared, Locked
  <2> QED BY <2>1, <2>2 DEF ProgressInv, InReach, Candidates
<1> QED BY <1>1, <1>2, <1>3, ProgressEnters, ProgressEnds, RequestStepKinds

LEMMA ProgressStep ==
    ASSUME TypeOK, LocksInv, RequestsInv, AcceptedInv, \A r \in Requests : ProgressInv(r), Next
    PROVE  \A r \in Requests : ProgressInv(r)'
<1>1. RequestTypes /\ PrefixTypes
  BY TypesByPart
<1> TAKE r \in Requests
<1>2. ASSUME NEW q \in Requests, RequestStep(q) PROVE ProgressInv(r)'
  <2>1. CASE q = r
    BY <1>1, <1>2, <2>1, ProgressOwn DEF AcceptedInv
  <2>2. CASE q # r
    BY <1>1, <1>2, <2>2, ProgressOfOthers
  <2> QED BY <2>1, <2>2
<1>3. ASSUME NEW g \in Grants, GrantAction(g) PROVE ProgressInv(r)'
  <2>1. UNCHANGED <<requestVars, prefixVars, cutoff>>
    BY <1>3, GrantActionFrame DEF SameRequests, SameOutcomes, SameProjections, projectionVars
  <2> QED BY <2>1 DEF requestVars, prefixVars, ProgressInv, InReach, AnswerOnRecord, Candidates,
                      Accepted
<1> QED BY <1>2, <1>3, StepKinds, ProgressUnderProjection
-----------------------------------------------------------------------------
(* The invariant, and what follows from it.                                     *)
IntakeInv ==
    /\ TypeOK /\ GrantsInv /\ RequestsInv /\ LocksInv /\ PositionsInv /\ AcceptedInv
    /\ \A r \in Requests : ProgressInv(r)

LEMMA IntakeInit == Init => IntakeInv
<1> SUFFICES ASSUME Init PROVE IntakeInv
  OBVIOUS
<1>1. GrantsInv
  BY DEF Init, GrantsInv, GrantInv, ApplyingInv, Pending
<1>2. RequestsInv /\ LocksInv
  BY DEF Init, RequestsInv, RequestInv, Reporting, Cleared, Sharing, Locked, LocksInv,
         LocksApart
<1>3. PositionsInv
  BY DEF Init, PositionsInv, PrefixIsStable
<1>4. AcceptedInv
  <2>1. Accepted = {} /\ \A g \in Grants : coverage[g] = {}
    BY DEF Init, Accepted
  <2> QED BY <2>1 DEF AcceptedInv, AcceptedOnce, StreamInv, CoverageIsReceived, HasHighest
<1>5. \A r \in Requests : ProgressInv(r)
  BY DEF Init, ProgressInv, AnswerOnRecord, Cleared, Locked
<1> QED BY <1>1, <1>2, <1>3, <1>4, <1>5, InitTypes DEF IntakeInv

LEMMA IntakeStep == IntakeInv /\ [Next]_vars => IntakeInv'
<1> SUFFICES ASSUME IntakeInv, [Next]_vars PROVE IntakeInv'
  OBVIOUS
<1>1. CASE Next
  <2>1. TypeOK'
    BY <1>1, TypeStep, ReportedFollows DEF IntakeInv, RequestsInv
  <2>2. GrantsInv' /\ RequestsInv' /\ LocksInv'
    BY <1>1, GrantsStep, RequestsStep, LocksStep DEF IntakeInv
  <2>3. PositionsInv' /\ AcceptedInv' /\ \A r \in Requests : ProgressInv(r)'
    BY <1>1, PositionsStep, AcceptedStep, ProgressStep DEF IntakeInv
  <2> QED BY <2>1, <2>2, <2>3 DEF IntakeInv
<1>2. CASE UNCHANGED vars
  <2>1. TypeOK'
    BY <1>2, TypeStep, ReportedFollows DEF IntakeInv, RequestsInv
  <2>2. UNCHANGED <<grantVars, planeVars>> => GrantsInv'
    BY DEF IntakeInv, grantVars, planeVars, GrantsInv, GrantInv, ApplyingInv, StateOf
  <2>3. UNCHANGED <<requestVars, grantVars, planeVars>> => RequestsInv' /\ LocksInv'
    BY DEF IntakeInv, requestVars, grantVars, planeVars, RequestsInv, RequestInv, Reporting,
           StateOf, LocksInv, LocksApart
  <2>4. UNCHANGED <<prefixVars, projectionVars>> => PositionsInv' /\ AcceptedInv'
    BY DEF IntakeInv, prefixVars, projectionVars, PositionsInv, PrefixIsStable, UpTo,
           AcceptedInv, AcceptedOnce, StreamInv, CoverageIsReceived, Accepted
  <2>5. UNCHANGED <<requestVars, prefixVars, projectionVars>> =>
           \A r \in Requests : ProgressInv(r)'
    BY DEF IntakeInv, requestVars, prefixVars, projectionVars, ProgressInv, InReach,
           AnswerOnRecord, Candidates, Accepted
  <2> QED BY <1>2, <2>1, <2>2, <2>3, <2>4, <2>5 DEF IntakeInv, vars
<1> QED BY <1>1, <1>2

(* The invariant holds of every behaviour: locks keep requests apart, what each has *)
(* read still stands when it uses it, and the Kernel is at most one snapshot ahead.  *)
THEOREM IntakeInvariant == Spec => []IntakeInv
BY IntakeInit, IntakeStep, PTL DEF Spec

(* Every variable keeps its type (ObservationIntake!TypeOK).                          *)
THEOREM IntakeTypes == Spec => []TypeOK
<1>1. IntakeInv => TypeOK
  BY DEF IntakeInv
<1> QED BY <1>1, IntakeInvariant, PTL

(* Positions are the numbers up to the next, each of one outcome, and every projection *)
(* holds what stands up to its cutoff: an allocated position and a captured cutoff       *)
(* exclude each other.                                                                     *)
THEOREM StablePrefix == Spec => []PrefixIsStable
<1>1. IntakeInv => PrefixIsStable
  BY DEF IntakeInv, PositionsInv
<1> QED BY <1>1, IntakeInvariant, PTL

(* No identity and no sequence of a stream is accepted twice, and every answer is on    *)
(* record: the locks of a fresh request exclude whoever could take its place.             *)
THEOREM AnswersRecorded == Spec => []AnswersAreOnRecord
<1>1. IntakeInv => AnswersAreOnRecord
  BY DEF IntakeInv, AcceptedInv, AcceptedOnce, ProgressInv, AnswerOnRecord, AnswersAreOnRecord
<1> QED BY <1>1, IntakeInvariant, PTL

(* The coverage of a stream is what was accepted on it, within the advance of its grant. *)
THEOREM CoverageReceived == Spec => []CoverageIsReceived
<1>1. IntakeInv => CoverageIsReceived
  BY DEF IntakeInv, AcceptedInv, StreamInv
<1> QED BY <1>1, IntakeInvariant, PTL

(* What the Kernel records as effective has been applied, and only the pending snapshot  *)
(* may be ahead of it.                                                                     *)
THEOREM AppliedIsEffective == Spec => []EffectiveIsApplied
<1>1. ASSUME IntakeInv PROVE EffectiveIsApplied
  <2>1. \A g \in Grants : GrantInv(g) /\ applied[g] \in Nat /\ Len(published[g]) \in Nat
    BY <1>1, TypesByPart DEF IntakeInv, GrantsInv, GrantTypes
  <2> QED BY <2>1 DEF GrantInv, EffectiveIsApplied
<1> QED BY <1>1, IntakeInvariant, PTL

(* A receipt is committed under the snapshot in effect, which is active, and never once  *)
(* the Kernel records the revocation.                                                      *)
THEOREM AuthorityAtReceipt == Spec => AcceptedInAuthority
<1> DEFINE A == \A o \in {p \in outcomes' \ outcomes : p.kind = "accepted"} :
                   /\ applied[o.report.grant] = o.under
                   /\ StateOf(o.report.grant, o.under) = "active"
                   /\ effective[o.report.grant] # "revoked_effective"
                      \/ desired[o.report.grant] = "activation_pending"
<1>1. ASSUME IntakeInv, Next PROVE A
  <2> SUFFICES ASSUME NEW o \in outcomes' \ outcomes, o.kind = "accepted"
               PROVE  /\ applied[o.report.grant] = o.under
                      /\ StateOf(o.report.grant, o.under) = "active"
                      /\ effective[o.report.grant] # "revoked_effective"
                         \/ desired[o.report.grant] = "activation_pending"
    OBVIOUS
  <2>1. ~ SameOutcomes
    BY DEF SameOutcomes, prefixVars
  <2>2. PICK r \in Requests : RequestStep(r)
    BY <1>1, <2>1, StepKinds, GrantActionFrame, ProjectionFrame DEF IntakeInv
  <2>3. SameOutcomes \/ Refuses(r) \/ Accepts(r)
    BY <1>1, <2>2, OutcomeKinds DEF IntakeInv
  <2>4. o \in Accepted' \ Accepted
    BY DEF Accepted
  <2>5. Accepts(r) /\ o.report = report[r] /\ o.under = seen[r]
    BY <2>3, <2>4, AcceptedGrow
  <2> DEFINE g == report[r].grant
  <2>6. phase[r] = "allocated"
    BY <2>5 DEF Accepts, Accept
  <2>7. /\ report[r] \in Observation /\ seen[r] \in 1 .. Len(published[g])
        /\ StateOf(g, seen[r]) = "active" /\ applied[g] = seen[r]
    BY <1>1, <2>6 DEF IntakeInv, RequestsInv, RequestInv, Reporting, Cleared, Sharing, Locked
  <2>8. GrantInv(g) /\ applied[g] # 0
    BY <1>1, <2>7, IntakeAssumption DEF IntakeInv, GrantsInv
  <2>9. EffectiveFor(StateOf(g, applied[g])) = "active_effective"
    BY <2>7 DEF EffectiveFor
  <2>10. \/ effective[g] = "active_effective"
         \/ desired[g] = "activation_pending"
    BY <2>8, <2>9 DEF GrantInv, Pending
  <2> QED BY <2>5, <2>7, <2>10
<1>2. ASSUME UNCHANGED vars PROVE A
  BY <1>2 DEF vars, prefixVars
<1>3. IntakeInv /\ [Next]_vars => A
  BY <1>1, <1>2
<1>4. IntakeInv /\ [Next]_vars => [A]_vars
  BY <1>3
<1> QED BY <1>4, IntakeInvariant, PTL DEF Spec, AcceptedInAuthority
-----------------------------------------------------------------------------
(* The promise of IntakePromise.  What the Kernel records as effective is what  *)
(* is in effect, but for the one change it has published and not yet heard of.    *)
KnownInv ==
    \A g \in Grants :
        desired[g] \notin Pending \/ applied[g] # Len(published[g]) =>
            KnownState(effective[g]) = StateOf(g, applied[g])

NewInv == \A r \in Requests : phase[r] = "new" => report[r] = NoReport

LEMMA StateKept ==
    ASSUME GrantTypes, NEW h \in Grants, applied[h] <= Len(published[h]), Grows(h)
    PROVE  /\ StateOf(h, applied[h]) =
                  (IF applied[h] = 0 THEN "none" ELSE published'[h][applied[h]])
           /\ applied'[h] = applied[h] => StateOf(h, applied[h])' = StateOf(h, applied[h])
<1>1. applied[h] \in Nat /\ Len(published[h]) \in Nat
  BY DEF GrantTypes
<1>2. applied[h] # 0 => published'[h][applied[h]] = published[h][applied[h]]
  BY <1>1 DEF Grows
<1> QED BY <1>2 DEF StateOf

LEMMA KnownUnderGrant ==
    ASSUME GrantTypes, GrantsInv, KnownInv, NEW g \in Grants, GrantAction(g)
    PROVE  KnownInv'
<1> SUFFICES ASSUME NEW h \in Grants,
                    desired'[h] \notin Pending \/ applied'[h] # Len(published'[h])
             PROVE  KnownState(effective'[h]) = StateOf(h, applied[h])'
  BY DEF KnownInv
<1>1. /\ Grows(h) /\ GrantInv(h) /\ applied[h] \in Nat
      /\ published[h] \in Seq({"active", "revoked"}) /\ applied[h] <= Len(published[h])
  BY SnapshotsGrow DEF GrantTypes, GrantsInv, GrantInv
<1>2. ASSUME /\ effective'[h] = effective[h] /\ applied'[h] = applied[h]
             /\ desired[h] \notin Pending \/ applied[h] # Len(published[h])
      PROVE  KnownState(effective'[h]) = StateOf(h, applied[h])'
  BY <1>1, <1>2, StateKept DEF KnownInv
<1>3. ASSUME /\ desired'[h] = desired[h] /\ published'[h] = published[h]
             /\ effective'[h] = effective[h] /\ applied'[h] = applied[h]
      PROVE  KnownState(effective'[h]) = StateOf(h, applied[h])'
  BY <1>2, <1>3
<1>4. ASSUME NEW target \in {"active", "revoked"}, PublishSnapshot(g, target)
      PROVE  KnownState(effective'[h]) = StateOf(h, applied[h])'
  <2>1. effective' = effective /\ applied' = applied
    BY <1>4 DEF PublishSnapshot, planeVars
  <2>2. CASE h = g
    BY <1>2, <1>4, <2>1, <2>2 DEF PublishSnapshot, MayPublish
  <2>3. CASE h # g
    BY <1>3, <1>4, <2>1, <2>3 DEF PublishSnapshot, GrantTypes
  <2> QED BY <2>2, <2>3
<1>5. ASSUME NEW n \in 1 .. MaxSnapshots, AcceptApplicationReceipt(g, n)
      PROVE  KnownState(effective'[h]) = StateOf(h, applied[h])'
  <2>1. /\ published' = published /\ applied' = applied
        /\ n = Len(published[g]) /\ n \in 1 .. applied[g]
        /\ effective'[g] = EffectiveFor(published[g][n])
        /\ h # g => desired'[h] = desired[h] /\ effective'[h] = effective[h]
    BY <1>5 DEF AcceptApplicationReceipt, IsPending, planeVars, GrantTypes
  <2>2. CASE h = g
    <3>1. applied[g] = n /\ n # 0
      BY <1>1, <2>1, <2>2
    <3>2. published[g][n] \in {"active", "revoked"}
      BY <1>1, <2>1, <2>2, <3>1
    <3> QED BY <2>1, <2>2, <3>1, <3>2 DEF EffectiveFor, KnownState, StateOf
  <2>3. CASE h # g
    BY <1>3, <2>1, <2>3
  <2> QED BY <2>2, <2>3
<1>6. ASSUME FinishApply(g)
      PROVE  KnownState(effective'[h]) = StateOf(h, applied[h])'
  <2>1. /\ published' = published /\ desired' = desired /\ effective' = effective
        /\ applying.grant = g /\ applying.number = applied[g] + 1
        /\ applied'[g] = applying.number
        /\ h # g => applied'[h] = applied[h]
    BY <1>6 DEF FinishApply, ValidTransition, grantVars, GrantTypes
  <2>2. CASE h = g
    <3>1. applying # NotApplying
      BY <1>1, <2>1, <2>2 DEF NotApplying
    <3>2. applying.number \in 1 .. Len(published[g])
      BY <1>1, <2>1, <2>2, <3>1 DEF GrantsInv, ApplyingInv
    <3>3. desired[g] \in Pending /\ applying.number = Len(published[g])
      BY <1>1, <2>1, <2>2, <3>2 DEF GrantInv
    <3> QED BY <2>1, <2>2, <3>3
  <2>3. CASE h # g
    BY <1>3, <2>1, <2>3
  <2> QED BY <2>2, <2>3
<1> QED BY <1>3, <1>4, <1>5, <1>6
     DEF GrantAction, RecordReadiness, ExpireSnapshot, BeginApply, AbortApply, grantVars, planeVars

LEMMA KnownStep == IntakeInv /\ KnownInv /\ [Next]_vars => KnownInv'
<1> SUFFICES ASSUME IntakeInv, KnownInv, [Next]_vars PROVE KnownInv'
  OBVIOUS
<1>1. GrantTypes /\ GrantsInv /\ TypeOK
  BY TypesByPart DEF IntakeInv
<1>2. ASSUME SameGrants PROVE KnownInv'
  BY <1>2 DEF SameGrants, grantVars, planeVars, KnownInv, StateOf
<1>3. CASE Next
  BY <1>1, <1>2, <1>3, StepKinds, KnownUnderGrant, RequestFrame, ProjectionFrame
<1>4. CASE UNCHANGED vars
  BY <1>2, <1>4 DEF vars, SameGrants
<1> QED BY <1>3, <1>4

LEMMA NewStep == IntakeInv /\ NewInv /\ [Next]_vars => NewInv'
<1> SUFFICES ASSUME IntakeInv, NewInv, [Next]_vars PROVE NewInv'
  OBVIOUS
<1>1. TypeOK /\ RequestTypes
  BY TypesByPart DEF IntakeInv
<1>2. ASSUME SameRequests PROVE NewInv'
  BY <1>2 DEF SameRequests, requestVars, NewInv
<1>3. ASSUME NEW r \in Requests, RequestStep(r) PROVE NewInv'
  <2>1. phase'[r] # "new"
    <3>1. ASSUME NEW a, End(r, a) PROVE phase'[r] # "new"
      BY <1>1, <3>1 DEF End, RequestTypes
    <3>2. CASE EndAction(r)
      BY <3>1, <3>2 DEF EndAction, Replay, PreserveConflict, Accept, PreserveRejection,
                        LoseRejection, FailRequest
    <3>3. CASE EnterAction(r)
      BY <1>1, <3>3, EnterKinds DEF Enter, RequestTypes
    <3>4. CASE ReadCoverage(r) \/ AllocatePosition(r)
      BY <1>1, <3>4 DEF ReadCoverage, AllocatePosition, RequestTypes
    <3>5. CASE \E o \in Observation : Receive(r, o)
      BY <1>1, <3>5 DEF Receive, RequestTypes
    <3> QED BY <1>3, <3>2, <3>3, <3>4, <3>5, RequestStepKinds
  <2> QED BY <1>1, <1>3, <2>1, OnlyOneMoves DEF OnlyRequest, NewInv
<1>4. CASE Next
  BY <1>1, <1>2, <1>3, <1>4, StepKinds, GrantActionFrame, ProjectionFrame
<1>5. CASE UNCHANGED vars
  BY <1>2, <1>5 DEF vars, SameRequests
<1> QED BY <1>4, <1>5
-----------------------------------------------------------------------------
(* Every step of intake is a step of the promise, or none of its business.      *)
SameAuthority == InEffect' = InEffect /\ Known' = Known

LEMMA GrantsPromise ==
    ASSUME GrantTypes, GrantsInv, KnownInv, NEW g \in Grants, GrantAction(g)
    PROVE  Promise!Change(g) \/ Promise!Learn(g) \/ UNCHANGED Promise!promiseVars
<1>1. UNCHANGED <<report, answer, outcomes, next, projections>>
  BY GrantActionFrame DEF SameRequests, SameOutcomes, SameProjections, requestVars, prefixVars,
     projectionVars
<1>2. \A h \in Grants : applied[h] <= Len(published[h]) /\ Grows(h)
  BY SnapshotsGrow DEF GrantsInv, GrantInv
<1>7. /\ InEffect[g].state = StateOf(g, applied[g]) /\ InEffect[g].number = applied[g]
      /\ Known[g] = KnownState(effective[g])
  BY DEF InEffect, Known
<1>8. /\ published[g] \in Seq({"active", "revoked"}) /\ Len(published[g]) \in Nat
      /\ applied[g] \in Nat /\ applied[g] <= Len(published[g])
  BY <1>2 DEF GrantTypes
<1>3. ASSUME applied' = applied PROVE InEffect' = InEffect
  <2>1. \A h \in Grants : StateOf(h, applied[h])' = StateOf(h, applied[h])
    BY <1>2, <1>3, StateKept
  <2> QED BY <1>3, <2>1 DEF InEffect
<1>4. ASSUME applied' = applied, effective' = effective PROVE UNCHANGED Promise!promiseVars
  BY <1>1, <1>3, <1>4 DEF Promise!promiseVars, Known
<1>5. ASSUME NEW n \in 1 .. MaxSnapshots, AcceptApplicationReceipt(g, n) PROVE Promise!Learn(g)
  <2>1. /\ published' = published /\ applied' = applied
        /\ n = Len(published[g]) /\ n \in 1 .. applied[g]
        /\ effective' = [effective EXCEPT ![g] = EffectiveFor(published[g][n])]
    BY <1>5 DEF AcceptApplicationReceipt, IsPending, planeVars
  <2>2. applied[g] = n /\ n # 0 /\ n \in 1 .. Len(published[g])
    BY <1>8, <2>1
  <2>3. KnownState(EffectiveFor(published[g][n])) = StateOf(g, applied[g])
    <3>1. published[g][n] \in {"active", "revoked"}
      BY <1>8, <2>2
    <3> QED BY <2>2, <3>1 DEF KnownState, EffectiveFor, StateOf
  <2>4. Known' = [Known EXCEPT ![g] = InEffect[g].state]
    BY <1>7, <2>1, <2>3 DEF Known, GrantTypes
  <2> QED BY <1>1, <1>3, <2>1, <2>4 DEF Promise!Learn, Promise!recordVars
<1>6. ASSUME FinishApply(g) PROVE Promise!Change(g)
  <2>1. /\ published' = published /\ effective' = effective
        /\ applying.grant = g /\ applying.number = applied[g] + 1
        /\ applied' = [applied EXCEPT ![g] = applied[g] + 1]
        /\ StateOf(g, applied[g] + 1) # StateOf(g, applied[g])
        /\ applied[g] = 0 => StateOf(g, applied[g] + 1) = "active"
    BY <1>6 DEF FinishApply, ValidTransition, grantVars
  <2>2. applied[g] \in Nat /\ applied[g] + 1 # 0
    BY DEF GrantTypes
  <2>3. applying # NotApplying
    BY <2>1, <2>2 DEF NotApplying
  <2>4. applied[g] + 1 \in 1 .. Len(published[g])
    BY <2>1, <2>3 DEF GrantsInv, ApplyingInv, GrantTypes
  <2>5. applied[g] # Len(published[g])
    BY <2>2, <2>4
  <2>6. Known[g] = InEffect[g].state
    BY <1>7, <2>5 DEF KnownInv
  <2>7. published[g][applied[g] + 1] \in {"active", "revoked"}
    BY <1>8, <2>4
  <2>8. applied[g] # 0 => published[g][applied[g]] \in {"active", "revoked"}
    BY <1>8
  <2>9. StateOf(g, applied[g] + 1) =
            IF StateOf(g, applied[g]) = "active" THEN "revoked" ELSE "active"
    BY <2>1, <2>2, <2>7, <2>8 DEF StateOf
  <2>10. InEffect' = [InEffect EXCEPT ![g] =
             [state |-> StateOf(g, applied[g] + 1), number |-> applied[g] + 1]]
    BY <2>1 DEF InEffect, StateOf, GrantTypes
  <2>11. Known' = Known
    BY <2>1 DEF Known
  <2>12. InEffect' = [InEffect EXCEPT ![g] =
             [state |-> IF @.state = "active" THEN "revoked" ELSE "active",
              number |-> @.number + 1]]
    BY <1>7, <2>9, <2>10
  <2> QED BY <1>1, <2>6, <2>11, <2>12 DEF Promise!Change, Promise!recordVars
<1> QED BY <1>4, <1>5, <1>6
     DEF GrantAction, RecordReadiness, PublishSnapshot, ExpireSnapshot, BeginApply, AbortApply,
         grantVars, planeVars

(* What a transaction writes is the outcome the promise puts at the next position. *)
LEMMA PreserveIsPut ==
    ASSUME next \in Nat \ {0}, NEW r \in Requests, NEW kind, NEW under,
           Preserve(r, kind, next, under)
    PROVE  Promise!Put(kind, report[r], under)
<1>1. next - 1 + 1 = next /\ next + 1 - 1 = next
  OBVIOUS
<1>2. /\ outcomes' = outcomes \union
            {[position |-> next, kind |-> kind, report |-> report[r], under |-> under]}
      /\ next' = next + 1
  BY DEF Preserve
<1>3. next' - 1 = next - 1 + 1
  BY <1>1, <1>2
<1> QED BY <1>1, <1>2, <1>3 DEF Promise!Put

LEMMA EndIsTell ==
    ASSUME NEW r \in Requests, answer[r] = "none", NEW a, End(r, a)
    PROVE  Promise!Tell(r, a)
<1>1. SameAuthority
  BY DEF End, SameAuthority, InEffect, Known, StateOf, grantVars, planeVars
<1> QED BY <1>1 DEF End, Promise!Tell, Promise!authorityVars, SameAuthority, projectionVars

LEMMA ClashIsCandidate ==
    ASSUME NEW r \in Requests, NEW o \in Accepted
    PROVE  Promise!Clash(o, report[r]) <=> o \in Candidates(r)
  BY DEF Promise!Clash, Candidates

LEMMA ReceiptsAreAccepted == Promise!Receipts = Accepted
  BY DEF Promise!Receipts, Accepted

LEMMA EndPromise ==
    ASSUME IntakeInv, NEW r \in Requests, EndAction(r)
    PROVE  \/ \E o \in Observation : Promise!TellAccepted(r, o)
           \/ Promise!TellReplayed(r) \/ Promise!TellConflict(r) \/ Promise!TellRefused(r)
<1>1. next \in Nat \ {0} /\ ProgressInv(r) /\ RequestInv(r)
  BY TypesByPart DEF IntakeInv, PrefixTypes, RequestsInv
<1>2. answer[r] = "none"
  BY <1>1 DEF ProgressInv, EndAction, Replay, PreserveConflict, Accept, PreserveRejection,
              LoseRejection, FailRequest, Locked
<1>3. ASSUME NEW a, End(r, a) PROVE Promise!Tell(r, a)
  BY <1>2, <1>3, EndIsTell
<1>4. ASSUME UNCHANGED prefixVars PROVE UNCHANGED Promise!recordVars
  BY <1>4 DEF prefixVars, Promise!recordVars
<1>5. ASSUME Replay(r) PROVE Promise!TellReplayed(r)
  <2>1. \E o \in Accepted : o.report = report[r]
    BY <1>5 DEF Replay, Candidates, Exact
  <2> QED BY <1>3, <1>4, <1>5, <2>1, ReceiptsAreAccepted DEF Replay, Promise!TellReplayed
<1>6. ASSUME PreserveConflict(r) PROVE Promise!TellConflict(r)
  <2>1. Candidates(r) # {} /\ \A o \in Candidates(r) : o.report # report[r]
    BY <1>6 DEF PreserveConflict, Exact
  <2>2. \E p \in Promise!Receipts : Promise!Clash(p, report[r])
    BY <2>1, ReceiptsAreAccepted, ClashIsCandidate DEF Candidates
  <2>3. \A p \in Promise!Receipts : p.report # report[r]
    BY <2>1, ReceiptsAreAccepted DEF Candidates
  <2>4. Promise!Put("conflict", report[r], 0) /\ Promise!Tell(r, "conflict")
    BY <1>1, <1>3, <1>6, PreserveIsPut DEF PreserveConflict
  <2> QED BY <2>2, <2>3, <2>4 DEF Promise!TellConflict
<1>7. ASSUME Accept(r) PROVE report[r] \in Observation /\ Promise!TellAccepted(r, report[r])
  <2> DEFINE g == report[r].grant
  <2>1. /\ phase[r] = "allocated" /\ Preserve(r, "accepted", position[r], seen[r])
        /\ End(r, "accepted")
    BY <1>7 DEF Accept
  <2>2. /\ report[r] \in Observation /\ StateOf(g, seen[r]) = "active" /\ applied[g] = seen[r]
        /\ InReach(r) /\ Candidates(r) = {} /\ position[r] = next
    BY <1>1, <2>1 DEF RequestInv, ProgressInv, Reporting, Cleared, Sharing, Locked
  <2>3. InEffect[g].state = "active" /\ InEffect[g].number = seen[r]
    BY <2>2, IntakeAssumption DEF InEffect
  <2>4. Promise!Reachable(report[r])
    BY <2>2, ReceiptsAreAccepted DEF InReach, Promise!Reachable
  <2>5. \A p \in Promise!Receipts : ~ Promise!Clash(p, report[r])
    BY <2>2, ReceiptsAreAccepted, ClashIsCandidate
  <2>6. Promise!Put("accepted", report[r], seen[r]) /\ Promise!Tell(r, "accepted")
    BY <1>1, <1>3, <2>1, <2>2, PreserveIsPut
  <2> QED BY <2>2, <2>3, <2>4, <2>5, <2>6 DEF Promise!TellAccepted
<1>8. ASSUME PreserveRejection(r) PROVE Promise!TellRefused(r)
  <2>1. Promise!Put("rejected", report[r], 0) /\ Promise!Tell(r, "rejected")
    BY <1>1, <1>3, <1>8, PreserveIsPut DEF PreserveRejection
  <2> QED BY <2>1 DEF Promise!TellRefused
<1>9. ASSUME LoseRejection(r) \/ FailRequest(r) PROVE Promise!TellRefused(r)
  <2>1. Promise!Tell(r, "rejected") \/ Promise!Tell(r, "unavailable")
    BY <1>3, <1>9 DEF LoseRejection, FailRequest
  <2> QED BY <1>4, <1>9, <2>1 DEF LoseRejection, FailRequest, Promise!TellRefused
<1> QED BY <1>5, <1>6, <1>7, <1>8, <1>9 DEF EndAction

LEMMA RequestsPromise ==
    ASSUME IntakeInv, NewInv, NEW r \in Requests, RequestStep(r)
    PROVE  Promise!PromiseNext \/ UNCHANGED Promise!promiseVars
<1>1. SameAuthority /\ projections' = projections
  BY RequestFrame DEF SameGrants, SameProjections, SameAuthority, InEffect, Known, StateOf,
                      grantVars, planeVars, projectionVars
<1>2. ASSUME UNCHANGED <<report, answer, outcomes, next>>
      PROVE  UNCHANGED Promise!promiseVars
  BY <1>1, <1>2 DEF Promise!promiseVars, SameAuthority
<1>3. ASSUME NEW o \in Observation, Receive(r, o) PROVE Promise!Send(r, o)
  <2>1. report[r] = NoReport /\ answer[r] = "none"
    BY <1>3 DEF Receive, NewInv, IntakeInv, ProgressInv
  <2>2. UNCHANGED <<answer, outcomes, next>>
    BY <1>3 DEF Receive, prefixVars
  <2>3. report' = [report EXCEPT ![r] = o]
    BY <1>3 DEF Receive
  <2> QED BY <1>1, <2>1, <2>2, <2>3 DEF Promise!Send, Promise!authorityVars,
             Promise!recordVars, SameAuthority
<1>4. ASSUME EnterAction(r) \/ ReadCoverage(r) \/ AllocatePosition(r)
      PROVE  UNCHANGED <<report, answer, outcomes, next>>
  BY <1>4, EnterKinds DEF Enter, ReadCoverage, AllocatePosition, prefixVars
<1> QED BY <1>2, <1>3, <1>4, EndPromise, RequestStepKinds DEF Promise!PromiseNext

LEMMA ProjectionsPromise ==
    ASSUME IntakeInv, ProjectionAction
    PROVE  Promise!Read \/ UNCHANGED Promise!promiseVars
<1>1. SameAuthority /\ UNCHANGED <<report, answer, outcomes, next>>
  BY ProjectionFrame DEF SameGrants, SameRequests, SameOutcomes, SameAuthority, InEffect, Known,
     StateOf, grantVars, planeVars, requestVars, prefixVars
<1>2. ASSUME CreateProjection PROVE Promise!Read
  <2>1. PrefixTypes /\ PositionsInv /\ next \in Nat \ {0} /\ cutoff \in Nat
    BY TypesByPart DEF IntakeInv, PrefixTypes, ProjectionTypes
  <2>2. cutoff = next - 1
    BY <1>2, <2>1 DEF CreateProjection, PositionsInv
  <2>3. UpTo(cutoff) = outcomes
    <3>1. \A o \in outcomes : o.position <= cutoff
      BY <2>1, <2>2, PositionsBelow
    <3> QED BY <3>1 DEF UpTo
  <2>4. \A i \in DOMAIN projections : projections[i].cutoff < next - 1
    <3>1. ASSUME NEW i \in DOMAIN projections
          PROVE  projections[i].cutoff \in Nat /\ projections[i].cutoff < next
                 /\ projections[i].cutoff # cutoff
      BY <1>2, <2>1, <3>1, CutoffTypes, TypesByPart DEF PositionsInv, CreateProjection, IntakeInv
    <3> QED BY <2>1, <2>2, <3>1
  <2>5. projections' = Append(projections, [cutoff |-> next - 1, outcomes |-> outcomes])
    BY <1>2, <2>2, <2>3 DEF CreateProjection
  <2> QED BY <1>1, <2>4, <2>5 DEF Promise!Read, Promise!authorityVars, Promise!recordVars,
             SameAuthority
<1>3. ASSUME projections' = projections PROVE UNCHANGED Promise!promiseVars
  BY <1>1, <1>3 DEF Promise!promiseVars, SameAuthority
<1> QED BY <1>2, <1>3 DEF ProjectionAction, CaptureCutoff, EndProjection

LEMMA StepPromise ==
    IntakeInv /\ KnownInv /\ NewInv /\ [Next]_vars => [Promise!PromiseNext]_(Promise!promiseVars)
<1> SUFFICES ASSUME IntakeInv, KnownInv, NewInv, [Next]_vars
             PROVE  Promise!PromiseNext \/ UNCHANGED Promise!promiseVars
  OBVIOUS
<1>1. GrantTypes /\ GrantsInv /\ TypeOK
  BY TypesByPart DEF IntakeInv
<1>2. CASE \E g \in Grants : GrantAction(g)
  BY <1>1, <1>2, GrantsPromise DEF Promise!PromiseNext
<1>3. CASE \E r \in Requests : RequestStep(r)
  BY <1>3, RequestsPromise
<1>4. CASE ProjectionAction
  BY <1>4, ProjectionsPromise DEF Promise!PromiseNext
<1>5. CASE UNCHANGED vars
  BY <1>5 DEF vars, grantVars, planeVars, requestVars, prefixVars, projectionVars,
              Promise!promiseVars, InEffect, Known, StateOf
<1> QED BY <1>1, <1>2, <1>3, <1>4, <1>5, StepKinds

LEMMA InitPromise == Init => Promise!PromiseInit /\ KnownInv /\ NewInv
<1> SUFFICES ASSUME Init PROVE Promise!PromiseInit /\ KnownInv /\ NewInv
  OBVIOUS
<1>1. InEffect = [g \in Grants |-> [state |-> "none", number |-> 0]]
  BY DEF Init, InEffect, StateOf
<1>2. Known = [g \in Grants |-> "none"]
  BY DEF Init, Known, KnownState
<1>3. KnownInv /\ NewInv
  BY DEF Init, KnownInv, KnownState, StateOf, NewInv
<1> QED BY <1>1, <1>2, <1>3 DEF Init, Promise!PromiseInit

(* Intake implements IntakePromise: with every interleaving of locks, readings and       *)
(* rollbacks, each report is answered at one instant, truly, and under the authority of     *)
(* that instant, which is never two changes ahead of the Kernel.                             *)
THEOREM IntakeKeepsPromise == Spec => ImplementsPromise
<1>1. IntakeInv /\ KnownInv /\ NewInv /\ [Next]_vars => KnownInv' /\ NewInv'
  BY KnownStep, NewStep
<1> QED BY InitPromise, IntakeInvariant, <1>1, StepPromise, PTL
        DEF Spec, ImplementsPromise, Promise!PromiseSpec
=============================================================================
