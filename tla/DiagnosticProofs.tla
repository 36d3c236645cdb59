-------------------------- MODULE DiagnosticProofs --------------------------
(***************************************************************************)
(* Assignments, claims, Worker Runs and erasures, for any number of            *)
(* revisions, artifacts, authorizations and invocations of the runner.          *)
(***************************************************************************)
EXTENDS DiagnosticDispatch, TLAPS

(* Nothing is created before it is asked for: no Assignment without its stage, *)
(* no stage beyond the latest package, no slot without its consistency test.     *)
StagesFresh ==
    /\ \A n \in Revisions : n > latest => stage[n] = "absent"
    /\ \A n \in Revisions :
            stage[n] \in {"absent", "pending"} => assignment[Default(n)] = "none"
    /\ \A n \in Revisions : n \notin tested =>
            \A i \in 2 .. 4 : assignment[<<n, i>>] = "none"

(* A Worker Run has an authorization, and that an Assignment.                 *)
RunsAuthorized ==
    /\ \A k \in issued : target[k] \in Assignments
    /\ \A k \in Authorizations : run[k] # "none" => k \in issued

(* An Assignment is cancelled only for a package that lost material.          *)
CancelledIsInadmissible ==
    \A a \in Assignments : assignment[a] = "cancelled" => ~Admissible(PackageOf(a))

(* What was replaced has expired, and nothing else replaces it.               *)
ReplacedExpired ==
    \A n \in Revisions : stage[n] = "created" /\ replaces[n] # Nothing =>
        /\ assignment[replaces[n]] = "expired"
        /\ \A o \in Revisions :
              stage[o] = "created" /\ replaces[o] = replaces[n] => o = n

(* An invocation has asked the provider exactly if its grant is spent and the  *)
(* answer is there, and only an answered invocation is collected.                *)
OneRequest ==
    \A c \in Calls :
        /\ runner[c] = "none" => worker[c] = "none" /\ c \notin consumed /\ requests[c] = 0
        /\ worker[c] = "started" => c \notin consumed /\ requests[c] = 0
        /\ worker[c] = "asked" => c \in consumed /\ requests[c] = 0
        /\ worker[c] = "answered" => c \in consumed /\ requests[c] = 1
        /\ runner[c] = "collected" => worker[c] = "none" /\ requests[c] = 1

Delivered ==
    \A k \in Authorizations : run[k] = "completed" =>
        /\ diagnosis[k] = recorded[k] /\ recorded[k] \in Invocations(k)
        /\ runner[<<k, recorded[k]>>] = "collected"

IInv == /\ TypeOK /\ StagesFresh /\ RunsAuthorized /\ OneRunPerAssignment
        /\ UnclaimedIsAdmissible /\ CancelledIsInadmissible /\ ReplacedExpired
        /\ OneRequest /\ Delivered /\ BytesMatchRestriction
-----------------------------------------------------------------------------
LEMMA CallFacts ==
    ASSUME NEW k \in Authorizations, NEW i \in Invocations(k)
    PROVE  <<k, i>> \in Calls /\ i \in Nat
<1>1. MaxInvocations[k] \in Nat
  BY DispatchAssumption
<1>2. <<k, i>> \in {k} \X Invocations(k)
  OBVIOUS
<1> QED BY <1>1, <1>2 DEF Calls, Invocations

LEMMA AssignmentFacts ==
    /\ \A a \in Assignments : PackageOf(a) \in Revisions /\ a = <<PackageOf(a), a[2]>>
                              /\ a[2] \in 1 .. 4
    /\ \A n \in Revisions : Default(n) \in Assignments /\ PackageOf(Default(n)) = n
    /\ \A n \in Revisions : \A i \in 2 .. 4 :
            <<n, i>> \in Assignments /\ PackageOf(<<n, i>>) = n
  BY DEF Assignments, PackageOf, Default

LEMMA RevisionFacts ==
    MaxRevision \in Nat /\ Revisions = 0 .. MaxRevision /\ Revisions \subseteq Nat
  BY DispatchAssumption DEF Revisions

LEMMA ErasuresKnown == Erasures \subseteq Artifacts
  BY DispatchAssumption

(* Steps that change nothing of the case but how far a claimed run has got.   *)
CaseQuiet ==
    /\ UNCHANGED <<latest, stage, replaces, assignment, tested, restriction, target, issued>>
    /\ \A k \in Authorizations : run'[k] = "none" <=> run[k] = "none"

CaseStep ==
    \/ \E n \in Revisions : CreateAssignment(n) \/ ReplaceAssignment(n)
                            \/ SkipReplacement(n) \/ FailAssignmentStage(n)
    \/ \E replace \in BOOLEAN : ReviseEvidence(replace)
    \/ \E k \in Authorizations : RegisterConsistencyTest(k) \/ IssueAuthorization(k) \/ Claim(k)
    \/ \E k \in Authorizations, a \in Assignments : EvaluateEligibility(k, a)
    \/ \E m \in Artifacts : RequestErasure(m) \/ SealAbsence(m)

LEMMA CaseFrame == TypeOK /\ [Next]_vars => CaseStep \/ CaseQuiet
<1> SUFFICES ASSUME TypeOK, [Next]_vars, ~CaseStep PROVE CaseQuiet
  OBVIOUS
<1> USE DEF caseVars, materialVars, kernelVars, invocationVars
<1>1. ASSUME NEW k \in Authorizations, AuthorizeLaunch(k) PROVE CaseQuiet
  BY <1>1 DEF AuthorizeLaunch, CaseQuiet, TypeOK
<1>2. ASSUME NEW k \in Authorizations, NEW i \in Invocations(k), RecordStarted(k, i)
      PROVE CaseQuiet
  BY <1>2 DEF RecordStarted, CaseQuiet, TypeOK
<1>3. ASSUME NEW k \in Authorizations, NEW i \in Invocations(k), Complete(k, i)
      PROVE CaseQuiet
  BY <1>3 DEF Complete, CaseQuiet, TypeOK
<1>4. ASSUME NEW k \in Authorizations, NEW i \in Invocations(k),
             \/ StartRunner(k, i) \/ ConsumeGrant(k, i) \/ ProviderAnswers(k, i)
             \/ CollectOutput(k, i) \/ AbortRunner(k, i) \/ CrashRunner(k, i)
      PROVE CaseQuiet
  BY <1>4 DEF StartRunner, ConsumeGrant, ProviderAnswers, CollectOutput, AbortRunner,
              CrashRunner, CaseQuiet
<1>5. ASSUME NEW m \in Artifacts, RemoveBytes(m) PROVE CaseQuiet
  BY <1>5 DEF RemoveBytes, CaseQuiet
<1>6. CASE UNCHANGED vars
  BY <1>6 DEF vars, CaseQuiet
<1> QED BY <1>1, <1>2, <1>3, <1>4, <1>5, <1>6, ErasuresKnown DEF Next, CaseStep

(* Steps that concern neither a run after its claim nor the runner.           *)
RunQuiet == UNCHANGED <<recorded, diagnosis, runner, worker, consumed, requests>>

LEMMA RunFrame ==
    [Next]_vars =>
        \/ RunQuiet /\ run' = run
        \/ \E k \in Authorizations : Claim(k) \/ AuthorizeLaunch(k)
        \/ \E k \in Authorizations : \E i \in Invocations(k) :
              \/ StartRunner(k, i) \/ RecordStarted(k, i) \/ ConsumeGrant(k, i)
              \/ ProviderAnswers(k, i) \/ CollectOutput(k, i) \/ AbortRunner(k, i)
              \/ CrashRunner(k, i) \/ Complete(k, i)
<1> SUFFICES ASSUME [Next]_vars PROVE
        \/ RunQuiet /\ run' = run
        \/ \E k \in Authorizations : Claim(k) \/ AuthorizeLaunch(k)
        \/ \E k \in Authorizations : \E i \in Invocations(k) :
              \/ StartRunner(k, i) \/ RecordStarted(k, i) \/ ConsumeGrant(k, i)
              \/ ProviderAnswers(k, i) \/ CollectOutput(k, i) \/ AbortRunner(k, i)
              \/ CrashRunner(k, i) \/ Complete(k, i)
  OBVIOUS
<1> USE DEF caseVars, materialVars, kernelVars, invocationVars, RunQuiet
<1>1. ASSUME NEW n \in Revisions, \/ CreateAssignment(n) \/ ReplaceAssignment(n)
                                  \/ SkipReplacement(n) \/ FailAssignmentStage(n)
      PROVE RunQuiet /\ run' = run
  BY <1>1 DEF CreateAssignment, ReplaceAssignment, SkipReplacement, FailAssignmentStage
<1>2. ASSUME NEW replace \in BOOLEAN, ReviseEvidence(replace) PROVE RunQuiet /\ run' = run
  BY <1>2 DEF ReviseEvidence
<1>3. ASSUME NEW k \in Authorizations, RegisterConsistencyTest(k) \/ IssueAuthorization(k)
      PROVE RunQuiet /\ run' = run
  BY <1>3 DEF RegisterConsistencyTest, IssueAuthorization
<1>4. ASSUME NEW k \in Authorizations, NEW a \in Assignments, EvaluateEligibility(k, a)
      PROVE RunQuiet /\ run' = run
  BY <1>4 DEF EvaluateEligibility
<1>5. ASSUME NEW m \in Artifacts, RequestErasure(m) \/ RemoveBytes(m) \/ SealAbsence(m)
      PROVE RunQuiet /\ run' = run
  BY <1>5 DEF RequestErasure, RemoveBytes, SealAbsence
<1>6. CASE UNCHANGED vars
  BY <1>6 DEF vars
<1>7. CASE Next
  BY <1>1, <1>2, <1>3, <1>4, <1>5, <1>7, ErasuresKnown DEF Next
<1> QED BY <1>6, <1>7
-----------------------------------------------------------------------------
LEMMA InitIInv == Init => IInv
<1> SUFFICES ASSUME Init PROVE IInv
  OBVIOUS
<1> USE DispatchAssumption, RevisionFacts, AssignmentFacts
<1>1. TypeOK
  BY DEF Init, TypeOK, StageOutcome, AssignmentState, RunState
<1>2. StagesFresh
  BY DEF Init, StagesFresh
<1>3. RunsAuthorized /\ OneRunPerAssignment
  BY DEF Init, RunsAuthorized, OneRunPerAssignment
<1>4. UnclaimedIsAdmissible /\ CancelledIsInadmissible /\ ReplacedExpired
  BY DEF Init, UnclaimedIsAdmissible, CancelledIsInadmissible, ReplacedExpired, Unclaimed
<1>5. OneRequest /\ Delivered
  BY DEF Init, OneRequest, Delivered
<1>6. BytesMatchRestriction
  BY DEF Init, BytesMatchRestriction
<1> QED BY <1>1, <1>2, <1>3, <1>4, <1>5, <1>6 DEF IInv
-----------------------------------------------------------------------------
LEMMA TypeStep == TypeOK /\ RunsAuthorized /\ [Next]_vars => TypeOK'
<1> SUFFICES ASSUME TypeOK, RunsAuthorized, [Next]_vars PROVE TypeOK'
  OBVIOUS
<1> USE DEF caseVars, materialVars, kernelVars, invocationVars, StageOutcome,
            AssignmentState, RunState
<1>1. ASSUME NEW n \in Revisions, CreateAssignment(n) PROVE TypeOK'
  BY <1>1, AssignmentFacts DEF CreateAssignment, TypeOK
<1>2. ASSUME NEW n \in Revisions, ReplaceAssignment(n) PROVE TypeOK'
  BY <1>2, AssignmentFacts DEF ReplaceAssignment, TypeOK
<1>3. ASSUME NEW n \in Revisions, SkipReplacement(n) \/ FailAssignmentStage(n)
      PROVE TypeOK'
  BY <1>3 DEF SkipReplacement, FailAssignmentStage, TypeOK
<1>4. ASSUME NEW replace \in BOOLEAN, ReviseEvidence(replace) PROVE TypeOK'
  BY <1>4, DispatchAssumption DEF ReviseEvidence, Unclaimed, TypeOK
<1>5. ASSUME NEW k \in Authorizations, RegisterConsistencyTest(k) PROVE TypeOK'
  <2>1. PackageOf(target[k]) \in Revisions
    BY <1>5, AssignmentFacts DEF RegisterConsistencyTest, RunsAuthorized
  <2> QED BY <1>5, <2>1 DEF RegisterConsistencyTest, TypeOK
<1>6. ASSUME NEW k \in Authorizations, NEW a \in Assignments, EvaluateEligibility(k, a)
      PROVE TypeOK'
  BY <1>6 DEF EvaluateEligibility, TypeOK
<1>7. ASSUME NEW k \in Authorizations, IssueAuthorization(k) \/ Claim(k) \/ AuthorizeLaunch(k)
      PROVE TypeOK'
  BY <1>7 DEF IssueAuthorization, Claim, AuthorizeLaunch, TypeOK
<1>8. ASSUME NEW k \in Authorizations, NEW i \in Invocations(k),
             StartRunner(k, i) \/ RecordStarted(k, i) \/ Complete(k, i)
      PROVE TypeOK'
  <2>1. i \in Nat /\ <<k, i>> \in Calls
    BY CallFacts
  <2>2. CASE StartRunner(k, i)
    BY <2>1, <2>2 DEF StartRunner, TypeOK
  <2>3. CASE RecordStarted(k, i)
    BY <2>1, <2>3 DEF RecordStarted, TypeOK
  <2>4. CASE Complete(k, i)
    BY <2>1, <2>4 DEF Complete, TypeOK
  <2> QED BY <1>8, <2>2, <2>3, <2>4
<1>9. ASSUME NEW k \in Authorizations, NEW i \in Invocations(k),
             \/ ConsumeGrant(k, i) \/ ProviderAnswers(k, i) \/ CollectOutput(k, i)
             \/ AbortRunner(k, i) \/ CrashRunner(k, i)
      PROVE TypeOK'
  <2>1. <<k, i>> \in Calls
    BY CallFacts
  <2>2. CASE ConsumeGrant(k, i)
    BY <2>1, <2>2 DEF ConsumeGrant, TypeOK
  <2>3. CASE ProviderAnswers(k, i)
    BY <2>1, <2>3 DEF ProviderAnswers, TypeOK
  <2>4. CASE CollectOutput(k, i)
    BY <2>1, <2>4 DEF CollectOutput, TypeOK
  <2>5. CASE AbortRunner(k, i) \/ CrashRunner(k, i)
    BY <2>1, <2>5 DEF AbortRunner, CrashRunner, TypeOK
  <2> QED BY <1>9, <2>2, <2>3, <2>4, <2>5
<1>10. ASSUME NEW m \in Artifacts, RequestErasure(m) PROVE TypeOK'
  BY <1>10 DEF RequestErasure, Invalidated, TypeOK
<1>11. ASSUME NEW m \in Artifacts, RemoveBytes(m) \/ SealAbsence(m) PROVE TypeOK'
  BY <1>11 DEF RemoveBytes, SealAbsence, TypeOK
<1>12. CASE UNCHANGED vars
  BY <1>12 DEF vars, TypeOK
<1>13. CASE Next
  BY <1>1, <1>2, <1>3, <1>4, <1>5, <1>6, <1>7, <1>8, <1>9, <1>10, <1>11, <1>13,
     ErasuresKnown DEF Next
<1> QED BY <1>12, <1>13

(* What a step may do to one Assignment.                                      *)
Moves(a) ==
    \/ assignment'[a] = assignment[a]
    \/ assignment[a] = "none" /\ assignment'[a] = "unclaimed" /\ Admissible(PackageOf(a))
    \/ assignment[a] = "unclaimed" /\ assignment'[a] = "expired"
    \/ /\ assignment[a] = "unclaimed" /\ assignment'[a] = "claimed"
       /\ \E k \in Authorizations : Claim(k) /\ a = target[k]
    \/ /\ assignment[a] = "claimed" /\ assignment'[a] = "cancelled"
       /\ \E m \in Artifacts : RequestErasure(m) /\ Impacted(m, a)

LEMMA AssignmentMoves ==
    ASSUME IInv, [Next]_vars PROVE \A a \in Assignments : Moves(a)
<1> USE DEF caseVars, materialVars, kernelVars, invocationVars
<1> DEFINE G == \A a \in Assignments : Moves(a)
<1>1. ASSUME NEW n \in Revisions, CreateAssignment(n) PROVE G
  BY <1>1, AssignmentFacts DEF CreateAssignment, Moves, IInv, TypeOK, StagesFresh
<1>2. ASSUME NEW n \in Revisions, ReplaceAssignment(n) PROVE G
  <2>1. replaces[n] \in Assignments /\ Default(n) \in Assignments
        /\ assignment[Default(n)] = "none" /\ assignment[replaces[n]] = "unclaimed"
    BY <1>2, AssignmentFacts
       DEF ReplaceAssignment, ReplacedUnclaimed, IInv, TypeOK, StagesFresh
  <2> QED BY <1>2, <2>1, AssignmentFacts DEF ReplaceAssignment, Moves, IInv, TypeOK
<1>3. ASSUME NEW k \in Authorizations, RegisterConsistencyTest(k) PROVE G
  <2> DEFINE n == PackageOf(target[k])
  <2>1. n \in Revisions /\ target[k] = Default(n) /\ n \notin tested /\ Admissible(n)
    BY <1>3, AssignmentFacts
       DEF RegisterConsistencyTest, IInv, RunsAuthorized, TypeOK
  <2>2. ASSUME NEW b \in Assignments, PackageOf(b) = n, b # target[k]
        PROVE  assignment[b] = "none"
    <3>1. b = <<n, b[2]>> /\ b[2] \in 1 .. 4
      BY <2>2, AssignmentFacts
    <3>2. b[2] # 1
      BY <3>1, <2>1, <2>2 DEF Default
    <3>3. b[2] \in 2 .. 4
      BY <3>1, <3>2
    <3> QED BY <2>1, <3>1, <3>3 DEF IInv, StagesFresh
  <2> QED BY <1>3, <2>1, <2>2 DEF RegisterConsistencyTest, Moves
<1>4. ASSUME NEW k \in Authorizations, Claim(k) PROVE G
  <2>1. target[k] \in Assignments /\ assignment[target[k]] = "unclaimed"
    BY <1>4 DEF Claim, StillUnclaimed, IInv, RunsAuthorized
  <2> QED BY <1>4, <2>1 DEF Claim, Moves, IInv, TypeOK
<1>5. ASSUME NEW m \in Artifacts, RequestErasure(m) PROVE G
  BY <1>5 DEF RequestErasure, Invalidated, Moves, IInv, TypeOK, AssignmentState
<1>6. CASE UNCHANGED assignment
  BY <1>6 DEF Moves
<1>7. CASE CaseQuiet
  BY <1>6, <1>7 DEF CaseQuiet
<1>8. CASE CaseStep
  <2>1. ASSUME NEW n \in Revisions, SkipReplacement(n) \/ FailAssignmentStage(n)
        PROVE UNCHANGED assignment
    BY <2>1 DEF SkipReplacement, FailAssignmentStage
  <2>2. ASSUME NEW replace \in BOOLEAN, ReviseEvidence(replace) PROVE UNCHANGED assignment
    BY <2>2 DEF ReviseEvidence
  <2>3. ASSUME NEW k \in Authorizations, IssueAuthorization(k) PROVE UNCHANGED assignment
    BY <2>3 DEF IssueAuthorization
  <2>4. ASSUME NEW k \in Authorizations, NEW a \in Assignments, EvaluateEligibility(k, a)
        PROVE UNCHANGED assignment
    BY <2>4 DEF EvaluateEligibility
  <2>5. ASSUME NEW m \in Artifacts, SealAbsence(m) PROVE UNCHANGED assignment
    BY <2>5 DEF SealAbsence
  <2> QED BY <1>1, <1>2, <1>3, <1>4, <1>5, <1>6, <1>8, <2>1, <2>2, <2>3, <2>4, <2>5
          DEF CaseStep
<1> QED BY <1>7, <1>8, CaseFrame DEF IInv

(* What is lost stays lost.                                                   *)
LEMMA RestrictionStays ==
    ASSUME TypeOK, [Next]_vars
    PROVE  /\ \A m \in Artifacts : restriction[m] # "none" => restriction'[m] # "none"
           /\ \A m \in Artifacts : restriction[m] = "none" /\ restriction'[m] # "none"
                    => RequestErasure(m)
<1> USE DEF caseVars, materialVars, kernelVars, invocationVars
<1> DEFINE G ==
       /\ \A m \in Artifacts : restriction[m] # "none" => restriction'[m] # "none"
       /\ \A m \in Artifacts : restriction[m] = "none" /\ restriction'[m] # "none"
                    => RequestErasure(m)
<1>1. ASSUME NEW m \in Artifacts, RequestErasure(m) PROVE G
  <2>1. \A o \in Artifacts : o # m => restriction'[o] = restriction[o]
    BY <1>1 DEF RequestErasure, TypeOK
  <2>2. restriction[m] = "none" /\ restriction'[m] # "none"
    BY <1>1 DEF RequestErasure, TypeOK
  <2> QED BY <1>1, <2>1, <2>2
<1>2. ASSUME NEW m \in Artifacts, SealAbsence(m) PROVE G
  <2>1. \A o \in Artifacts : o # m => restriction'[o] = restriction[o]
    BY <1>2 DEF SealAbsence, TypeOK
  <2>2. restriction[m] # "none" /\ restriction'[m] # "none"
    BY <1>2 DEF SealAbsence, Revoked, TypeOK
  <2> QED BY <2>1, <2>2
<1>3. CASE UNCHANGED restriction
  BY <1>3
<1>4. ASSUME CaseStep, \A m \in Artifacts : ~RequestErasure(m) /\ ~SealAbsence(m)
      PROVE  UNCHANGED restriction
  BY <1>4 DEF CaseStep, CreateAssignment, ReplaceAssignment, SkipReplacement,
              FailAssignmentStage, ReviseEvidence, RegisterConsistencyTest,
              EvaluateEligibility, IssueAuthorization, Claim
<1>5. CaseQuiet => UNCHANGED restriction
  BY DEF CaseQuiet
<1> QED BY <1>1, <1>2, <1>3, <1>4, <1>5, CaseFrame
-----------------------------------------------------------------------------
LEMMA StagesFreshStep == IInv /\ [Next]_vars => StagesFresh'
<1> SUFFICES ASSUME IInv, [Next]_vars PROVE StagesFresh'
  OBVIOUS
<1> USE DEF caseVars, materialVars, kernelVars, invocationVars
<1>1. ASSUME NEW n \in Revisions, n > latest' PROVE stage'[n] = "absent"
  <2>1. stage[n] = "absent" /\ n # latest' /\ n > latest
    <3>1. latest' = latest \/ latest' = latest + 1
      BY CaseFrame DEF CaseStep, CaseQuiet, IInv, CreateAssignment, ReplaceAssignment,
            SkipReplacement, FailAssignmentStage, ReviseEvidence, RegisterConsistencyTest,
            EvaluateEligibility, IssueAuthorization, Claim, RequestErasure, SealAbsence
    <3> QED BY <1>1, <3>1, RevisionFacts DEF IInv, TypeOK, StagesFresh
  <2>2. stage' = stage \/ \E o \in Revisions, s \in StageOutcome :
                /\ stage' = [stage EXCEPT ![o] = s]
                /\ stage[o] = "pending" \/ o = latest'
    <3>1. ASSUME NEW o \in Revisions,
                 \/ CreateAssignment(o) \/ ReplaceAssignment(o)
                 \/ SkipReplacement(o) \/ FailAssignmentStage(o)
          PROVE  stage[o] = "pending" /\ \E s \in StageOutcome :
                                            stage' = [stage EXCEPT ![o] = s]
      BY <3>1 DEF CreateAssignment, ReplaceAssignment, SkipReplacement,
                  FailAssignmentStage, StageOutcome
    <3>2. ASSUME NEW replace \in BOOLEAN, ReviseEvidence(replace)
          PROVE  \/ stage' = stage
                 \/ latest' \in Revisions /\ stage' = [stage EXCEPT ![latest'] = "pending"]
      BY <3>2 DEF ReviseEvidence
    <3>3. "pending" \in StageOutcome
      BY DEF StageOutcome
    <3>4. CASE CaseQuiet
      BY <3>4 DEF CaseQuiet
    <3>5. CASE CaseStep
      BY <3>1, <3>2, <3>3, <3>5 DEF CaseStep, RegisterConsistencyTest,
            EvaluateEligibility, IssueAuthorization, Claim, RequestErasure, SealAbsence
    <3> QED BY <3>4, <3>5, CaseFrame DEF IInv
  <2> QED BY <2>1, <2>2 DEF IInv, TypeOK
<1>2. ASSUME NEW n \in Revisions, stage'[n] \in {"absent", "pending"}
      PROVE  assignment'[Default(n)] = "none"
  <2>1. Default(n) \in Assignments /\ Moves(Default(n))
    BY AssignmentFacts, AssignmentMoves
  <2>2. stage[n] \in {"absent", "pending"}
    <3>1. CASE CaseQuiet
      BY <1>2, <3>1 DEF CaseQuiet
    <3>2. ASSUME NEW o \in Revisions,
                 \/ CreateAssignment(o) \/ ReplaceAssignment(o)
                 \/ SkipReplacement(o) \/ FailAssignmentStage(o)
          PROVE  stage[n] \in {"absent", "pending"}
      BY <1>2, <3>2 DEF CreateAssignment, ReplaceAssignment, SkipReplacement,
                  FailAssignmentStage, IInv, TypeOK
    <3>3. ASSUME NEW replace \in BOOLEAN, ReviseEvidence(replace)
          PROVE  stage[n] \in {"absent", "pending"}
      <4>1. latest + 1 > latest
        BY RevisionFacts DEF IInv, TypeOK
      <4>2. stage[latest + 1] = "absent" /\ latest + 1 \in Revisions
        BY <3>3, <4>1 DEF ReviseEvidence, IInv, StagesFresh
      <4>3. CASE n = latest + 1
        BY <4>2, <4>3
      <4>4. CASE n # latest + 1
        BY <1>2, <3>3, <4>4 DEF ReviseEvidence, IInv, TypeOK
      <4> QED BY <4>3, <4>4
    <3>4. CASE CaseStep
      BY <1>2, <3>2, <3>3, <3>4 DEF CaseStep, RegisterConsistencyTest,
            EvaluateEligibility, IssueAuthorization, Claim, RequestErasure, SealAbsence
    <3> QED BY <3>1, <3>4, CaseFrame DEF IInv
  <2>3. assignment[Default(n)] = "none"
    BY <2>2 DEF IInv, StagesFresh
  <2>4. CASE assignment'[Default(n)] # "none"
    <3> SUFFICES FALSE
      BY <2>4
    <3>1. ASSUME NEW o \in Revisions, CreateAssignment(o) PROVE FALSE
      <4>1. stage'[o] = "created"
        BY <3>1 DEF CreateAssignment, IInv, TypeOK
      <4>2. Default(n) # Default(o)
        BY <1>2, <4>1, AssignmentFacts
      <4> QED BY <2>1, <2>3, <2>4, <3>1, <4>2 DEF CreateAssignment, IInv, TypeOK
    <3>2. ASSUME NEW o \in Revisions, ReplaceAssignment(o) PROVE FALSE
      <4>1. stage'[o] = "created"
        BY <3>2 DEF ReplaceAssignment, IInv, TypeOK
      <4>2. Default(n) # Default(o) /\ Default(n) # replaces[o]
        BY <1>2, <2>3, <3>2, <4>1, AssignmentFacts DEF ReplaceAssignment, ReplacedUnclaimed
      <4>3. assignment'[Default(n)] = assignment[Default(n)]
        BY <2>1, <3>2, <4>2 DEF ReplaceAssignment, IInv, TypeOK
      <4> QED BY <2>3, <2>4, <4>3
    <3>3. ASSUME NEW k \in Authorizations, RegisterConsistencyTest(k) PROVE FALSE
      <4>1. CASE PackageOf(target[k]) = n
        BY <2>1, <2>3, <3>3, <4>1 DEF RegisterConsistencyTest
      <4>2. CASE PackageOf(target[k]) # n
        BY <2>1, <2>3, <2>4, <3>3, <4>2, AssignmentFacts DEF RegisterConsistencyTest
      <4> QED BY <4>1, <4>2
    <3>4. ASSUME NEW k \in Authorizations, Claim(k) PROVE FALSE
      BY <2>1, <2>3, <2>4, <3>4 DEF Claim, StillUnclaimed, IInv, TypeOK
    <3>5. ASSUME NEW m \in Artifacts, RequestErasure(m) PROVE FALSE
      BY <2>1, <2>3, <2>4, <3>5 DEF RequestErasure, Invalidated
    <3>6. UNCHANGED assignment => FALSE
      BY <2>3, <2>4
    <3>7. CASE CaseQuiet
      BY <3>6, <3>7 DEF CaseQuiet
    <3>8. CASE CaseStep
      BY <3>1, <3>2, <3>3, <3>4, <3>5, <3>6, <3>8 DEF CaseStep, SkipReplacement,
         FailAssignmentStage, ReviseEvidence, IssueAuthorization, EvaluateEligibility,
         SealAbsence
    <3> QED BY <3>7, <3>8, CaseFrame DEF IInv
  <2> QED BY <2>4
<1>3. ASSUME NEW n \in Revisions, n \notin tested', NEW i \in 2 .. 4
      PROVE  assignment'[<<n, i>>] = "none"
  <2> DEFINE a == <<n, i>>
  <2> SUFFICES assignment'[a] = "none"
    OBVIOUS
  <2>1. a \in Assignments /\ PackageOf(a) = n /\ \A o \in Revisions : a # Default(o)
    <3>1. i # 1
      OBVIOUS
    <3>2. \A o \in Revisions : a # Default(o)
      BY <3>1 DEF Default
    <3> QED BY <3>2, AssignmentFacts
  <2>2. n \notin tested
    BY <1>3, CaseFrame DEF CaseStep, CaseQuiet, IInv, CreateAssignment, ReplaceAssignment,
            SkipReplacement, FailAssignmentStage, ReviseEvidence, RegisterConsistencyTest,
            EvaluateEligibility, IssueAuthorization, Claim, RequestErasure, SealAbsence
  <2>3. assignment[a] = "none"
    BY <2>2 DEF IInv, StagesFresh
  <2> HIDE DEF a
  <2>4. ASSUME NEW o \in Revisions, CreateAssignment(o) \/ ReplaceAssignment(o)
        PROVE  assignment'[a] = "none"
    <3>1. CASE CreateAssignment(o)
      BY <2>1, <2>3, <3>1 DEF CreateAssignment, IInv, TypeOK
    <3>2. CASE ReplaceAssignment(o)
      <4>1. a # replaces[o]
        BY <2>3, <3>2 DEF ReplaceAssignment, ReplacedUnclaimed
      <4> QED BY <2>1, <2>3, <3>2, <4>1 DEF ReplaceAssignment, IInv, TypeOK
    <3> QED BY <2>4, <3>1, <3>2
  <2>5. ASSUME NEW k \in Authorizations, RegisterConsistencyTest(k)
        PROVE  assignment'[a] = "none"
    BY <1>3, <2>1, <2>3, <2>5 DEF RegisterConsistencyTest
  <2>6. ASSUME NEW k \in Authorizations, Claim(k) PROVE assignment'[a] = "none"
    BY <2>1, <2>3, <2>6 DEF Claim, StillUnclaimed, IInv, TypeOK
  <2>7. ASSUME NEW m \in Artifacts, RequestErasure(m) PROVE assignment'[a] = "none"
    BY <2>1, <2>3, <2>7 DEF RequestErasure, Invalidated
  <2>8. CASE CaseQuiet
    BY <2>3, <2>8 DEF CaseQuiet
  <2>9. CASE CaseStep
    BY <2>3, <2>4, <2>5, <2>6, <2>7, <2>9 DEF CaseStep, SkipReplacement,
       FailAssignmentStage, ReviseEvidence, IssueAuthorization, EvaluateEligibility,
       SealAbsence
  <2> QED BY <2>8, <2>9, CaseFrame DEF IInv
<1> QED BY <1>1, <1>2, <1>3 DEF StagesFresh

LEMMA RunsAuthorizedStep == IInv /\ [Next]_vars => RunsAuthorized'
<1> SUFFICES ASSUME IInv, [Next]_vars PROVE RunsAuthorized'
  OBVIOUS
<1> USE DEF caseVars, materialVars, kernelVars, invocationVars
<1>1. ASSUME NEW k \in Authorizations, NEW a \in Assignments, EvaluateEligibility(k, a)
      PROVE RunsAuthorized'
  BY <1>1, DispatchAssumption DEF EvaluateEligibility, RunsAuthorized, IInv, TypeOK
<1>2. ASSUME NEW k \in Authorizations, IssueAuthorization(k) PROVE RunsAuthorized'
  BY <1>2 DEF IssueAuthorization, RunsAuthorized, IInv, TypeOK
<1>3. ASSUME NEW k \in Authorizations, Claim(k) PROVE RunsAuthorized'
  BY <1>3 DEF Claim, RunsAuthorized, IInv, TypeOK
<1>4. ASSUME UNCHANGED <<target, issued>>,
             \A k \in Authorizations : run'[k] = "none" <=> run[k] = "none"
      PROVE RunsAuthorized'
  BY <1>4 DEF RunsAuthorized, IInv
<1>5. CASE CaseQuiet
  BY <1>4, <1>5 DEF CaseQuiet
<1>6. CASE CaseStep
  BY <1>1, <1>2, <1>3, <1>4, <1>6 DEF CaseStep, CreateAssignment, ReplaceAssignment,
            SkipReplacement, FailAssignmentStage, ReviseEvidence, RegisterConsistencyTest,
            RequestErasure, SealAbsence
<1> QED BY <1>5, <1>6, CaseFrame DEF IInv

(* A run is begun by a claim, and what it is for does not change after that.  *)
LEMMA RunsKeep ==
    ASSUME IInv, [Next]_vars, \A k \in Authorizations : ~Claim(k)
    PROVE  /\ \A k \in Authorizations : run'[k] = "none" <=> run[k] = "none"
           /\ \A k \in Authorizations : run[k] # "none" => target'[k] = target[k]
<1> USE DEF caseVars, materialVars, kernelVars, invocationVars
<1>1. ASSUME NEW k \in Authorizations, NEW a \in Assignments, EvaluateEligibility(k, a)
      PROVE  /\ run' = run
             /\ \A j \in Authorizations : run[j] # "none" => target'[j] = target[j]
  <2>1. run[k] = "none"
    BY <1>1, DispatchAssumption DEF EvaluateEligibility, IInv, RunsAuthorized
  <2> QED BY <1>1, <2>1 DEF EvaluateEligibility, IInv, TypeOK
<1>2. CASE CaseQuiet
  BY <1>2 DEF CaseQuiet
<1>3. CASE CaseStep
  BY <1>1, <1>3 DEF CaseStep, CreateAssignment, ReplaceAssignment,
        SkipReplacement, FailAssignmentStage, ReviseEvidence, RegisterConsistencyTest,
        IssueAuthorization, RequestErasure, SealAbsence
<1> QED BY <1>2, <1>3, CaseFrame DEF IInv

LEMMA OneRunStep == IInv /\ [Next]_vars => OneRunPerAssignment'
<1> SUFFICES ASSUME IInv, [Next]_vars PROVE OneRunPerAssignment'
  OBVIOUS
<1> USE DEF caseVars, materialVars, kernelVars, invocationVars
<1>1. ASSUME NEW k \in Authorizations, Claim(k) PROVE OneRunPerAssignment'
  <2>1. /\ target[k] \in Assignments /\ assignment[target[k]] = "unclaimed"
        /\ target' = target
    BY <1>1 DEF Claim, StillUnclaimed, IInv, RunsAuthorized
  <2>2. \A j \in Authorizations : run[j] # "none" => target[j] # target[k]
    BY <2>1 DEF IInv, OneRunPerAssignment
  <2>3. /\ \A j \in Authorizations : run'[j] # "none" <=> run[j] # "none" \/ j = k
        /\ \A a \in Assignments : a # target[k] => assignment'[a] = assignment[a]
        /\ assignment'[target[k]] = "claimed"
    BY <1>1, <2>1 DEF Claim, IInv, TypeOK
  <2>4. ASSUME NEW a \in Assignments
        PROVE  /\ assignment'[a] \in {"claimed", "cancelled"}
                     <=> \E j \in Authorizations : run'[j] # "none" /\ target'[j] = a
               /\ \A j, l \in Authorizations :
                     run'[j] # "none" /\ run'[l] # "none" /\ target'[j] = a /\ target'[l] = a
                        => j = l
    <3>1. CASE a = target[k]
      <4>1. run'[k] # "none" /\ target'[k] = a /\ assignment'[a] = "claimed"
        BY <2>1, <2>3, <3>1
      <4>2. \A j \in Authorizations : run'[j] # "none" /\ target'[j] = a => j = k
        BY <2>1, <2>2, <2>3, <3>1
      <4> QED BY <4>1, <4>2
    <3>2. CASE a # target[k]
      <4>1. \A j \in Authorizations : run'[j] # "none" /\ target'[j] = a
                                        <=> run[j] # "none" /\ target[j] = a
        BY <2>1, <2>3, <3>2
      <4>2. assignment'[a] = assignment[a]
        BY <2>3, <3>2
      <4> QED BY <4>1, <4>2 DEF IInv, OneRunPerAssignment
    <3> QED BY <3>1, <3>2
  <2> QED BY <2>4 DEF OneRunPerAssignment
<1>2. ASSUME \A k \in Authorizations : ~Claim(k) PROVE OneRunPerAssignment'
  <2>1. \A a \in Assignments : assignment'[a] \in {"claimed", "cancelled"}
                                <=> assignment[a] \in {"claimed", "cancelled"}
    BY <1>2, AssignmentMoves DEF Moves
  <2>2. /\ \A k \in Authorizations : run'[k] = "none" <=> run[k] = "none"
        /\ \A k \in Authorizations : run[k] # "none" => target'[k] = target[k]
    BY <1>2, RunsKeep
  <2> QED BY <2>1, <2>2 DEF IInv, OneRunPerAssignment
<1> QED BY <1>1, <1>2

LEMMA AdmissibleStep ==
    ASSUME IInv, [Next]_vars, NEW n \in Revisions
    PROVE  /\ Admissible(n)' => Admissible(n)
           /\ Admissible(n) /\ ~Admissible(n)' =>
                \E m \in Artifacts : RequestErasure(m) /\ m \in Material[n]
<1>1. \A m \in Material[n] : m \in Artifacts
  BY DispatchAssumption
<1> QED BY <1>1, RestrictionStays DEF Admissible, IInv

LEMMA OfferStep ==
    IInv /\ [Next]_vars => UnclaimedIsAdmissible' /\ CancelledIsInadmissible'
<1> SUFFICES ASSUME IInv, [Next]_vars, NEW a \in Assignments
             PROVE  /\ assignment'[a] = "unclaimed" => Admissible(PackageOf(a))'
                    /\ assignment'[a] = "cancelled" => ~Admissible(PackageOf(a))'
  BY DEF UnclaimedIsAdmissible, CancelledIsInadmissible, Unclaimed
<1> DEFINE n == PackageOf(a)
<1>1. n \in Revisions /\ Moves(a)
  BY AssignmentFacts, AssignmentMoves
<1>2. /\ assignment[a] = "unclaimed" => Admissible(n)
      /\ assignment[a] = "cancelled" => ~Admissible(n)
  BY DEF IInv, UnclaimedIsAdmissible, CancelledIsInadmissible, Unclaimed
<1>3. assignment[a] \in AssignmentState
  BY DEF IInv, TypeOK
<1>4. ASSUME assignment'[a] = "unclaimed" PROVE Admissible(n)'
  <2>1. Admissible(n)
    BY <1>1, <1>2, <1>4 DEF Moves
  <2>2. ASSUME NEW m \in Artifacts, RequestErasure(m), m \in Material[n] PROVE FALSE
    <3>1. assignment'[a] = Invalidated(assignment[a])
      BY <2>2 DEF RequestErasure, Impacted
    <3>2. Invalidated(assignment[a]) # "unclaimed"
      BY <1>3 DEF Invalidated, AssignmentState
    <3> QED BY <1>4, <3>1, <3>2
  <2> QED BY <1>1, <2>1, <2>2, AdmissibleStep
<1>5. ASSUME assignment'[a] = "cancelled" PROVE ~Admissible(n)'
  <2>1. CASE assignment[a] = "cancelled"
    BY <1>1, <1>2, <2>1, AdmissibleStep
  <2>2. CASE assignment[a] # "cancelled"
    <3>1. PICK m \in Artifacts : RequestErasure(m) /\ Impacted(m, a)
      BY <1>1, <1>5, <2>2 DEF Moves
    <3>2. m \in Material[n] /\ restriction'[m] = "revoked_pending_deletion"
      BY <3>1 DEF RequestErasure, Impacted, IInv, TypeOK
    <3> QED BY <3>2 DEF Admissible
  <2> QED BY <2>1, <2>2
<1> QED BY <1>4, <1>5

LEMMA ReplacedStep == IInv /\ [Next]_vars => ReplacedExpired'
<1> SUFFICES ASSUME IInv, [Next]_vars PROVE ReplacedExpired'
  OBVIOUS
<1> USE DEF caseVars, materialVars, kernelVars, invocationVars
<1>1. ASSUME NEW a \in Assignments, assignment[a] = "expired"
      PROVE  assignment'[a] = "expired"
  BY <1>1, AssignmentMoves DEF Moves
<1>2. \A n \in Revisions : replaces[n] # Nothing => replaces[n] \in Assignments
  BY DEF IInv, TypeOK
<1>3. ASSUME NEW n \in Revisions, ReplaceAssignment(n) PROVE ReplacedExpired'
  <2>1. /\ assignment[replaces[n]] = "unclaimed" /\ replaces[n] \in Assignments
        /\ replaces' = replaces
        /\ \A o \in Revisions : stage'[o] = "created" <=> stage[o] = "created" \/ o = n
    BY <1>2, <1>3 DEF ReplaceAssignment, ReplacedUnclaimed, IInv, TypeOK
  <2>2. assignment'[replaces[n]] = "expired"
    BY <1>3, <2>1 DEF ReplaceAssignment, IInv, TypeOK
  <2>3. \A o \in Revisions : stage[o] = "created" => replaces[o] # replaces[n]
    BY <1>3, <2>1 DEF IInv, ReplacedExpired, ReplaceAssignment
  <2> QED BY <1>1, <1>2, <2>1, <2>2, <2>3 DEF IInv, ReplacedExpired
<1>4. ASSUME \A o \in Revisions : stage'[o] = "created" /\ replaces'[o] # Nothing =>
                 stage[o] = "created" /\ replaces'[o] = replaces[o]
      PROVE  ReplacedExpired'
  BY <1>1, <1>2, <1>4 DEF IInv, ReplacedExpired
<1>5. ASSUME NEW n \in Revisions, CreateAssignment(n) PROVE ReplacedExpired'
  BY <1>4, <1>5 DEF CreateAssignment, IInv, TypeOK
<1>6. ASSUME NEW n \in Revisions, SkipReplacement(n) \/ FailAssignmentStage(n)
      PROVE ReplacedExpired'
  BY <1>4, <1>6 DEF SkipReplacement, FailAssignmentStage, IInv, TypeOK
<1>7. ASSUME NEW replace \in BOOLEAN, ReviseEvidence(replace) PROVE ReplacedExpired'
  <2>1. stage[latest + 1] = "absent"
    BY <1>7, RevisionFacts DEF ReviseEvidence, IInv, TypeOK, StagesFresh
  <2>2. \/ stage' = stage /\ replaces' = replaces
        \/ /\ stage' = [stage EXCEPT ![latest + 1] = "pending"]
           /\ \E a \in Unclaimed : replaces' = [replaces EXCEPT ![latest + 1] = a]
    BY <1>7 DEF ReviseEvidence
  <2> QED BY <1>4, <2>1, <2>2 DEF IInv, TypeOK
<1>8. UNCHANGED <<stage, replaces>> => ReplacedExpired'
  BY <1>4
<1>9. CASE CaseQuiet
  BY <1>8, <1>9 DEF CaseQuiet
<1>10. CASE CaseStep
  BY <1>3, <1>5, <1>6, <1>7, <1>8, <1>10 DEF CaseStep, RegisterConsistencyTest,
     IssueAuthorization, EvaluateEligibility, Claim, RequestErasure, SealAbsence
<1> QED BY <1>9, <1>10, CaseFrame DEF IInv
-----------------------------------------------------------------------------
RunnerStep(k, i) ==
    \/ StartRunner(k, i) \/ RecordStarted(k, i) \/ ConsumeGrant(k, i)
    \/ ProviderAnswers(k, i) \/ CollectOutput(k, i) \/ AbortRunner(k, i)
    \/ CrashRunner(k, i) \/ Complete(k, i)

LEMMA OneRequestStep == IInv /\ [Next]_vars => OneRequest'
<1> SUFFICES ASSUME IInv, [Next]_vars PROVE OneRequest'
  OBVIOUS
<1> USE DEF caseVars, materialVars, kernelVars, invocationVars
<1>1. ASSUME UNCHANGED invocationVars PROVE OneRequest'
  BY <1>1 DEF OneRequest, IInv
<1>2. ASSUME NEW k \in Authorizations, NEW i \in Invocations(k), RunnerStep(k, i)
      PROVE  OneRequest'
  <2> DEFINE d == <<k, i>>
  <2>1. d \in Calls
    BY CallFacts
  <2>2. /\ \A c \in Calls : c # d =>
              /\ runner'[c] = runner[c] /\ worker'[c] = worker[c]
              /\ requests'[c] = requests[c] /\ (c \in consumed' <=> c \in consumed)
        /\ runner'[d] = "none" =>
              worker'[d] = "none" /\ d \notin consumed' /\ requests'[d] = 0
        /\ worker'[d] = "started" => d \notin consumed' /\ requests'[d] = 0
        /\ worker'[d] = "asked" => d \in consumed' /\ requests'[d] = 0
        /\ worker'[d] = "answered" => d \in consumed' /\ requests'[d] = 1
        /\ runner'[d] = "collected" => worker'[d] = "none" /\ requests'[d] = 1
    <3>1. /\ runner[d] = "none" =>
                worker[d] = "none" /\ d \notin consumed /\ requests[d] = 0
          /\ worker[d] = "started" => d \notin consumed /\ requests[d] = 0
          /\ worker[d] = "asked" => d \in consumed /\ requests[d] = 0
          /\ worker[d] = "answered" => d \in consumed /\ requests[d] = 1
          /\ runner[d] = "collected" => worker[d] = "none" /\ requests[d] = 1
      BY <2>1 DEF IInv, OneRequest
    <3>2. CASE UNCHANGED invocationVars
      BY <3>1, <3>2
    <3>3. CASE StartRunner(k, i)
      BY <2>1, <3>1, <3>3 DEF StartRunner, IInv, TypeOK
    <3>4. CASE ConsumeGrant(k, i)
      BY <2>1, <3>1, <3>4 DEF ConsumeGrant, IInv, TypeOK
    <3>5. CASE ProviderAnswers(k, i)
      BY <2>1, <3>1, <3>5 DEF ProviderAnswers, IInv, TypeOK
    <3>6. CASE CollectOutput(k, i)
      <4>1. requests' = requests
        BY <2>1, <3>1, <3>6 DEF CollectOutput, GrantUnspent, IInv, TypeOK
      <4> QED BY <2>1, <3>1, <3>6, <4>1 DEF CollectOutput, IInv, TypeOK
    <3>7. CASE AbortRunner(k, i)
      BY <2>1, <3>1, <3>7 DEF AbortRunner, IInv, TypeOK
    <3>8. CASE CrashRunner(k, i)
      BY <2>1, <3>1, <3>8 DEF CrashRunner, IInv, TypeOK
    <3>9. RecordStarted(k, i) \/ Complete(k, i) => UNCHANGED invocationVars
      BY DEF RecordStarted, Complete
    <3> QED BY <1>2, <3>2, <3>3, <3>4, <3>5, <3>6, <3>7, <3>8, <3>9 DEF RunnerStep
  <2> HIDE DEF d
  <2> QED BY <2>2 DEF OneRequest, IInv
<1>3. ASSUME NEW k \in Authorizations, Claim(k) \/ AuthorizeLaunch(k)
      PROVE  UNCHANGED invocationVars
  BY <1>3 DEF Claim, AuthorizeLaunch
<1> QED BY <1>1, <1>2, <1>3, RunFrame DEF RunQuiet, RunnerStep

LEMMA DeliveredStep == IInv /\ [Next]_vars => Delivered'
<1> SUFFICES ASSUME IInv, [Next]_vars PROVE Delivered'
  OBVIOUS
<1> USE DEF caseVars, materialVars, kernelVars, invocationVars
<1>1. ASSUME \A c \in Calls : runner[c] = "collected" => runner'[c] = "collected",
             UNCHANGED <<diagnosis, recorded>>,
             \A k \in Authorizations : run'[k] = "completed" => run[k] = "completed"
      PROVE  Delivered'
  <2>1. \A k \in Authorizations : \A i \in Invocations(k) : <<k, i>> \in Calls
    BY CallFacts
  <2> QED BY <1>1, <2>1 DEF Delivered, IInv
<1>2. CASE RunQuiet /\ run' = run
  BY <1>1, <1>2 DEF RunQuiet
<1>3. ASSUME NEW k \in Authorizations, Claim(k) \/ AuthorizeLaunch(k) PROVE Delivered'
  BY <1>1, <1>3 DEF Claim, AuthorizeLaunch, IInv, TypeOK
<1>4. ASSUME NEW k \in Authorizations, NEW i \in Invocations(k), RunnerStep(k, i)
      PROVE  Delivered'
  <2>1. <<k, i>> \in Calls /\ i \in Nat
    BY CallFacts
  <2>2. CASE RecordStarted(k, i)
    <3>1. /\ run'[k] = "running" /\ runner' = runner
          /\ \A j \in Authorizations : j # k =>
                /\ run'[j] = run[j] /\ recorded'[j] = recorded[j]
                /\ diagnosis'[j] = diagnosis[j]
      BY <2>2 DEF RecordStarted, IInv, TypeOK
    <3> QED BY <3>1 DEF Delivered, IInv
  <2>3. CASE Complete(k, i)
    <3>1. /\ recorded' = recorded /\ runner' = runner /\ diagnosis'[k] = i
          /\ recorded[k] = i /\ runner[<<k, i>>] = "collected"
          /\ \A j \in Authorizations : j # k =>
                run'[j] = run[j] /\ diagnosis'[j] = diagnosis[j]
      BY <2>3 DEF Complete, IInv, TypeOK
    <3> QED BY <3>1 DEF Delivered, IInv
  <2>4. ASSUME UNCHANGED <<run, recorded, diagnosis>>,
               runner' = runner \/ \E s \in {"attending", "collected", "ended"} :
                            /\ runner[<<k, i>>] # "collected"
                            /\ runner' = [runner EXCEPT ![<<k, i>>] = s]
        PROVE  Delivered'
    BY <1>1, <2>1, <2>4 DEF IInv, TypeOK
  <2>5. CASE StartRunner(k, i)
    BY <2>4, <2>5 DEF StartRunner
  <2>6. CASE ConsumeGrant(k, i) \/ ProviderAnswers(k, i)
    BY <2>4, <2>6 DEF ConsumeGrant, ProviderAnswers
  <2>7. CASE CollectOutput(k, i) \/ AbortRunner(k, i) \/ CrashRunner(k, i)
    BY <2>4, <2>7 DEF CollectOutput, AbortRunner, CrashRunner
  <2> QED BY <1>4, <2>2, <2>3, <2>5, <2>6, <2>7 DEF RunnerStep
<1> QED BY <1>2, <1>3, <1>4, RunFrame DEF RunnerStep

LEMMA BytesStep == IInv /\ [Next]_vars => BytesMatchRestriction'
<1> SUFFICES ASSUME IInv, [Next]_vars PROVE BytesMatchRestriction'
  OBVIOUS
<1> USE DEF caseVars, materialVars, kernelVars, invocationVars
<1>1. \A n \in 0 .. latest : n \in Revisions /\ \A m \in Material[n] : m \in Artifacts
  BY DispatchAssumption, RevisionFacts DEF IInv, TypeOK
<1>2. ASSUME NEW replace \in BOOLEAN, ReviseEvidence(replace) PROVE BytesMatchRestriction'
  <2>1. /\ latest + 1 \in Revisions /\ latest' = latest + 1 /\ restriction' = restriction
        /\ bytes' = bytes \union Material[latest + 1] /\ Admissible(latest + 1)
    BY <1>2 DEF ReviseEvidence
  <2>2. ASSUME NEW n \in 0 .. latest', n \notin 0 .. latest PROVE n = latest + 1
    BY <2>1, <2>2, RevisionFacts DEF IInv, TypeOK
  <2>3. ASSUME NEW m \in Artifacts, restriction[m] = "deleted_verified" PROVE m \notin bytes'
    <3>1. m \notin bytes
      BY <2>3 DEF IInv, BytesMatchRestriction
    <3>2. m \notin Material[latest + 1]
      BY <2>1, <2>3 DEF Admissible
    <3> QED BY <2>1, <3>1, <3>2
  <2>4. ASSUME NEW n \in 0 .. latest', NEW m \in Material[n], restriction[m] = "none"
        PROVE  m \in bytes'
    <3>1. CASE n \in 0 .. latest
      BY <2>1, <2>4, <3>1 DEF IInv, BytesMatchRestriction
    <3>2. CASE n \notin 0 .. latest
      BY <2>1, <2>2, <2>4, <3>2
    <3> QED BY <3>1, <3>2
  <2> QED BY <2>1, <2>3, <2>4 DEF BytesMatchRestriction
<1>3. ASSUME NEW m \in Artifacts, RequestErasure(m) PROVE BytesMatchRestriction'
  <2>1. /\ latest' = latest /\ bytes' = bytes
        /\ \A o \in Artifacts : o # m => restriction'[o] = restriction[o]
        /\ restriction'[m] = "revoked_pending_deletion"
    BY <1>3 DEF RequestErasure, IInv, TypeOK
  <2> QED BY <1>1, <2>1 DEF IInv, BytesMatchRestriction
<1>4. ASSUME NEW m \in Artifacts, RemoveBytes(m) PROVE BytesMatchRestriction'
  BY <1>4 DEF RemoveBytes, Revoked, IInv, BytesMatchRestriction
<1>5. ASSUME NEW m \in Artifacts, SealAbsence(m) PROVE BytesMatchRestriction'
  <2>1. /\ latest' = latest /\ bytes' = bytes /\ m \notin bytes
        /\ \A o \in Artifacts : o # m => restriction'[o] = restriction[o]
        /\ restriction'[m] = "deleted_verified"
    BY <1>5 DEF SealAbsence, IInv, TypeOK
  <2> QED BY <1>1, <2>1 DEF IInv, BytesMatchRestriction
<1>6. ASSUME UNCHANGED <<latest, restriction, bytes>> PROVE BytesMatchRestriction'
  BY <1>6 DEF IInv, BytesMatchRestriction
<1>7. ASSUME NEW n \in Revisions, \/ CreateAssignment(n) \/ ReplaceAssignment(n)
                                  \/ SkipReplacement(n) \/ FailAssignmentStage(n)
      PROVE BytesMatchRestriction'
  BY <1>6, <1>7 DEF CreateAssignment, ReplaceAssignment, SkipReplacement,
                    FailAssignmentStage
<1>8. ASSUME NEW k \in Authorizations, \/ RegisterConsistencyTest(k) \/ Claim(k)
                                       \/ IssueAuthorization(k) \/ AuthorizeLaunch(k)
      PROVE BytesMatchRestriction'
  BY <1>6, <1>8 DEF RegisterConsistencyTest, Claim, IssueAuthorization, AuthorizeLaunch
<1>9. ASSUME NEW k \in Authorizations, NEW a \in Assignments, EvaluateEligibility(k, a)
      PROVE BytesMatchRestriction'
  BY <1>6, <1>9 DEF EvaluateEligibility
<1>10. ASSUME NEW k \in Authorizations, NEW i \in Invocations(k), RunnerStep(k, i)
       PROVE BytesMatchRestriction'
  BY <1>6, <1>10 DEF RunnerStep, StartRunner, RecordStarted, ConsumeGrant, ProviderAnswers,
                     CollectOutput, AbortRunner, CrashRunner, Complete
<1>11. CASE UNCHANGED vars
  BY <1>6, <1>11 DEF vars
<1>12. CASE Next
  BY <1>2, <1>3, <1>4, <1>5, <1>7, <1>8, <1>9, <1>10, <1>12,
     ErasuresKnown DEF Next, RunnerStep
<1> QED BY <1>11, <1>12
-----------------------------------------------------------------------------
(* The inductive invariant: what is on offer, taken, replaced, asked of the     *)
(* provider and kept as bytes, in every state the Diagnostic Plane can reach.     *)
THEOREM DiagnosticInvariant == Spec => []IInv
<1>1. IInv /\ [Next]_vars => IInv'
  BY TypeStep, StagesFreshStep, RunsAuthorizedStep, OneRunStep, OfferStep, ReplacedStep,
     OneRequestStep, DeliveredStep, BytesStep DEF IInv
<1> QED BY <1>1, InitIInv, PTL DEF Spec

(* Every variable keeps its type: stages, Assignments, runs and material only   *)
(* ever have the states their tables name.                                        *)
THEOREM DiagnosticTypes == Spec => []TypeOK
BY DiagnosticInvariant, PTL DEF IInv

(* However many authorizations are signed for an Assignment, and however the     *)
(* claims of different packages interleave, each Assignment has one Worker Run.    *)
THEOREM OneRun == Spec => []OneRunPerAssignment
BY DiagnosticInvariant, PTL DEF IInv

(* Erasures reach every Assignment on offer whose package names the artifact,   *)
(* for any way the packages of the revisions share their material.                 *)
THEOREM OfferAdmissible == Spec => []UnclaimedIsAdmissible
BY DiagnosticInvariant, PTL DEF IInv

(* A replacement handled at last has one predecessor, on which nobody worked.   *)
THEOREM ExactReplacement == Spec => []ReplacementIsExact
<1>1. IInv => ReplacementIsExact
  <2> SUFFICES ASSUME IInv, NEW n \in Revisions,
                      stage[n] = "created", replaces[n] # Nothing
               PROVE  /\ assignment[replaces[n]] = "expired"
                      /\ \A k \in Authorizations : target[k] = replaces[n] => run[k] = "none"
                      /\ \A o \in Revisions :
                            stage[o] = "created" /\ replaces[o] = replaces[n] => o = n
    BY DEF ReplacementIsExact
  <2>1. replaces[n] \in Assignments
    BY DEF IInv, TypeOK
  <2>2. /\ assignment[replaces[n]] = "expired"
        /\ \A o \in Revisions :
              stage[o] = "created" /\ replaces[o] = replaces[n] => o = n
    BY DEF IInv, ReplacedExpired
  <2> QED BY <2>1, <2>2 DEF IInv, OneRunPerAssignment
<1> QED BY <1>1, DiagnosticInvariant, PTL

(* However often the runner is invoked anew for a launch, and wherever it dies, *)
(* the diagnosis that is stored cost the request of one invocation.                *)
THEOREM OneRequestDiagnosis == Spec => []DiagnosisFromOneRequest
<1>1. IInv => DiagnosisFromOneRequest
  <2> SUFFICES ASSUME IInv, NEW k \in Authorizations, run[k] = "completed"
               PROVE  /\ diagnosis[k] = recorded[k] /\ recorded[k] \in Invocations(k)
                      /\ runner[<<k, recorded[k]>>] = "collected"
                      /\ requests[<<k, recorded[k]>>] = 1
    BY DEF DiagnosisFromOneRequest
  <2>1. /\ diagnosis[k] = recorded[k] /\ recorded[k] \in Invocations(k)
        /\ runner[<<k, recorded[k]>>] = "collected"
    BY DEF IInv, Delivered
  <2>2. <<k, recorded[k]>> \in Calls
    BY <2>1, CallFacts
  <2> QED BY <2>1, <2>2 DEF IInv, OneRequest
<1> QED BY <1>1, DiagnosticInvariant, PTL

(* Bytes are missing only under a decision, and absent once that is sealed.     *)
THEOREM BytesMatch == Spec => []BytesMatchRestriction
BY DiagnosticInvariant, PTL DEF IInv

(* Launch and completion ask about material only; that is enough, because an     *)
(* Assignment is cancelled exactly where its material was lost for good.            *)
THEOREM NoLaunchAfterErasure == Spec => NoAuthorityAfterErasure
<1> DEFINE A == \A k \in Authorizations :
                  run'[k] # run[k] /\ run'[k] \in {"launching", "completed"} =>
                      assignment[target[k]] = "claimed"
<1>1. IInv /\ [Next]_vars => A
  <2> SUFFICES ASSUME IInv, [Next]_vars, NEW k \in Authorizations,
                      run'[k] # run[k], run'[k] \in {"launching", "completed"}
               PROVE  assignment[target[k]] = "claimed"
    OBVIOUS
  <2>1. run[k] # "none" /\ Admissible(PackageOf(target[k]))
    <3>1. ASSUME NEW j \in Authorizations, Claim(j) PROVE FALSE
      BY <3>1 DEF Claim, IInv, TypeOK
    <3>2. ASSUME NEW j \in Authorizations, AuthorizeLaunch(j)
          PROVE  run[k] # "none" /\ Admissible(PackageOf(target[k]))
      BY <3>2 DEF AuthorizeLaunch, IInv, TypeOK
    <3>3. ASSUME NEW j \in Authorizations, NEW i \in Invocations(j), RunnerStep(j, i)
          PROVE  run[k] # "none" /\ Admissible(PackageOf(target[k]))
      <4>1. CASE Complete(j, i)
        BY <4>1 DEF Complete, CompletionAdmissible, IInv, TypeOK
      <4>2. CASE RecordStarted(j, i)
        BY <4>2 DEF RecordStarted, IInv, TypeOK
      <4>3. CASE run' = run
        BY <4>3
      <4> QED BY <3>3, <4>1, <4>2, <4>3 DEF RunnerStep, StartRunner, ConsumeGrant,
              ProviderAnswers, CollectOutput, AbortRunner, CrashRunner
    <3> QED BY <3>1, <3>2, <3>3, RunFrame DEF RunnerStep
  <2>2. target[k] \in Assignments
    BY <2>1 DEF IInv, RunsAuthorized
  <2>3. assignment[target[k]] \in {"claimed", "cancelled"}
    BY <2>1, <2>2 DEF IInv, OneRunPerAssignment
  <2> QED BY <2>1, <2>2, <2>3 DEF IInv, CancelledIsInadmissible
<1>2. IInv /\ [Next]_vars => [A]_vars
  BY <1>1
<1> QED BY <1>2, DiagnosticInvariant, PTL DEF Spec, NoAuthorityAfterErasure
-----------------------------------------------------------------------------
(* A test belongs to a package there is, and a replacement looks back.         *)
Earlier ==
    /\ \A n \in tested : n <= latest
    /\ \A n \in Revisions : replaces[n] # Nothing => PackageOf(replaces[n]) < n

LEMMA OfferKnown ==
    ASSUME IInv, Earlier, NEW a \in Assignments, assignment[a] # "none"
    PROVE  PackageOf(a) <= latest
<1> DEFINE n == PackageOf(a)
<1>1. n \in Revisions /\ a = <<n, a[2]>> /\ a[2] \in 1 .. 4
  BY AssignmentFacts
<1>2. n \in Nat /\ latest \in Nat
  BY <1>1, RevisionFacts DEF IInv, TypeOK
<1>3. CASE a[2] = 1
  <2>1. a = Default(n)
    BY <1>1, <1>3 DEF Default
  <2>2. stage[n] # "absent"
    BY <1>1, <2>1 DEF IInv, StagesFresh
  <2> QED BY <1>1, <1>2, <2>2 DEF IInv, StagesFresh
<1>4. CASE a[2] # 1
  <2>1. a[2] \in 2 .. 4
    BY <1>1, <1>4
  <2>2. n \in tested
    BY <1>1, <2>1 DEF IInv, StagesFresh
  <2> QED BY <2>2 DEF Earlier
<1> QED BY <1>3, <1>4

LEMMA InitEarlier == Init => Earlier
  BY DEF Init, Earlier

LEMMA EarlierStep == IInv /\ Earlier /\ [Next]_vars => Earlier'
<1> SUFFICES ASSUME IInv, Earlier, [Next]_vars PROVE Earlier'
  OBVIOUS
<1> USE DEF caseVars, materialVars, kernelVars, invocationVars
<1>1. ASSUME UNCHANGED <<latest, replaces, tested>> PROVE Earlier'
  BY <1>1 DEF Earlier
<1>2. ASSUME NEW replace \in BOOLEAN, ReviseEvidence(replace) PROVE Earlier'
  <2> DEFINE n == latest + 1
  <2>1. latest \in Nat /\ n \in Revisions /\ latest' = n /\ tested' = tested
        /\ tested \subseteq Nat
    BY <1>2, RevisionFacts DEF ReviseEvidence, IInv, TypeOK
  <2>2. \A o \in tested' : o <= latest'
    BY <2>1 DEF Earlier
  <2>3. ASSUME NEW o \in Revisions, replaces'[o] # Nothing PROVE PackageOf(replaces'[o]) < o
    <3>1. CASE replaces' = replaces
      BY <2>3, <3>1 DEF Earlier
    <3>2. CASE replaces' # replaces
      <4>1. PICK a \in Unclaimed : replaces' = [replaces EXCEPT ![n] = a]
        BY <1>2, <3>2 DEF ReviseEvidence
      <4>2. a \in Assignments /\ assignment[a] # "none"
        BY DEF Unclaimed
      <4>3. PackageOf(a) <= latest /\ PackageOf(a) \in Nat
        BY <4>2, OfferKnown, AssignmentFacts, RevisionFacts
      <4>4. PackageOf(a) < n
        BY <2>1, <4>3
      <4>5. replaces'[o] = IF o = n THEN a ELSE replaces[o]
        BY <4>1 DEF IInv, TypeOK
      <4> QED BY <2>3, <4>4, <4>5 DEF Earlier
    <3> QED BY <3>1, <3>2
  <2> QED BY <2>2, <2>3 DEF Earlier
<1>3. ASSUME NEW k \in Authorizations, RegisterConsistencyTest(k) PROVE Earlier'
  <2>1. target[k] \in Assignments /\ assignment[target[k]] = "claimed"
    BY <1>3 DEF RegisterConsistencyTest, IInv, RunsAuthorized
  <2>2. PackageOf(target[k]) <= latest
    BY <2>1, OfferKnown
  <2>3. latest' = latest /\ replaces' = replaces
        /\ tested' = tested \union {PackageOf(target[k])}
    BY <1>3 DEF RegisterConsistencyTest
  <2> QED BY <2>2, <2>3 DEF Earlier
<1>4. CASE CaseQuiet
  BY <1>1, <1>4 DEF CaseQuiet
<1>5. CASE CaseStep
  BY <1>1, <1>2, <1>3, <1>5 DEF CaseStep, CreateAssignment, ReplaceAssignment,
     SkipReplacement, FailAssignmentStage, IssueAuthorization, EvaluateEligibility, Claim,
     RequestErasure, SealAbsence
<1> QED BY <1>4, <1>5, CaseFrame DEF IInv
-----------------------------------------------------------------------------
(* A diagnosis has cost one request as soon as it is there, and ever after.    *)
PricesAreOne ==
    Prices = [k \in Authorizations |-> IF run[k] = "completed" THEN 1 ELSE 0]

LEMMA OnePrice == IInv => PricesAreOne
<1> SUFFICES ASSUME IInv, NEW k \in Authorizations, run[k] = "completed"
             PROVE  requests[<<k, diagnosis[k]>>] = 1
  BY DEF Prices, PricesAreOne
<1>1. /\ diagnosis[k] = recorded[k] /\ recorded[k] \in Invocations(k)
      /\ runner[<<k, recorded[k]>>] = "collected"
  BY DEF IInv, Delivered
<1>2. <<k, recorded[k]>> \in Calls
  BY <1>1, CallFacts
<1> QED BY <1>1, <1>2 DEF IInv, OneRequest

(* Nothing but a claim gives a run its Assignment.                             *)
LEMMA TakenStays ==
    ASSUME IInv, [Next]_vars, \A k \in Authorizations : ~Claim(k) PROVE Taken' = Taken
  BY RunsKeep DEF Taken

LEMMA WorkStays ==
    ASSUME IInv, [Next]_vars, PricesAreOne, PricesAreOne', UNCHANGED run
    PROVE  Taken' = Taken /\ Prices' = Prices
<1>1. \A k \in Authorizations : ~Claim(k)
  BY DEF Claim, IInv, TypeOK
<1> QED BY <1>1, TakenStays DEF PricesAreOne

LEMMA MaterialStays == UNCHANGED restriction => Erased' = Erased /\ Sealed' = Sealed
  BY DEF Erased, Sealed

LEMMA WholeMeans ==
    ASSUME NEW n \in Revisions PROVE Promise!Whole(n) <=> Admissible(n)
  BY DispatchAssumption DEF Promise!Whole, Admissible, Erased

(* A run whose package is whole still has its Assignment.                      *)
LEMMA WholeIsClaimed ==
    ASSUME IInv, NEW k \in Authorizations, run[k] # "none",
           Admissible(PackageOf(target[k]))
    PROVE  /\ target[k] \in Assignments /\ Taken[k] = target[k]
           /\ assignment[target[k]] = "claimed"
<1>1. target[k] \in Assignments
  BY DEF IInv, RunsAuthorized
<1>2. assignment[target[k]] \in {"claimed", "cancelled"}
  BY <1>1 DEF IInv, OneRunPerAssignment
<1>3. assignment[target[k]] # "cancelled"
  BY <1>1 DEF IInv, CancelledIsInadmissible
<1> QED BY <1>1, <1>2, <1>3 DEF Taken

Promised == [Promise!PromiseNext]_(Promise!promiseVars)

LEMMA StepsThatOffer ==
    ASSUME IInv, Earlier, PricesAreOne, PricesAreOne', [Next]_vars, NEW n \in Revisions,
           CreateAssignment(n) \/ ReplaceAssignment(n)
    PROVE  Promised
<1> USE DEF caseVars, materialVars, kernelVars, invocationVars
<1>1. /\ stage[n] = "pending" /\ Admissible(n)
      /\ UNCHANGED <<latest, run, restriction, bytes>>
  BY DEF CreateAssignment, ReplaceAssignment
<1>2. n \in 0 .. latest /\ assignment[Default(n)] = "none"
  BY <1>1, RevisionFacts DEF IInv, TypeOK, StagesFresh
<1>3. Taken' = Taken /\ Prices' = Prices /\ Erased' = Erased /\ Sealed' = Sealed
  BY <1>1, WorkStays, MaterialStays
<1>4. Promise!Whole(n)
  BY <1>1, WholeMeans
<1>5. CASE CreateAssignment(n)
  <2>1. assignment' = [a \in Assignments |->
            CASE a = Default(n) -> "unclaimed"
              [] a \in {} -> "expired"
              [] OTHER -> assignment[a]]
    BY <1>5 DEF CreateAssignment, IInv, TypeOK
  <2>2. Promise!Offer(n, {})
    BY <1>1, <1>2, <1>3, <1>4, <2>1 DEF Promise!Offer, Promise!First, Default,
       Promise!workVars, Promise!materialVars
  <2> QED BY <2>2 DEF Promised, Promise!PromiseNext
<1>6. CASE ReplaceAssignment(n)
  <2> DEFINE b == replaces[n]
  <2>1. b \in Assignments /\ assignment[b] = "unclaimed" /\ b # Default(n)
    BY <1>2, <1>6 DEF ReplaceAssignment, ReplacedUnclaimed, IInv, TypeOK
  <2>2. PackageOf(b) < n
    BY <1>6 DEF ReplaceAssignment, Earlier
  <2>3. assignment' = [a \in Assignments |->
            CASE a = Default(n) -> "unclaimed"
              [] a \in {b} -> "expired"
              [] OTHER -> assignment[a]]
    BY <1>6, <2>1 DEF ReplaceAssignment, IInv, TypeOK
  <2>4. Promise!Offer(n, {b})
    BY <1>1, <1>2, <1>3, <1>4, <2>1, <2>2, <2>3 DEF Promise!Offer, Promise!First, Default,
       Promise!PackageOf, PackageOf, Promise!workVars, Promise!materialVars
  <2> QED BY <2>1, <2>4 DEF Promised, Promise!PromiseNext
<1> QED BY <1>5, <1>6

LEMMA StepThatRevises ==
    ASSUME IInv, PricesAreOne, PricesAreOne', [Next]_vars, NEW replace \in BOOLEAN,
           ReviseEvidence(replace)
    PROVE  Promised
<1> DEFINE n == latest + 1
<1>1. /\ n \in Revisions /\ Admissible(n) /\ latest' = n
      /\ bytes' = bytes \union Material[n]
      /\ UNCHANGED <<assignment, run, restriction>>
  BY DEF ReviseEvidence
<1>2. latest \in Nat /\ 0 .. latest' = (0 .. latest) \union {n}
      /\ \A o \in 0 .. latest : o < n
  BY <1>1, RevisionFacts DEF IInv, TypeOK
<1>3. Taken' = Taken /\ Prices' = Prices /\ Erased' = Erased /\ Sealed' = Sealed
  BY <1>1, WorkStays, MaterialStays
<1>4. Promise!Whole(n)
  BY <1>1, WholeMeans
<1>5. Promise!AddPackage(n)
  BY <1>1, <1>2, <1>3, <1>4 DEF Promise!AddPackage, Promise!workVars
<1> QED BY <1>1, <1>5 DEF Promised, Promise!PromiseNext

LEMMA StepThatTests ==
    ASSUME IInv, PricesAreOne, PricesAreOne', [Next]_vars, NEW k \in Authorizations,
           RegisterConsistencyTest(k)
    PROVE  Promised
<1> USE DEF caseVars, materialVars, kernelVars, invocationVars
<1> DEFINE a == target[k]
           n == PackageOf(a)
           tests == {b \in Assignments : PackageOf(b) = n /\ b # a}
<1>1. /\ run[k] = "completed" /\ assignment[a] = "claimed" /\ a = Default(n)
      /\ n \notin tested
      /\ UNCHANGED <<latest, run, restriction, bytes>>
  BY DEF RegisterConsistencyTest
<1>2. Taken[k] = a /\ a \in Assignments
  BY <1>1 DEF Taken, IInv, RunsAuthorized
<1>3. Taken' = Taken /\ Prices' = Prices /\ Erased' = Erased /\ Sealed' = Sealed
  BY <1>1, WorkStays, MaterialStays
<1>4. ASSUME NEW b \in tests PROVE assignment[b] = "none"
  <2>1. n \in Revisions /\ b = <<n, b[2]>> /\ b[2] \in 1 .. 4
    BY <1>2, AssignmentFacts
  <2>2. b[2] # 1
    BY <1>1, <2>1 DEF Default
  <2>3. b[2] \in 2 .. 4
    BY <2>1, <2>2
  <2> QED BY <1>1, <2>1, <2>3 DEF IInv, StagesFresh
<1>5. assignment' = [b \in Assignments |-> IF b \in tests THEN "unclaimed" ELSE assignment[b]]
  BY DEF RegisterConsistencyTest
<1>6. Promise!OfferTests(k)
  BY <1>1, <1>2, <1>3, <1>4, <1>5 DEF Promise!OfferTests, Promise!First, Default,
     Promise!PackageOf, PackageOf, Promise!workVars, Promise!materialVars
<1> QED BY <1>6 DEF Promised, Promise!PromiseNext

LEMMA StepThatClaims ==
    ASSUME IInv, PricesAreOne, PricesAreOne', NEW k \in Authorizations, Claim(k)
    PROVE  Promised
<1> USE DEF caseVars, materialVars, kernelVars, invocationVars
<1> DEFINE a == target[k]
<1>1. /\ a \in Assignments /\ assignment[a] = "unclaimed" /\ run[k] = "none"
      /\ assignment' = [assignment EXCEPT ![a] = "claimed"]
      /\ run' = [run EXCEPT ![k] = "claimed_not_launched"]
      /\ UNCHANGED <<latest, restriction, bytes, target>>
  BY DEF Claim, StillUnclaimed, IInv, RunsAuthorized
<1>2. Taken[k] = Nothing
  BY <1>1 DEF Taken
<1>3. \A j \in Authorizations :
          run'[j] = IF j = k THEN "claimed_not_launched" ELSE run[j]
  BY <1>1 DEF IInv, TypeOK
<1>4. Taken' = [Taken EXCEPT ![k] = a]
  <2>1. Taken' = [j \in Authorizations |-> IF run'[j] = "none" THEN Nothing ELSE target[j]]
    BY <1>1 DEF Taken
  <2>2. Taken' = [j \in Authorizations |->
                      IF j = k THEN a ELSE IF run[j] = "none" THEN Nothing ELSE target[j]]
    BY <1>3, <2>1, "claimed_not_launched" # "none"
  <2> QED BY <2>2 DEF Taken
<1>5. Prices' = Prices
  BY <1>1, <1>3 DEF PricesAreOne
<1>6. Promise!Take(k, a)
  BY <1>1, <1>2, <1>4, <1>5, MaterialStays DEF Promise!Take, Promise!materialVars
<1> QED BY <1>1, <1>6 DEF Promised, Promise!PromiseNext

(* A run that goes on keeps its Assignment, and costs something when it ends.  *)
LEMMA RunGoesOn ==
    ASSUME IInv, PricesAreOne, PricesAreOne', NEW k \in Authorizations,
           NEW to \in {"launching", "running", "completed"}, [Next]_vars,
           run[k] # "none", run' = [run EXCEPT ![k] = to],
           UNCHANGED <<latest, assignment, restriction, bytes, target>>
    PROVE  Promise!Proceed(k, to, IF to = "completed" THEN 1 ELSE 0)
<1>1. \A j \in Authorizations : run'[j] = IF j = k THEN to ELSE run[j]
  BY DEF IInv, TypeOK
<1>2. Taken' = Taken
  BY <1>1 DEF Taken
<1>3. Prices' = [Prices EXCEPT ![k] = IF to = "completed" THEN 1 ELSE 0]
  <2>1. Prices' = [j \in Authorizations |->
                      IF j = k THEN (IF to = "completed" THEN 1 ELSE 0)
                      ELSE IF run[j] = "completed" THEN 1 ELSE 0]
    BY <1>1 DEF PricesAreOne
  <2> QED BY <2>1 DEF PricesAreOne
<1> QED BY <1>2, <1>3, MaterialStays DEF Promise!Proceed, Promise!materialVars

LEMMA StepThatRuns ==
    ASSUME IInv, PricesAreOne, PricesAreOne', [Next]_vars, NEW k \in Authorizations,
           \/ AuthorizeLaunch(k)
           \/ \E i \in Invocations(k) : RecordStarted(k, i) \/ Complete(k, i)
    PROVE  Promised
<1> USE DEF caseVars, materialVars, kernelVars, invocationVars
<1>1. CASE AuthorizeLaunch(k)
  <2>1. /\ run[k] = "claimed_not_launched" /\ Admissible(PackageOf(target[k]))
        /\ Root[PackageOf(target[k])] \in bytes
        /\ run' = [run EXCEPT ![k] = "launching"]
        /\ UNCHANGED <<latest, assignment, restriction, bytes, target>>
    BY <1>1 DEF AuthorizeLaunch
  <2>2. Taken[k] = target[k] /\ assignment[target[k]] = "claimed"
    BY <2>1, WholeIsClaimed
  <2>3. Promise!Proceed(k, "launching", 0)
    BY <2>1, RunGoesOn
  <2>4. Promise!Launch(k)
    BY <2>1, <2>2, <2>3 DEF Promise!Launch, Promise!PackageOf, PackageOf
  <2> QED BY <2>4 DEF Promised, Promise!PromiseNext
<1>2. ASSUME NEW i \in Invocations(k), RecordStarted(k, i) PROVE Promised
  <2>1. /\ run[k] = "launching" /\ run' = [run EXCEPT ![k] = "running"]
        /\ UNCHANGED <<latest, assignment, restriction, bytes, target>>
    BY <1>2 DEF RecordStarted
  <2>2. Promise!Proceed(k, "running", 0)
    BY <2>1, RunGoesOn
  <2>3. Promise!Start(k)
    BY <2>1, <2>2 DEF Promise!Start
  <2> QED BY <2>3 DEF Promised, Promise!PromiseNext
<1>3. ASSUME NEW i \in Invocations(k), Complete(k, i) PROVE Promised
  <2>1. /\ run[k] = "running" /\ Admissible(PackageOf(target[k]))
        /\ run' = [run EXCEPT ![k] = "completed"]
        /\ UNCHANGED <<latest, assignment, restriction, bytes, target>>
    BY <1>3 DEF Complete, CompletionAdmissible
  <2>2. Taken[k] = target[k] /\ assignment[target[k]] = "claimed"
    BY <2>1, WholeIsClaimed
  <2>3. Promise!Proceed(k, "completed", 1)
    BY <2>1, RunGoesOn
  <2>4. Promise!Finish(k)
    BY <2>1, <2>2, <2>3 DEF Promise!Finish
  <2> QED BY <2>4 DEF Promised, Promise!PromiseNext
<1> QED BY <1>1, <1>2, <1>3

LEMMA StepThatErases ==
    ASSUME IInv, PricesAreOne, PricesAreOne', [Next]_vars, NEW m \in Artifacts,
           RequestErasure(m) \/ RemoveBytes(m) \/ SealAbsence(m)
    PROVE  Promised
<1> USE DEF caseVars, materialVars, kernelVars, invocationVars
<1>1. UNCHANGED <<latest, run>>
  BY DEF RequestErasure, RemoveBytes, SealAbsence
<1>2. Taken' = Taken /\ Prices' = Prices
  BY <1>1, WorkStays
<1>3. CASE RequestErasure(m)
  <2>1. /\ restriction[m] = "none" /\ \E n \in 0 .. latest : m \in Material[n]
        /\ restriction' = [restriction EXCEPT ![m] = "revoked_pending_deletion"]
        /\ bytes' = bytes
    BY <1>3 DEF RequestErasure
  <2>2. m \notin Erased /\ Erased' = Erased \union {m} /\ Sealed' = Sealed
    BY <2>1 DEF Erased, Sealed, IInv, TypeOK
  <2>3. assignment' = [a \in Assignments |->
            CASE m \in Material[PackageOf(a)] /\ assignment[a] = "unclaimed" -> "expired"
              [] m \in Material[PackageOf(a)] /\ assignment[a] = "claimed" -> "cancelled"
              [] OTHER -> assignment[a]]
    BY <1>3 DEF RequestErasure, Impacted, Invalidated
  <2>4. Promise!Erase(m)
    BY <1>1, <1>2, <2>1, <2>2, <2>3 DEF Promise!Erase, Promise!workVars,
       Promise!PackageOf, PackageOf
  <2> QED BY <2>4 DEF Promised, Promise!PromiseNext
<1>4. CASE RemoveBytes(m)
  <2>1. m \in Erased
    BY <1>4 DEF RemoveBytes, Revoked, Erased
  <2>2. Erased' = Erased /\ Sealed' = Sealed
    BY <1>4, MaterialStays DEF RemoveBytes
  <2>3. Promise!Remove(m)
    BY <1>1, <1>2, <1>4, <2>1, <2>2 DEF RemoveBytes, Promise!Remove, Promise!workVars
  <2> QED BY <2>3 DEF Promised, Promise!PromiseNext
<1>5. CASE SealAbsence(m)
  <2>1. /\ restriction[m] = "revoked_pending_deletion" /\ m \notin bytes
        /\ restriction' = [restriction EXCEPT ![m] = "deleted_verified"]
        /\ bytes' = bytes /\ assignment' = assignment
    BY <1>5 DEF SealAbsence, Revoked
  <2>2. m \in Erased /\ Erased' = Erased /\ Sealed' = Sealed \union {m}
    BY <2>1 DEF Erased, Sealed, IInv, TypeOK
  <2>3. Promise!Seal(m)
    BY <1>1, <1>2, <2>1, <2>2 DEF Promise!Seal, Promise!workVars
  <2> QED BY <2>3 DEF Promised, Promise!PromiseNext
<1> QED BY <1>3, <1>4, <1>5

(* Requests, attestations and the Kernel's signatures promise nothing.         *)
LEMMA StepUnseen ==
    ASSUME IInv, PricesAreOne, PricesAreOne', [Next]_vars,
           UNCHANGED <<latest, assignment, run, restriction, bytes>>
    PROVE  Promised
  BY WorkStays, MaterialStays
     DEF Promised, Promise!promiseVars, Promise!workVars, Promise!materialVars

LEMMA StepPromised ==
    ASSUME IInv, Earlier, PricesAreOne, PricesAreOne', [Next]_vars PROVE Promised
<1> USE DEF caseVars, materialVars, kernelVars, invocationVars
<1>1. ASSUME NEW n \in Revisions, SkipReplacement(n) \/ FailAssignmentStage(n)
      PROVE Promised
  BY <1>1, StepUnseen DEF SkipReplacement, FailAssignmentStage
<1>2. ASSUME NEW k \in Authorizations, IssueAuthorization(k) PROVE Promised
  BY <1>2, StepUnseen DEF IssueAuthorization
<1>3. ASSUME NEW k \in Authorizations, NEW a \in Assignments, EvaluateEligibility(k, a)
      PROVE Promised
  BY <1>3, StepUnseen DEF EvaluateEligibility
<1>4. ASSUME NEW k \in Authorizations, NEW i \in Invocations(k),
             \/ StartRunner(k, i) \/ ConsumeGrant(k, i) \/ ProviderAnswers(k, i)
             \/ CollectOutput(k, i) \/ AbortRunner(k, i) \/ CrashRunner(k, i)
      PROVE Promised
  BY <1>4, StepUnseen DEF StartRunner, ConsumeGrant, ProviderAnswers, CollectOutput,
     AbortRunner, CrashRunner
<1>5. CASE UNCHANGED vars
  BY <1>5, StepUnseen DEF vars
<1>6. CASE Next
  BY <1>1, <1>2, <1>3, <1>4, <1>6, StepsThatOffer, StepThatRevises, StepThatTests,
     StepThatClaims, StepThatRuns, StepThatErases, ErasuresKnown DEF Next
<1> QED BY <1>5, <1>6

LEMMA StartPromised == Init => Promise!PromiseInit
<1> SUFFICES ASSUME Init PROVE Promise!PromiseInit
  OBVIOUS
<1>1. 0 .. latest = {0}
  BY DEF Init
<1>2. /\ Taken = [k \in Authorizations |-> Nothing]
      /\ Prices = [k \in Authorizations |-> 0]
      /\ Erased = {} /\ Sealed = {}
  BY DEF Init, Taken, Prices, Erased, Sealed
<1> QED BY <1>1, <1>2 DEF Init, Promise!PromiseInit

(* Whatever the Kernel signs on an eligibility that has passed, however often a *)
(* launch is repeated and wherever an erasure or a runner stops: an Assignment is  *)
(* worked on once, on whole material, and its diagnosis cost one request.            *)
THEOREM DiagnosisKeepsPromise == Spec => ImplementsPromise
<1>1. Earlier /\ IInv /\ [Next]_vars => Earlier'
  BY EarlierStep
<1>2. Spec => []Earlier
  BY <1>1, InitEarlier, DiagnosticInvariant, PTL DEF Spec
<1>3. IInv /\ Earlier /\ PricesAreOne /\ PricesAreOne' /\ [Next]_vars
          => [Promise!PromiseNext]_(Promise!promiseVars)
  BY StepPromised DEF Promised
<1>4. Spec => Promise!PromiseSpec
  BY <1>2, <1>3, StartPromised, OnePrice, DiagnosticInvariant, PTL
     DEF Spec, Promise!PromiseSpec
<1> QED BY <1>4 DEF ImplementsPromise
=============================================================================
