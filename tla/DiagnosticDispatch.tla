------------------------- MODULE DiagnosticDispatch -------------------------
(***************************************************************************)
(* From a frozen Evidence Package to a diagnosis, for one Diagnostic Case:    *)
(* Assignments and their replacement when the evidence is revised, dispatch    *)
(* authorizations of the Kernel and their claims, Worker Runs with the trusted   *)
(* runner and the Model Broker, consistency tests, and the erasure of material     *)
(* while all of that goes on.  Every command of the Diagnostic Plane that needs      *)
(* material holds the material lock of the installation, so each is one step.          *)
(* Instants only make commands refuse, and change nothing: they are left out.            *)
(***************************************************************************)
EXTENDS Naturals

CONSTANTS
    MaxRevision,        \* bound: material revisions of the Evidence Package
    Authorizations,     \* dispatch authorizations, each with its own Worker Run
    MaxInvocations,     \* bound: times the runner is invoked, for each launch
    Artifacts,          \* content-addressed customer material
    Erasures,           \* bound: the artifacts whose erasure is asked for
    Material,           \* the artifacts a package stands on, its own included
    Root,               \* the artifact of the package itself, read at launch
    Nothing

Revisions == 0 .. MaxRevision
Assignments == Revisions \X (1 .. 4)
Invocations(k) == 1 .. MaxInvocations[k]
Calls == UNION {{k} \X Invocations(k) : k \in Authorizations}

ASSUME DispatchAssumption ==
    /\ MaxRevision \in Nat /\ MaxInvocations \in [Authorizations -> Nat]
    /\ Material \in [Revisions -> SUBSET Artifacts]
    /\ Root \in [Revisions -> Artifacts] /\ Erasures \subseteq Artifacts
    /\ Nothing \notin Assignments

VARIABLES
    latest,         \* current_evidence_package_id of the revision monitor
    stage,          \* diagnostic_assignment_stage_records, by package
    replaces,       \* the Assignment a requested replacement is for
    assignment,     \* diagnostic_assignment_states, "none" before creation
    tested,         \* packages with a row in diagnostic_consistency_tests
    restriction,    \* diagnostic_material_states, "none" without a decision
    bytes,          \* what the artifact store holds
    target,         \* the Assignment the Kernel evaluates an authorization for
    issued,         \* authorizations the Kernel has committed
    run,            \* diagnostic_worker_run_states, "none" before the claim
    recorded,       \* the invocation whose start attestation is stored
    diagnosis,      \* the invocation whose output is stored as the diagnosis
    runner,         \* the runner process of each invocation
    worker,         \* its Worker container
    consumed,       \* grant markers in the broker state of each invocation
    requests        \* history: requests the provider has served

caseVars == <<latest, stage, replaces, tested>>
materialVars == <<restriction, bytes>>
kernelVars == <<target, issued>>
invocationVars == <<runner, worker, consumed, requests>>
vars == <<caseVars, assignment, materialVars, kernelVars, run, recorded, diagnosis,
          invocationVars>>

StageOutcome == {"absent", "pending", "created", "replacement_not_performed",
                 "terminal_failure"}
AssignmentState == {"none", "unclaimed", "claimed", "expired", "cancelled"}
RunState == {"none", "claimed_not_launched", "launching", "running", "completed"}

TypeOK ==
    /\ latest \in Revisions
    /\ stage \in [Revisions -> StageOutcome]
    /\ replaces \in [Revisions -> Assignments \union {Nothing}]
    /\ assignment \in [Assignments -> AssignmentState]
    /\ tested \subseteq Revisions
    /\ restriction \in [Artifacts -> {"none", "revoked_pending_deletion", "deleted_verified"}]
    /\ bytes \subseteq Artifacts
    /\ target \in [Authorizations -> Assignments \union {Nothing}]
    /\ issued \subseteq Authorizations
    /\ run \in [Authorizations -> RunState]
    /\ recorded \in [Authorizations -> Nat]
    /\ diagnosis \in [Authorizations -> Nat]
    /\ runner \in [Calls -> {"none", "attending", "collected", "ended"}]
    /\ worker \in [Calls -> {"none", "started", "asked", "answered"}]
    /\ consumed \subseteq Calls
    /\ requests \in [Calls -> Nat]

Init ==
    /\ latest = 0
    /\ stage = [n \in Revisions |-> IF n = 0 THEN "pending" ELSE "absent"]
    /\ replaces = [n \in Revisions |-> Nothing]
    /\ assignment = [a \in Assignments |-> "none"]
    /\ tested = {}
    /\ restriction = [m \in Artifacts |-> "none"]
    /\ bytes = Material[0]
    /\ target = [k \in Authorizations |-> Nothing]
    /\ issued = {}
    /\ run = [k \in Authorizations |-> "none"]
    /\ recorded = [k \in Authorizations |-> 0]
    /\ diagnosis = [k \in Authorizations |-> 0]
    /\ runner = [c \in Calls |-> "none"]
    /\ worker = [c \in Calls |-> "none"]
    /\ consumed = {}
    /\ requests = [c \in Calls |-> 0]
-----------------------------------------------------------------------------
Admissible(n) == \A m \in Material[n] : restriction[m] = "none"

PackageOf(a) == a[1]
Default(n) == <<n, 1>>
Unclaimed == {a \in Assignments : assignment[a] = "unclaimed"}

(* The initial hand-off, and a replacement while what it replaces is still    *)
(* unclaimed; both are the first Assignment of their package.                   *)
CreateAssignment(n) ==
    /\ stage[n] = "pending" /\ replaces[n] = Nothing
    /\ Admissible(n)
    /\ stage' = [stage EXCEPT ![n] = "created"]
    /\ assignment' = [assignment EXCEPT ![Default(n)] = "unclaimed"]
    /\ UNCHANGED <<latest, replaces, tested, materialVars, kernelVars, run, recorded,
                   diagnosis, invocationVars>>

(* mutation: an Assignment nobody worked on may be replaced, and once more    *)
ReplacedUnworked(n) == assignment[replaces[n]] \in {"unclaimed", "expired"}

ReplacedUnclaimed(n) == assignment[replaces[n]] = "unclaimed"

ReplaceAssignment(n) ==
    /\ stage[n] = "pending" /\ replaces[n] # Nothing
    /\ Admissible(n) /\ ReplacedUnclaimed(n)
    /\ stage' = [stage EXCEPT ![n] = "created"]
    /\ assignment' = [assignment EXCEPT ![Default(n)] = "unclaimed",
                                        ![replaces[n]] = "expired"]
    /\ UNCHANGED <<latest, replaces, tested, materialVars, kernelVars, run, recorded,
                   diagnosis, invocationVars>>

SkipReplacement(n) ==
    /\ stage[n] = "pending" /\ replaces[n] # Nothing
    /\ Admissible(n) /\ ~ReplacedUnclaimed(n)
    /\ stage' = [stage EXCEPT ![n] = "replacement_not_performed"]
    /\ UNCHANGED <<latest, replaces, assignment, tested, materialVars, kernelVars, run,
                   recorded, diagnosis, invocationVars>>

(* Material that is restricted stays so: the failure is terminal.             *)
FailAssignmentStage(n) ==
    /\ stage[n] = "pending" /\ ~Admissible(n)
    /\ stage' = [stage EXCEPT ![n] = "terminal_failure"]
    /\ UNCHANGED <<latest, replaces, assignment, tested, materialVars, kernelVars, run,
                   recorded, diagnosis, invocationVars>>

InitialHandoffSettled == stage[0] \in {"created", "terminal_failure"}

(* A material revision; the Assignment Policy and the classes of the change    *)
(* decide whether the unclaimed Assignment of the case is to be replaced.        *)
ReviseEvidence(replace) ==
    LET n == latest + 1
    IN  /\ n \in Revisions
        /\ Admissible(latest) /\ InitialHandoffSettled
        /\ \A a, b \in Unclaimed : a = b
        /\ Admissible(n)
        /\ latest' = n
        /\ bytes' = bytes \union Material[n]
        /\ \/ /\ ~replace
              /\ UNCHANGED <<stage, replaces>>
           \/ /\ replace
              /\ \E a \in Unclaimed : replaces' = [replaces EXCEPT ![n] = a]
              /\ stage' = [stage EXCEPT ![n] = "pending"]
        /\ UNCHANGED <<assignment, tested, restriction, kernelVars, run, recorded,
                       diagnosis, invocationVars>>

RegisterConsistencyTest(k) ==
    LET a == target[k]
        n == PackageOf(a)
    IN  /\ run[k] = "completed" /\ assignment[a] = "claimed"
        /\ Admissible(n) /\ n \notin tested
        /\ a = Default(n)
        /\ tested' = tested \union {n}
        /\ assignment' = [b \in Assignments |->
                IF PackageOf(b) = n /\ b # a THEN "unclaimed" ELSE assignment[b]]
        /\ UNCHANGED <<latest, stage, replaces, materialVars, kernelVars, run, recorded,
                       diagnosis, invocationVars>>
-----------------------------------------------------------------------------
(* The Kernel asks the Diagnostic Plane for eligibility inside its own         *)
(* transaction, and commits the authorization when the Plane may have moved on.  *)
EvaluateEligibility(k, a) ==
    /\ target[k] = Nothing
    /\ assignment[a] = "unclaimed"
    /\ Admissible(PackageOf(a)) /\ Material[PackageOf(a)] \subseteq bytes
    /\ target' = [target EXCEPT ![k] = a]
    /\ UNCHANGED <<caseVars, assignment, materialVars, issued, run, recorded, diagnosis,
                   invocationVars>>

IssueAuthorization(k) ==
    /\ target[k] # Nothing /\ k \notin issued
    /\ issued' = issued \union {k}
    /\ UNCHANGED <<caseVars, assignment, materialVars, target, run, recorded, diagnosis,
                   invocationVars>>

(* mutation: the signed eligibility is believed                               *)
EligibleWhenIssued(k) == assignment[target[k]] # "none"

StillUnclaimed(k) == assignment[target[k]] = "unclaimed"

Claim(k) ==
    /\ k \in issued /\ run[k] = "none"
    /\ Admissible(PackageOf(target[k])) /\ StillUnclaimed(k)
    /\ assignment' = [assignment EXCEPT ![target[k]] = "claimed"]
    /\ run' = [run EXCEPT ![k] = "claimed_not_launched"]
    /\ UNCHANGED <<caseVars, materialVars, kernelVars, recorded, diagnosis, invocationVars>>

(* Launch and completion ask for the material, not for the Assignment.        *)
AuthorizeLaunch(k) ==
    /\ run[k] = "claimed_not_launched"
    /\ Admissible(PackageOf(target[k])) /\ Root[PackageOf(target[k])] \in bytes
    /\ run' = [run EXCEPT ![k] = "launching"]
    /\ UNCHANGED <<caseVars, assignment, materialVars, kernelVars, recorded, diagnosis,
                   invocationVars>>
-----------------------------------------------------------------------------
(* Whoever repeats the launch command is given the launch again: the runner     *)
(* may be invoked anew, with a network, containers and broker state of its own.   *)
Launched(k) == run[k] \in {"launching", "running", "completed"}

StartRunner(k, i) ==
    /\ Launched(k)
    /\ runner[<<k, i>>] = "none" /\ \A j \in 1 .. i - 1 : runner[<<k, j>>] # "none"
    /\ runner' = [runner EXCEPT ![<<k, i>>] = "attending"]
    /\ worker' = [worker EXCEPT ![<<k, i>>] = "started"]
    /\ UNCHANGED <<caseVars, assignment, materialVars, kernelVars, run, recorded, diagnosis,
                   consumed, requests>>

RecordStarted(k, i) ==
    /\ runner[<<k, i>>] = "attending" /\ run[k] = "launching"
    /\ run' = [run EXCEPT ![k] = "running"]
    /\ recorded' = [recorded EXCEPT ![k] = i]
    /\ UNCHANGED <<caseVars, assignment, materialVars, kernelVars, diagnosis, invocationVars>>

(* mutation: the broker keeps no marker                                       *)
AnyRequest(k, i) == TRUE

GrantUnspent(k, i) == <<k, i>> \notin consumed

(* The marker is on disk before the provider is called.                       *)
ConsumeGrant(k, i) ==
    /\ worker[<<k, i>>] = "started" /\ GrantUnspent(k, i)
    /\ consumed' = consumed \union {<<k, i>>}
    /\ worker' = [worker EXCEPT ![<<k, i>>] = "asked"]
    /\ UNCHANGED <<caseVars, assignment, materialVars, kernelVars, run, recorded, diagnosis,
                   runner, requests>>

ProviderAnswers(k, i) ==
    /\ worker[<<k, i>>] = "asked"
    /\ worker' = [worker EXCEPT ![<<k, i>>] = "answered"]
    /\ requests' = [requests EXCEPT ![<<k, i>>] = @ + 1]
    /\ UNCHANGED <<caseVars, assignment, materialVars, kernelVars, run, recorded, diagnosis,
                   runner, consumed>>

(* The output is taken out of the container, the broker is asked once more to   *)
(* see that it refuses, and everything of the invocation is removed.              *)
CollectOutput(k, i) ==
    /\ runner[<<k, i>>] = "attending" /\ worker[<<k, i>>] = "answered"
    /\ runner' = [runner EXCEPT ![<<k, i>>] = "collected"]
    /\ worker' = [worker EXCEPT ![<<k, i>>] = "none"]
    /\ requests' = [requests EXCEPT ![<<k, i>>] = IF GrantUnspent(k, i) THEN @ + 1 ELSE @]
    /\ UNCHANGED <<caseVars, assignment, materialVars, kernelVars, run, recorded, diagnosis,
                   consumed>>

(* A refused start, a lost broker, missing output: the runner throws, and      *)
(* removes what it has created.                                                  *)
AbortRunner(k, i) ==
    /\ runner[<<k, i>>] = "attending"
    /\ runner' = [runner EXCEPT ![<<k, i>>] = "ended"]
    /\ worker' = [worker EXCEPT ![<<k, i>>] = "none"]
    /\ UNCHANGED <<caseVars, assignment, materialVars, kernelVars, run, recorded, diagnosis,
                   consumed, requests>>

(* A runner that dies removes nothing: its Worker and its broker go on.        *)
CrashRunner(k, i) ==
    /\ runner[<<k, i>>] = "attending"
    /\ runner' = [runner EXCEPT ![<<k, i>>] = "ended"]
    /\ UNCHANGED <<caseVars, assignment, materialVars, kernelVars, run, recorded, diagnosis,
                   worker, consumed, requests>>

(* mutation: the package is not looked at again when a run completes          *)
CompletesAnyway(k) == TRUE

CompletionAdmissible(k) == Admissible(PackageOf(target[k]))

Complete(k, i) ==
    /\ run[k] = "running" /\ runner[<<k, i>>] = "collected"
    /\ recorded[k] = i
    /\ CompletionAdmissible(k)
    /\ run' = [run EXCEPT ![k] = "completed"]
    /\ diagnosis' = [diagnosis EXCEPT ![k] = i]
    /\ UNCHANGED <<caseVars, assignment, materialVars, kernelVars, recorded, invocationVars>>
-----------------------------------------------------------------------------
(* mutation: only the package whose own artifact is erased is impacted        *)
OwnArtifact(m, a) == Root[PackageOf(a)] = m

Impacted(m, a) == m \in Material[PackageOf(a)]

Invalidated(s) ==
    CASE s = "unclaimed" -> "expired"
      [] s = "claimed" -> "cancelled"
      [] OTHER -> s

RequestErasure(m) ==
    /\ restriction[m] = "none" /\ \E n \in 0 .. latest : m \in Material[n]
    /\ restriction' = [restriction EXCEPT ![m] = "revoked_pending_deletion"]
    /\ assignment' = [a \in Assignments |->
            IF Impacted(m, a) THEN Invalidated(assignment[a]) ELSE assignment[a]]
    /\ UNCHANGED <<caseVars, bytes, kernelVars, run, recorded, diagnosis, invocationVars>>

(* mutation: the file is removed first, and the decision recorded after that   *)
Erasable(m) == \E n \in 0 .. latest : m \in Material[n]

Revoked(m) == restriction[m] = "revoked_pending_deletion"

(* Deletion of the file and its record are not one transaction.               *)
RemoveBytes(m) ==
    /\ Revoked(m) /\ m \in bytes
    /\ bytes' = bytes \ {m}
    /\ UNCHANGED <<caseVars, assignment, restriction, kernelVars, run, recorded, diagnosis,
                   invocationVars>>

SealAbsence(m) ==
    /\ Revoked(m) /\ m \notin bytes
    /\ restriction' = [restriction EXCEPT ![m] = "deleted_verified"]
    /\ UNCHANGED <<caseVars, assignment, bytes, kernelVars, run, recorded, diagnosis,
                   invocationVars>>

Next ==
    \/ \E n \in Revisions : CreateAssignment(n)
    \/ \E n \in Revisions : ReplaceAssignment(n)
    \/ \E n \in Revisions : SkipReplacement(n)
    \/ \E n \in Revisions : FailAssignmentStage(n)
    \/ \E replace \in BOOLEAN : ReviseEvidence(replace)
    \/ \E k \in Authorizations : RegisterConsistencyTest(k)
    \/ \E k \in Authorizations, a \in Assignments : EvaluateEligibility(k, a)
    \/ \E k \in Authorizations : IssueAuthorization(k)
    \/ \E k \in Authorizations : Claim(k)
    \/ \E k \in Authorizations : AuthorizeLaunch(k)
    \/ \E k \in Authorizations : \E i \in Invocations(k) : StartRunner(k, i)
    \/ \E k \in Authorizations : \E i \in Invocations(k) : RecordStarted(k, i)
    \/ \E k \in Authorizations : \E i \in Invocations(k) : ConsumeGrant(k, i)
    \/ \E k \in Authorizations : \E i \in Invocations(k) : ProviderAnswers(k, i)
    \/ \E k \in Authorizations : \E i \in Invocations(k) : CollectOutput(k, i)
    \/ \E k \in Authorizations : \E i \in Invocations(k) : AbortRunner(k, i)
    \/ \E k \in Authorizations : \E i \in Invocations(k) : CrashRunner(k, i)
    \/ \E k \in Authorizations : \E i \in Invocations(k) : Complete(k, i)
    \/ \E m \in Erasures : RequestErasure(m)
    \/ \E m \in Artifacts : RemoveBytes(m)
    \/ \E m \in Artifacts : SealAbsence(m)

Spec == Init /\ [][Next]_vars
-----------------------------------------------------------------------------
(* However many authorizations the Kernel signs for an Assignment, one claim   *)
(* wins: an Assignment is claimed, or was, exactly if it has one Worker Run.     *)
OneRunPerAssignment ==
    \A a \in Assignments :
        /\ assignment[a] \in {"claimed", "cancelled"}
              <=> \E k \in Authorizations : run[k] # "none" /\ target[k] = a
        /\ \A k, j \in Authorizations :
              run[k] # "none" /\ run[j] # "none" /\ target[k] = a /\ target[j] = a => k = j

(* No work is on offer for a package that has lost material: erasures see every *)
(* Assignment, also one created for a later package that shares the artifact.     *)
UnclaimedIsAdmissible == \A a \in Unclaimed : Admissible(PackageOf(a))

(* A replacement takes the place of one Assignment nobody ever worked on, and   *)
(* of one that nothing else replaces, however late the request is handled.        *)
ReplacementIsExact ==
    \A n \in Revisions : stage[n] = "created" /\ replaces[n] # Nothing =>
        /\ assignment[replaces[n]] = "expired"
        /\ \A k \in Authorizations : target[k] = replaces[n] => run[k] = "none"
        /\ \A o \in Revisions :
              stage[o] = "created" /\ replaces[o] = replaces[n] => o = n

(* A stored diagnosis comes from the invocation whose start was recorded first, *)
(* whatever other invocations of the same launch did, and cost one request.       *)
DiagnosisFromOneRequest ==
    \A k \in Authorizations : run[k] = "completed" =>
        /\ diagnosis[k] = recorded[k] /\ recorded[k] \in Invocations(k)
        /\ runner[<<k, recorded[k]>>] = "collected"
        /\ requests[<<k, recorded[k]>>] = 1

(* Nothing is missing without a decision to erase it, and what is sealed as     *)
(* deleted is gone, wherever an erasure was interrupted.                          *)
BytesMatchRestriction ==
    /\ \A n \in 0 .. latest : \A m \in Material[n] : restriction[m] = "none" => m \in bytes
    /\ \A m \in Artifacts : restriction[m] = "deleted_verified" => m \notin bytes

(* A Worker Run whose Assignment an erasure has cancelled is neither launched   *)
(* nor completed any more, although neither command looks at the Assignment.      *)
NoAuthorityAfterErasure ==
    [][\A k \in Authorizations :
            run'[k] # run[k] /\ run'[k] \in {"launching", "completed"} =>
                assignment[target[k]] = "claimed"]_vars
-----------------------------------------------------------------------------
(* What the promise is about: the Assignment a run has been claimed for, the    *)
(* requests behind its diagnosis, and the artifacts decided upon and sealed.      *)
Taken == [k \in Authorizations |-> IF run[k] = "none" THEN Nothing ELSE target[k]]
Prices == [k \in Authorizations |->
              IF run[k] = "completed" THEN requests[<<k, diagnosis[k]>>] ELSE 0]
Erased == {m \in Artifacts : restriction[m] # "none"}
Sealed == {m \in Artifacts : restriction[m] = "deleted_verified"}

Promise == INSTANCE DiagnosisPromise WITH
    Packages <- Revisions, Workers <- Authorizations,
    known <- 0 .. latest, offer <- assignment, on <- Taken, progress <- run,
    price <- Prices, erased <- Erased, sealed <- Sealed, held <- bytes

(* Claims that race, launches that are repeated, replacements handled late and  *)
(* erasures interrupted halfway come to this: an Assignment is worked on once, on *)
(* a package that is whole, by a run that asked the provider once.                  *)
ImplementsPromise == Promise!PromiseSpec
=============================================================================
