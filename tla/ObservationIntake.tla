-------------------------- MODULE ObservationIntake --------------------------
(***************************************************************************)
(* What the Diagnostic Plane accepts as observed, and under which authority.   *)
(* The Kernel publishes signed snapshots of a Reporting Grant, the Diagnostic   *)
(* Plane applies them and returns signed receipts, and the Kernel records what   *)
(* is effective.  Under an applied grant observers report, each on the stream     *)
(* of its grant; every request ends in an outcome at the next position of one      *)
(* installation-wide prefix, over which correlation projections are built.          *)
(* A snapshot is the number of its authority sequence, a digest a model value.       *)
(***************************************************************************)
EXTENDS Naturals, FiniteSets, Sequences

CONSTANTS
    Requests,       \* intake requests; a reporter that retries sends another
    Grants,         \* Observation Reporting Grants, each of one stream
    Observation,    \* signed material: identity, grant, stream sequence, digest
    MaxAdvance,     \* limits.max_sequence_advance of the grants
    MaxSnapshots,   \* bound: snapshots published in all
    MaxProjections  \* bound: revisions of the correlation projection

ASSUME IntakeAssumption ==
    /\ \A o \in Observation : o.grant \in Grants /\ o.number \in Nat \ {0}
    /\ {MaxAdvance, MaxSnapshots, MaxProjections} \subseteq Nat

VARIABLES
    readiness,      \* Kernel: status of the latest readiness receipt
    desired,        \* Kernel: desired_state
    effective,      \* Kernel: effective_state
    published,      \* Kernel: target states of the snapshots, in sequence
    expired,        \* snapshots whose expires_at has passed
    applied,        \* Diagnostic Plane: authority_sequence in effect, or 0
    applying,       \* the snapshot whose application holds the node row
    phase,          \* where receiveObservation has got with each request
    report,         \* what each request reports
    seen,           \* the snapshot it has found in effect
    covered,        \* the coverage it has read under the lock of its stream
    position,       \* the position it has been allocated, or 0
    answer,         \* what the reporter was told
    coverage,       \* sequences in received_ranges of each stream
    next,           \* next_position of the intake prefix
    outcomes,       \* diagnostic_intake_outcomes with their documents
    cutoff,         \* cutoff of the projection under way, or 0
    projections     \* revisions of the correlation projection

grantVars == <<readiness, desired, effective, published>>
planeVars == <<applied, applying>>
requestVars == <<phase, report, seen, covered, position, answer>>
prefixVars == <<coverage, next, outcomes>>
projectionVars == <<cutoff, projections>>
vars == <<grantVars, expired, planeVars, requestVars, prefixVars, projectionVars>>

(* Snapshots published so far: pairs of a grant and a sequence.                 *)
Snapshots == {s \in Grants \X (1 .. MaxSnapshots) : s[2] \in DOMAIN published[s[1]]}

NoReport == [id |-> "none", grant |-> "none", number |-> 0, digest |-> "none"]
NotApplying == [grant |-> "none", number |-> 0]

(* A transaction of receiveObservation is open in these phases.                *)
Locked == {"identity", "stream", "shared", "fresh", "allocated"}
Phase == {"new", "received", "authorized", "refused", "answered"} \union Locked
Kinds == {"accepted", "conflict", "rejected"}
Outcome == [position : Nat, kind : Kinds, report : Observation \union {NoReport}, under : Nat]

TypeOK ==
    /\ readiness \in [Grants -> {"none", "ready", "failed"}]
    /\ desired \in [Grants -> {"inactive", "activation_pending", "active",
                               "revocation_pending", "revoked"}]
    /\ effective \in [Grants -> {"inactive", "active_effective", "revoked_effective"}]
    /\ published \in [Grants -> Seq({"active", "revoked"})]
    /\ expired \in [Grants -> SUBSET Nat]
    /\ applied \in [Grants -> Nat]
    /\ applying \in [grant : Grants, number : Nat \ {0}] \union {NotApplying}
    /\ phase \in [Requests -> Phase]
    /\ report \in [Requests -> Observation \union {NoReport}]
    /\ seen \in [Requests -> Nat]
    /\ covered \in [Requests -> SUBSET Nat]
    /\ position \in [Requests -> Nat]
    /\ answer \in [Requests -> Kinds \union {"none", "replayed", "unavailable"}]
    /\ coverage \in [Grants -> SUBSET Nat]
    /\ next \in Nat \ {0}
    /\ outcomes \subseteq Outcome
    /\ cutoff \in Nat
    /\ projections \in Seq([cutoff : Nat, outcomes : SUBSET Outcome])

Init ==
    /\ readiness = [g \in Grants |-> "none"]
    /\ desired = [g \in Grants |-> "inactive"]
    /\ effective = [g \in Grants |-> "inactive"]
    /\ published = [g \in Grants |-> <<>>]
    /\ expired = [g \in Grants |-> {}]
    /\ applied = [g \in Grants |-> 0]
    /\ applying = NotApplying
    /\ phase = [r \in Requests |-> "new"]
    /\ report = [r \in Requests |-> NoReport]
    /\ seen = [r \in Requests |-> 0]
    /\ covered = [r \in Requests |-> {}]
    /\ position = [r \in Requests |-> 0]
    /\ answer = [r \in Requests |-> "none"]
    /\ coverage = [g \in Grants |-> {}]
    /\ next = 1 /\ outcomes = {}
    /\ cutoff = 0 /\ projections = <<>>
-----------------------------------------------------------------------------
(* The Kernel: readiness before anything is published, one snapshot pending at *)
(* a time, and effective only what a receipt proves applied.                    *)
Pending == {"activation_pending", "revocation_pending"}
PendingFor(target) ==
    IF target = "active" THEN "activation_pending" ELSE "revocation_pending"
EffectiveFor(target) ==
    IF target = "active" THEN "active_effective" ELSE "revoked_effective"

RecordReadiness(g, status) ==
    /\ desired[g] = "inactive"
    /\ readiness' = [readiness EXCEPT ![g] = status]
    /\ UNCHANGED <<desired, effective, published, expired, planeVars, requestVars,
                   prefixVars, projectionVars>>

MayPublish(g, target) ==
    /\ desired[g] \notin Pending
    /\ IF target = "active" THEN readiness[g] = "ready" /\ effective[g] # "active_effective"
                            ELSE effective[g] = "active_effective"

PublishSnapshot(g, target) ==
    /\ MayPublish(g, target) /\ Cardinality(Snapshots) < MaxSnapshots
    /\ published' = [published EXCEPT ![g] = Append(@, target)]
    /\ desired' = [desired EXCEPT ![g] = PendingFor(target)]
    /\ UNCHANGED <<readiness, effective, expired, planeVars, requestVars, prefixVars,
                   projectionVars>>

(* Of an applied snapshot expiry only says whether its receipt is handed out    *)
(* again.                                                                        *)
ExpireSnapshot(g, n) ==
    /\ n \in DOMAIN published[g] \ expired[g] /\ n > applied[g]
    /\ expired' = [expired EXCEPT ![g] = @ \union {n}]
    /\ UNCHANGED <<grantVars, planeVars, requestVars, prefixVars, projectionVars>>

AnyReceipt(g, n) == desired[g] \in Pending  \* mutation: a receipt not bound to the snapshot

IsPending(g, n) == desired[g] = PendingFor(published[g][n]) /\ n = Len(published[g])

(* Receipts arrive late, repeatedly and in any order.                           *)
AcceptApplicationReceipt(g, n) ==
    /\ n \in 1 .. applied[g]
    /\ IsPending(g, n)
    /\ desired' = [desired EXCEPT ![g] = published[g][n]]
    /\ effective' = [effective EXCEPT ![g] = EffectiveFor(published[g][n])]
    /\ UNCHANGED <<readiness, published, expired, planeVars, requestVars, prefixVars,
                   projectionVars>>
-----------------------------------------------------------------------------
(* The Diagnostic Plane applies a snapshot as a command: it holds the node row,  *)
(* then waits for the row of the grant, which intake shares.  A snapshot applied  *)
(* before is answered with its receipt and changes nothing.                        *)
Sharing == {"shared", "fresh", "allocated"}

RowUnguarded(g) == TRUE  \* mutation: intake reads the grant without FOR SHARE

RowFree(g) == \A r \in Requests : phase[r] \in Sharing => report[r].grant # g

NodeFree == applying = NotApplying

BeginApply(g, n) ==
    /\ NodeFree
    /\ n \in DOMAIN published[g] \ expired[g] /\ n > applied[g]
    /\ applying' = [grant |-> g, number |-> n]
    /\ UNCHANGED <<grantVars, expired, applied, requestVars, prefixVars, projectionVars>>

(* The state of a snapshot; without one there is no row.                         *)
StateOf(g, n) == IF n = 0 THEN "none" ELSE published[g][n]

ValidTransition(g, n) ==
    /\ n = applied[g] + 1
    /\ StateOf(g, n) # StateOf(g, applied[g])
    /\ applied[g] = 0 => StateOf(g, n) = "active"

FinishApply(g) ==
    /\ applying.grant = g
    /\ RowFree(g) /\ ValidTransition(g, applying.number)
    /\ applied' = [applied EXCEPT ![g] = applying.number]
    /\ applying' = NotApplying
    /\ UNCHANGED <<grantVars, expired, requestVars, prefixVars, projectionVars>>

(* Rolled back: refused, a lost connection, or the victim of a deadlock.          *)
AbortApply ==
    /\ ~ NodeFree
    /\ applying' = NotApplying
    /\ UNCHANGED <<grantVars, expired, applied, requestVars, prefixVars, projectionVars>>
-----------------------------------------------------------------------------
(* A request reads the grant and the coverage of its stream before its            *)
(* transaction opens; the coverage it read only bounds the advance.                *)
Accepted == {o \in outcomes : o.kind = "accepted"}
HighestSeen(g) == CHOOSE n \in coverage[g] \union {0} : \A m \in coverage[g] : m <= n

Receive(r, o) ==
    /\ phase[r] = "new"
    /\ report' = [report EXCEPT ![r] = o]
    /\ seen' = [seen EXCEPT ![r] = applied[o.grant]]
    /\ phase' = [phase EXCEPT ![r] = IF applied[o.grant] = 0 THEN "refused" ELSE "received"]
    /\ UNCHANGED <<covered, position, answer, grantVars, expired, planeVars, prefixVars,
                   projectionVars>>

(* Not JSON, too large, wrongly signed, or outside its schema.                     *)
ReceiveInvalid(r) ==
    /\ phase[r] = "new"
    /\ phase' = [phase EXCEPT ![r] = "refused"]
    /\ UNCHANGED <<report, seen, covered, position, answer, grantVars, expired, planeVars,
                   prefixVars, projectionVars>>

Authorized(r) ==
    /\ StateOf(report[r].grant, seen[r]) = "active"
    /\ report[r].number <= HighestSeen(report[r].grant) + MaxAdvance

Enter(r, p) ==
    /\ phase' = [phase EXCEPT ![r] = p]
    /\ UNCHANGED <<report, seen, covered, position, answer, grantVars, expired, planeVars,
                   prefixVars, projectionVars>>

Authorize(r) ==
    /\ phase[r] = "received"
    /\ Enter(r, IF Authorized(r) THEN "authorized" ELSE "refused")

(* Two advisory locks, in the order of their names.                                *)
LockIdentity(r) ==
    /\ phase[r] = "authorized"
    /\ \A p \in Requests : phase[p] \in Locked => report[p].id # report[r].id
    /\ Enter(r, "identity")

StreamUnlocked(r) == TRUE  \* mutation: only the identity is locked

StreamFree(r) ==
    \A p \in Requests : phase[p] \in Locked \ {"identity"} => report[p].grant # report[r].grant

LockStream(r) ==
    /\ phase[r] = "identity" /\ StreamFree(r)
    /\ Enter(r, "stream")

CheckGrant(r) ==
    /\ phase[r] = "stream"
    /\ Enter(r, IF applied[report[r].grant] = seen[r] THEN "shared" ELSE "refused")
-----------------------------------------------------------------------------
(* In the transaction: exact material is answered with its receipt, other        *)
(* material of the same identity or sequence is preserved as a conflict.           *)
Candidates(r) ==
    {o \in Accepted : \/ o.report.id = report[r].id
                      \/ /\ o.report.grant = report[r].grant
                         /\ o.report.number = report[r].number}

SameId(r, o) == o.report.id = report[r].id  \* mutation: a replay is told by its identity

Exact(r, o) == o.report = report[r]

PrefixFree == cutoff = 0 /\ \A r \in Requests : phase[r] # "allocated"

End(r, a) ==
    /\ phase' = [phase EXCEPT ![r] = "answered"]
    /\ answer' = [answer EXCEPT ![r] = a]
    /\ seen' = [seen EXCEPT ![r] = 0]
    /\ covered' = [covered EXCEPT ![r] = {}]
    /\ position' = [position EXCEPT ![r] = 0]
    /\ UNCHANGED <<report, grantVars, expired, planeVars, projectionVars>>

(* The last lock is taken, the outcome written and the transaction committed.      *)
Preserve(r, kind, n, under) ==
    /\ outcomes' = outcomes \union
          {[position |-> n, kind |-> kind, report |-> report[r], under |-> under]}
    /\ next' = n + 1

Replay(r) ==
    /\ phase[r] = "shared"
    /\ \E o \in Candidates(r) : Exact(r, o)
    /\ End(r, "replayed")
    /\ UNCHANGED prefixVars

PreserveConflict(r) ==
    /\ phase[r] = "shared"
    /\ Candidates(r) # {} /\ \A o \in Candidates(r) : ~ Exact(r, o)
    /\ PrefixFree
    /\ Preserve(r, "conflict", next, 0)
    /\ End(r, "conflict")
    /\ UNCHANGED coverage

ReadCoverage(r) ==
    /\ phase[r] = "shared" /\ Candidates(r) = {}
    /\ phase' = [phase EXCEPT ![r] = "fresh"]
    /\ covered' = [covered EXCEPT ![r] = coverage[report[r].grant]]
    /\ UNCHANGED <<report, seen, position, answer, grantVars, expired, planeVars, prefixVars,
                   projectionVars>>

AllocateFreely(r) == cutoff = 0  \* mutation: the counter is read without FOR UPDATE

MayAllocate(r) == PrefixFree

AllocatePosition(r) ==
    /\ phase[r] = "fresh" /\ MayAllocate(r)
    /\ phase' = [phase EXCEPT ![r] = "allocated"]
    /\ position' = [position EXCEPT ![r] = next]
    /\ UNCHANGED <<report, seen, covered, answer, grantVars, expired, planeVars, prefixVars,
                   projectionVars>>

(* The node row is the last lock: a snapshot being applied holds it too.            *)
Accept(r) ==
    /\ phase[r] = "allocated" /\ NodeFree
    /\ Preserve(r, "accepted", position[r], seen[r])
    /\ coverage' = [coverage EXCEPT ![report[r].grant] = covered[r] \union {report[r].number}]
    /\ End(r, "accepted")

(* A refusal is preserved in a transaction of its own, which may fail.              *)
PreserveRejection(r) ==
    /\ phase[r] = "refused" /\ PrefixFree
    /\ Preserve(r, "rejected", next, 0)
    /\ End(r, "rejected")
    /\ UNCHANGED coverage

LoseRejection(r) ==
    /\ phase[r] = "refused"
    /\ End(r, "rejected")
    /\ UNCHANGED prefixVars

(* A lost connection, a crash, or the victim of a deadlock: rolled back, and no     *)
(* outcome is left.                                                                  *)
FailRequest(r) ==
    /\ phase[r] \in {"received", "authorized"} \union Locked
    /\ End(r, "unavailable")
    /\ UNCHANGED prefixVars
-----------------------------------------------------------------------------
(* A projection reads everything up to its cutoff while it holds the prefix.         *)
CaptureCutoff ==
    /\ PrefixFree /\ next > 1
    /\ cutoff' = next - 1
    /\ UNCHANGED <<grantVars, expired, planeVars, requestVars, prefixVars, projections>>

UpTo(n) == {o \in outcomes : o.position <= n}
CompletePrefix(n) == {o.position : o \in UpTo(n)} = 1 .. n

CreateProjection ==
    /\ cutoff > 0
    /\ CompletePrefix(cutoff)
    /\ \A i \in DOMAIN projections : projections[i].cutoff # cutoff
    /\ Len(projections) < MaxProjections
    /\ projections' = Append(projections, [cutoff |-> cutoff, outcomes |-> UpTo(cutoff)])
    /\ cutoff' = 0
    /\ UNCHANGED <<grantVars, expired, planeVars, requestVars, prefixVars>>

(* The same cutoff again, an incomplete prefix, or a failure: nothing is added.       *)
EndProjection ==
    /\ cutoff > 0
    /\ cutoff' = 0
    /\ UNCHANGED <<grantVars, expired, planeVars, requestVars, prefixVars, projections>>
-----------------------------------------------------------------------------
GrantStep(g) ==
    \/ \E status \in {"ready", "failed"} : RecordReadiness(g, status)
    \/ \E target \in {"active", "revoked"} : PublishSnapshot(g, target)
    \/ \E n \in 1 .. MaxSnapshots :
          ExpireSnapshot(g, n) \/ AcceptApplicationReceipt(g, n) \/ BeginApply(g, n)
    \/ FinishApply(g)

Handle(r) ==
    \/ Authorize(r) \/ LockIdentity(r) \/ LockStream(r) \/ CheckGrant(r)
    \/ Replay(r) \/ PreserveConflict(r) \/ ReadCoverage(r) \/ AllocatePosition(r) \/ Accept(r)
    \/ PreserveRejection(r)

RequestStep(r) ==
    \/ \E o \in Observation : Receive(r, o)
    \/ ReceiveInvalid(r) \/ Handle(r) \/ LoseRejection(r) \/ FailRequest(r)

Next ==
    \/ \E g \in Grants : GrantStep(g)
    \/ AbortApply
    \/ \E r \in Requests : RequestStep(r)
    \/ CaptureCutoff \/ CreateProjection \/ EndProjection

Spec == Init /\ [][Next]_vars
-----------------------------------------------------------------------------
(* Properties.                                                                *)

(* Every outcome has a position of its own in one prefix without gaps, and what a   *)
(* projection read up to its cutoff is what stands there for good                    *)
(* (docs/adr/0098-use-a-serialized-committed-prefix-for-diagnostic-cutoffs.md).       *)
PrefixIsStable ==
    /\ {o.position : o \in outcomes} = 1 .. next - 1
    /\ \A o, p \in outcomes : o.position = p.position => o = p
    /\ \A i \in DOMAIN projections : projections[i].outcomes = UpTo(projections[i].cutoff)
    /\ \A i, j \in DOMAIN projections : i < j => projections[i].cutoff < projections[j].cutoff

(* An identity and a sequence of a stream are accepted once, whoever reports them     *)
(* at the same time, and what a reporter is told is on record: the receipt of its       *)
(* very material, or the conflict of other material with a receipt.                      *)
AnswersAreOnRecord ==
    /\ \A o, p \in Accepted :
          \/ o.report.id = p.report.id
          \/ o.report.grant = p.report.grant /\ o.report.number = p.report.number
          => o = p
    /\ \A r \in Requests :
          /\ answer[r] \in {"accepted", "replayed"} =>
                \E o \in Accepted : o.report = report[r]
          /\ answer[r] = "conflict" =>
                /\ \E o \in outcomes : o.kind = "conflict" /\ o.report = report[r]
                /\ \E o \in Candidates(r) : o.report # report[r]

(* The coverage of a stream is what has been accepted on it, and nothing was accepted    *)
(* further ahead of what came before it than the grant allows, although the advance is     *)
(* judged by a coverage read before the transaction.                                        *)
CoverageIsReceived ==
    /\ \A g \in Grants :
          coverage[g] = {o.report.number : o \in {p \in Accepted : p.report.grant = g}}
    /\ \A o \in Accepted :
          \/ o.report.number <= MaxAdvance
          \/ \E p \in Accepted :
                /\ p.report.grant = o.report.grant /\ p.position < o.position
                /\ o.report.number <= p.report.number + MaxAdvance

(* The Kernel never records as effective what the Diagnostic Plane has not applied, and    *)
(* knows of every change but the one that is pending                                         *)
(* (docs/adr/0102-require-durable-grant-application-before-effective-state.md).               *)
EffectiveIsApplied ==
    \A g \in Grants :
        /\ applied[g] <= Len(published[g])
        /\ desired[g] \notin Pending =>
              /\ applied[g] = Len(published[g])
              /\ EffectiveFor(StateOf(g, applied[g])) = effective[g] \/ applied[g] = 0
        /\ desired[g] \in Pending => applied[g] + 1 >= Len(published[g])
        /\ effective[g] = "active_effective" =>
              StateOf(g, applied[g]) = "active" \/ desired[g] = "revocation_pending"

(* A receipt is committed only while the snapshot it was authorized under is in effect     *)
(* and active, so none once the Kernel knows of a revocation: the grant is read long          *)
(* before the transaction, and applications go on meanwhile.                                   *)
AcceptedInAuthority ==
    [][\A o \in {p \in outcomes' \ outcomes : p.kind = "accepted"} :
          /\ applied[o.report.grant] = o.under
          /\ StateOf(o.report.grant, o.under) = "active"
          /\ effective[o.report.grant] # "revoked_effective"
             \/ desired[o.report.grant] = "activation_pending"]_vars

(* Behind its locks, retries and rollbacks, intake keeps the promise of                    *)
(* IntakePromise: whoever sends what at the same time as whom, each answer is given at        *)
(* one instant and true of the record and the authority of that instant.                       *)
InEffect == [g \in Grants |-> [state |-> StateOf(g, applied[g]), number |-> applied[g]]]

KnownState(state) ==
    CASE state = "active_effective" -> "active"
      [] state = "revoked_effective" -> "revoked"
      [] OTHER -> "none"

Known == [g \in Grants |-> KnownState(effective[g])]

Promise == INSTANCE IntakePromise WITH
    Reporters <- Requests, Nothing <- NoReport, authority <- InEffect, known <- Known,
    sent <- report, told <- answer, record <- outcomes, length <- next - 1,
    readings <- projections

ImplementsPromise == Promise!PromiseSpec
=============================================================================
