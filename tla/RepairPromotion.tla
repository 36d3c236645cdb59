-------------------------- MODULE RepairPromotion --------------------------
(***************************************************************************)
(* How a repair reaches production: one workflow of the customer (the target, *)
(* held by n8n), the Diagnostic Cases about it, their Repair Tasks with leases, *)
(* the candidates, their inactive delivery, their verification, and the          *)
(* Promotions with reconciliation and rollback.  Every command of the Diagnostic  *)
(* Node holds the row of the node (diagnostic-database.js:41), so it is one step,  *)
(* with the reads of the target it makes; the calls that change the target are     *)
(* made between two commands, and anybody else may write the target too.           *)
(***************************************************************************)
EXTENDS Naturals, Sequences, FiniteSets

CONSTANTS
    Tasks,          \* identities of Repair Tasks: <<case, lease epoch>>
    LeaseTime,      \* lease_duration_seconds of a task
    PassportEnd,    \* when the passports of the Repair Workers expire
    Horizon, MaxRevision,       \* bounds: the clock and the writes to the target,
    MaxEdits,       \* and those among them that are not of a Promotion
    Behaviours,     \* what a workflow may do: nodes, connections and settings
    Patch,          \* what the repair of each task makes of a behaviour it supports
    Original,       \* the behaviour of the target at the start
    Customer        \* who wrote the target when it was not a Promotion

(* A task has at most one candidate, one delivery and one Promotion (UNIQUE in *)
(* the migrations 004, 005 and 007), so all of them share its identity.         *)
ASSUME RepairAssumption ==
    /\ \A k \in Tasks : /\ k \in {k[1]} \X (Nat \ {0})
                        /\ k[2] # 1 => <<k[1], k[2] - 1>> \in Tasks
    /\ LeaseTime \in Nat \ {0} /\ PassportEnd \in Nat
    /\ Customer \notin Tasks /\ Original \in Behaviours
    /\ \A k \in Tasks : \A b \in DOMAIN Patch[k] : b \in Behaviours /\ Patch[k][b] \in Behaviours

VARIABLES
    now,            \* the clock
    task,           \* diagnostic_repair_tasks and the end of the lease
    candidate,      \* the last of diagnostic_repair_candidate_events
    base,           \* actual_base_revision_digest of the delivery, 0 for none
    receipts,       \* diagnostic_verification_receipts
    promotion,      \* diagnostic_promotions and their last event, with the revisions
                    \* the confirmation and the rollback recorded
    call,           \* the adapter call a request handler is making for a Promotion
    pending,        \* PUT requests on their way to the target, or lost
    target          \* every revision of the target: what it does and who wrote it

vars == <<now, task, candidate, base, receipts, promotion, call, pending, target>>

TaskStates == {"none", "available", "leased", "submitted", "ended"}
CandidateStates == {"none", "proposed", "verification_pending", "verified", "rejected"}
PromotionStates == {"none", "authorized", "applying", "uncertain", "confirmed", "failed",
                    "target_mismatch", "rolling_back", "rolled_back"}
Kinds == {"apply", "rollback"}

Calls == [kind : Kinds, stage : {"none", "check", "sent", "doubt", "read", "record"},
          seen : Nat]
Writes == [does : Behaviours, of : Tasks \union {Customer}, kind : Kinds \union {"edit"}]

TypeOK ==
    /\ now \in Nat
    /\ task \in [Tasks -> [status : TaskStates, until : Nat]]
    /\ candidate \in [Tasks -> CandidateStates]
    /\ base \in [Tasks -> Nat]
    /\ receipts \subseteq [of : Tasks, with : SUBSET Tasks, passed : BOOLEAN]
    /\ promotion \in [Tasks -> [state : PromotionStates, confirmed : Nat, restored : Nat]]
    /\ call \in [Tasks -> Calls]
    /\ pending \in [Tasks -> [Kinds -> Nat]]
    /\ target \in Seq(Writes)

NoCall == [kind |-> "apply", stage |-> "none", seen |-> 0]

Init ==
    /\ now = 0
    /\ task = [k \in Tasks |-> [status |-> "none", until |-> 0]]
    /\ candidate = [k \in Tasks |-> "none"]
    /\ base = [k \in Tasks |-> 0]
    /\ receipts = {}
    /\ promotion = [k \in Tasks |-> [state |-> "none", confirmed |-> 0, restored |-> 0]]
    /\ call = [k \in Tasks |-> NoCall]
    /\ pending = [k \in Tasks |-> [kind \in Kinds |-> 0]]
    /\ target = <<[does |-> Original, of |-> Customer, kind |-> "edit"]>>
-----------------------------------------------------------------------------
(* Repair Tasks.  An available task, or one whose lease has not run out, is   *)
(* live; the expiry is projected from the clock, nothing records it.            *)
Leased(k) == task[k].status = "leased" /\ now < task[k].until
Live(k) == task[k].status = "available" \/ Leased(k)
LeaseEnd == IF now + LeaseTime < PassportEnd THEN now + LeaseTime ELSE PassportEnd

(* mutation: only the tasks of a case are looked at, not its candidates        *)
OccupiedByNone(c) == FALSE

Occupied(c) == \E k \in Tasks :
    k[1] = c /\ candidate[k] \in {"proposed", "verification_pending", "verified"}

Previous(k) == <<k[1], k[2] - 1>>
PreviousOver(k) == k[2] # 1 => task[Previous(k)].status # "none" /\ ~Live(Previous(k))

TaskMoves(k, status, until) ==
    /\ task' = [task EXCEPT ![k] = [status |-> status, until |-> until]]
    /\ UNCHANGED <<now, base, receipts, promotion, call, pending, target>>

CreateTask(k) ==
    /\ task[k].status = "none" /\ PreviousOver(k)
    /\ now < PassportEnd /\ ~Occupied(k[1])
    /\ TaskMoves(k, "available", 0) /\ UNCHANGED candidate

ClaimTask(k) ==
    /\ task[k].status = "available" /\ now < PassportEnd
    /\ TaskMoves(k, "leased", LeaseEnd) /\ UNCHANGED candidate

Heartbeat(k) ==
    /\ Leased(k)
    /\ TaskMoves(k, "leased", LeaseEnd) /\ UNCHANGED candidate

(* A repeated submission of the same material changes nothing.                 *)
SubmitCandidate(k) ==
    /\ Leased(k)
    /\ candidate' = [candidate EXCEPT ![k] = "proposed"]
    /\ TaskMoves(k, "submitted", 0)

(* The worker fails or releases the task, or submits what is not valid; "ended" *)
(* stands for failed, released and cancelled, which nothing tells apart.          *)
FinishTask(k) ==
    /\ Leased(k)
    /\ TaskMoves(k, "ended", 0) /\ UNCHANGED candidate

CancelTask(k) ==
    /\ Live(k)
    /\ TaskMoves(k, "ended", 0) /\ UNCHANGED candidate
-----------------------------------------------------------------------------
(* The target.  Its revisions are numbered: the digest covers the version id  *)
(* n8n gives to every write, and the static data executions leave behind, which   *)
(* are taken not to come back.  What it does may come back, or be what another     *)
(* candidate does: behaviours are compared, and never who wrote them.               *)
Revision == Len(target)
Does == target[Revision].does

(* What a rollback puts back: the snapshot taken when the apply was requested, *)
(* of the revision the candidate was delivered against.                          *)
Snapshot(k) == target[base[k]].does

(* What the candidate does: the base it was delivered against, patched.        *)
Repaired(k) == Patch[k][Snapshot(k)]

Intended(k, kind) == IF kind = "apply" THEN Repaired(k) ELSE Snapshot(k)
Written(k, kind) == [does |-> Intended(k, kind), of |-> k, kind |-> kind]

(* Materializing reads the target before and after it creates the inactive     *)
(* candidate, and fails unless both are the revision the caller expected, and     *)
(* unless the patch knows the nodes it finds there.                                *)
MaterializeCandidate(k) ==
    /\ candidate[k] = "proposed" /\ Does \in DOMAIN Patch[k]
    /\ base' = [base EXCEPT ![k] = Revision]
    /\ candidate' = [candidate EXCEPT ![k] = "verification_pending"]
    /\ UNCHANGED <<now, task, receipts, promotion, call, pending, target>>

(* The regressions of other candidates that have passed are run again.         *)
Retained(k) == {r.of : r \in {q \in receipts : q.passed}} \ {k}

(* A verification with the same dependencies returns the receipt there is.     *)
CreateVerification(k) ==
    /\ candidate[k] \in {"verification_pending", "verified", "rejected"}
    /\ \A r \in receipts : r.of = k => r.with # Retained(k)
    /\ \E passed \in BOOLEAN :
         /\ receipts' = receipts \union {[of |-> k, with |-> Retained(k), passed |-> passed]}
         /\ candidate' = [candidate EXCEPT ![k] = IF passed THEN "verified" ELSE "rejected"]
    /\ UNCHANGED <<now, task, base, promotion, call, pending, target>>
-----------------------------------------------------------------------------
PromotionMoves(k, state, confirmed, restored) ==
    /\ promotion' = [promotion EXCEPT
          ![k] = [state |-> state, confirmed |-> confirmed, restored |-> restored]]
    /\ UNCHANGED <<now, task, candidate, base, receipts, pending, target>>

CallMoves(k, kind, stage, seen) ==
    call' = [call EXCEPT ![k] = [kind |-> kind, stage |-> stage, seen |-> seen]]
Begin(k, kind) == CallMoves(k, kind, "check", 0)
Proceed(k, stage, seen) == CallMoves(k, call[k].kind, stage, seen)
Return(k) == CallMoves(k, "apply", "none", 0)

Passed(k) == \E r \in receipts : r.of = k /\ r.passed

(* The caller names any receipt of the candidate that passed, not its last.    *)
AuthorizePromotion(k) ==
    /\ promotion[k].state = "none"
    /\ candidate[k] = "verified" /\ Passed(k)
    /\ base[k] = Revision
    /\ PromotionMoves(k, "authorized", 0, 0)
    /\ UNCHANGED call

(* mutation: an uncertain application may be requested again                   *)
MayApplyAgain(k) == promotion[k].state \in {"authorized", "uncertain"}

MayApply(k) == promotion[k].state = "authorized"

RequestApply(k) ==
    /\ MayApply(k) /\ base[k] = Revision
    /\ PromotionMoves(k, "applying", 0, 0)
    /\ Begin(k, "apply")

RequestRollback(k) ==
    /\ promotion[k].state = "confirmed"
    /\ PromotionMoves(k, "rolling_back", promotion[k].confirmed, 0)
    /\ Begin(k, "rollback")

(* promote and rollback read the target once more before they write it.        *)
Expected(k) == IF call[k].kind = "apply" THEN base[k] ELSE promotion[k].confirmed

SendWrite(k) ==
    /\ call[k].stage = "check" /\ Revision = Expected(k)
    /\ pending' = [pending EXCEPT ![k][call[k].kind] = @ + 1]
    /\ Proceed(k, "sent", 0)
    /\ UNCHANGED <<now, task, candidate, base, receipts, promotion, target>>

(* The target takes the write whenever it arrives; a PUT names no revision.    *)
LandWrite(k, kind) ==
    /\ pending[k][kind] > 0 /\ Revision < MaxRevision
    /\ pending' = [pending EXCEPT ![k][kind] = @ - 1]
    /\ target' = Append(target, Written(k, kind))
    /\ UNCHANGED <<now, task, candidate, base, receipts, promotion, call>>

AnswerWrite(k) ==
    /\ call[k].stage = "sent" /\ pending[k][call[k].kind] = 0
    /\ Proceed(k, "read", 0)
    /\ UNCHANGED <<now, task, candidate, base, receipts, promotion, pending, target>>

(* No answer in time: only a promotion calls that uncertain.                   *)
MissAnswer(k) ==
    /\ call[k].stage = "sent"
    /\ IF call[k].kind = "apply" THEN Proceed(k, "doubt", 0) ELSE Return(k)
    /\ UNCHANGED <<now, task, candidate, base, receipts, promotion, pending, target>>

ReadBack(k) ==
    /\ call[k].stage = "read" /\ Does = Intended(k, call[k].kind)
    /\ Proceed(k, "record", Revision)
    /\ UNCHANGED <<now, task, candidate, base, receipts, promotion, pending, target>>

(* Every other end of the call is an error the caller sees and nothing records: *)
(* drift before the write, a GET without an answer, a target that does not do     *)
(* what was written, n8n refusing the PUT (which then is never taken).               *)
FailCall(k) ==
    /\ call[k].stage \in {"check", "sent", "read"}
    /\ Return(k)
    /\ UNCHANGED <<now, task, candidate, base, receipts, promotion, pending, target>>

(* The second command: record_uncertain, confirm or confirm_rollback.          *)
RecordUncertain(k) ==
    /\ call[k].stage = "doubt" /\ promotion[k].state = "applying"
    /\ PromotionMoves(k, "uncertain", 0, 0)
    /\ Return(k)

RecordConfirmed(k) ==
    /\ call[k].stage = "record" /\ call[k].kind = "apply" /\ promotion[k].state = "applying"
    /\ PromotionMoves(k, "confirmed", call[k].seen, 0)
    /\ Return(k)

RecordRolledBack(k) ==
    /\ call[k].stage = "record" /\ call[k].kind = "rollback"
    /\ promotion[k].state = "rolling_back"
    /\ PromotionMoves(k, "rolled_back", promotion[k].confirmed, call[k].seen)
    /\ Return(k)

(* mutation: a target that has changed is taken for the application            *)
Changed(k) == Revision # base[k]

Applied(k) == Does = Repaired(k)

(* The outcome of a reconciliation, from one read of the target.               *)
ReconcilePromotion(k) ==
    /\ promotion[k].state = "uncertain"
    /\ \/ /\ Revision = base[k]
          /\ PromotionMoves(k, "failed", 0, 0)
       \/ /\ Revision # base[k] /\ Applied(k)
          /\ PromotionMoves(k, "confirmed", Revision, 0)
       \/ /\ Revision # base[k] /\ ~Applied(k)
          /\ PromotionMoves(k, "target_mismatch", 0, 0)
    /\ UNCHANGED call
-----------------------------------------------------------------------------
(* The process of the Node dies: what is on its way to n8n may still arrive.   *)
Crash ==
    /\ call' = [k \in Tasks |-> NoCall]
    /\ UNCHANGED <<now, task, candidate, base, receipts, promotion, pending, target>>

(* Somebody edits the workflow in n8n, to whatever it may do, a candidate's     *)
(* repair included; or it is renamed, switched on or off, or executed, which is     *)
(* a new revision that does the same.                                                *)
Edit(b) ==
    /\ Revision < MaxRevision
    /\ Cardinality({i \in 2 .. Revision : target[i].of = Customer}) < MaxEdits
    /\ target' = Append(target, [does |-> b, of |-> Customer, kind |-> "edit"])
    /\ UNCHANGED <<now, task, candidate, base, receipts, promotion, call, pending>>

Tick ==
    /\ now < Horizon /\ now' = now + 1
    /\ UNCHANGED <<task, candidate, base, receipts, promotion, call, pending, target>>

Next ==
    \/ \E k \in Tasks : CreateTask(k)
    \/ \E k \in Tasks : ClaimTask(k)
    \/ \E k \in Tasks : Heartbeat(k)
    \/ \E k \in Tasks : SubmitCandidate(k)
    \/ \E k \in Tasks : FinishTask(k)
    \/ \E k \in Tasks : CancelTask(k)
    \/ \E k \in Tasks : MaterializeCandidate(k)
    \/ \E k \in Tasks : CreateVerification(k)
    \/ \E k \in Tasks : AuthorizePromotion(k)
    \/ \E k \in Tasks : RequestApply(k)
    \/ \E k \in Tasks : RequestRollback(k)
    \/ \E k \in Tasks : SendWrite(k)
    \/ \E k \in Tasks, kind \in Kinds : LandWrite(k, kind)
    \/ \E k \in Tasks : AnswerWrite(k)
    \/ \E k \in Tasks : MissAnswer(k)
    \/ \E k \in Tasks : ReadBack(k)
    \/ \E k \in Tasks : FailCall(k)
    \/ \E k \in Tasks : RecordUncertain(k)
    \/ \E k \in Tasks : RecordConfirmed(k)
    \/ \E k \in Tasks : RecordRolledBack(k)
    \/ \E k \in Tasks : ReconcilePromotion(k)
    \/ Crash
    \/ \E b \in Behaviours : Edit(b)
    \/ Tick

Spec == Init /\ [][Next]_vars
-----------------------------------------------------------------------------
(* A case is worked on by one attempt at a time: once a task has a successor,  *)
(* its lease never comes back, and no candidate of it is awaiting delivery or     *)
(* verification, however late its worker is (requireLiveLease, createTask).        *)
OneAttemptAtATime ==
    \A j, k \in Tasks : j[1] = k[1] /\ j[2] < k[2] /\ task[k].status # "none" =>
        ~Live(j) /\ candidate[j] \notin {"proposed", "verification_pending"}

(* What Alphonse writes to the target, it writes once for each order of the    *)
(* Owner, and the order was given for a candidate that had passed and for the     *)
(* revision it was verified against; no retry, crash or reconciliation sends it    *)
(* again (docs/promotion-reconciliation-and-rollback.md:3,15).                      *)
OnlyOrderedWrites ==
    \A i \in DOMAIN target : target[i].kind # "edit" =>
        LET k == target[i].of
        IN  /\ Passed(k) /\ base[k] \in 1 .. i - 1
            /\ promotion[k].state \notin {"none", "authorized"}
            /\ target[i].kind = "rollback" =>
                  /\ promotion[k].confirmed \in 1 .. i - 1
                  /\ promotion[k].state \in {"rolling_back", "rolled_back"}
            /\ \A n \in DOMAIN target :
                  (target[n].of = k /\ target[n].kind = target[i].kind) => n = i

(* The records of a Promotion are true of the target, whoever else wrote it    *)
(* meanwhile, and however late: at the revision recorded as confirmed, a later     *)
(* one than the base, the target did what the candidate does                         *)
(* (docs/promotion-reconciliation-and-rollback.md:11); at the one recorded as         *)
(* rolled back, later still, it did again what the base does (ibid.:27).  Who            *)
(* wrote either is not recorded, and not claimed.                                         *)
RecordsTrue ==
    \A k \in Tasks :
        LET p == promotion[k]
        IN  /\ p.state \in {"confirmed", "rolling_back", "rolled_back"} =>
                  /\ p.confirmed \in base[k] + 1 .. Len(target)
                  /\ target[p.confirmed].does = Repaired(k)
            /\ p.state = "rolled_back" =>
                  /\ p.restored \in p.confirmed + 1 .. Len(target)
                  /\ target[p.restored].does = Snapshot(k)

(* RepairPromise: the leases of attempts, the calls and their ends, late answers  *)
(* and uncertainty are the affair of the Node; what concerns the Owner is that an   *)
(* order is carried out once at most and that what is said of it was so.              *)
Begun == {k \in Tasks : task[k].status # "none"}
Open == {k \in Tasks : Live(k) \/ candidate[k] \in {"proposed", "verification_pending"}}
PassedTasks == {k \in Tasks : Passed(k)}

OrderedFor(k) ==
    [kind \in Kinds |->
        IF kind = "apply"
        THEN IF promotion[k].state \in {"none", "authorized"} THEN 0 ELSE base[k]
        ELSE IF promotion[k].state \in {"rolling_back", "rolled_back"}
             THEN promotion[k].confirmed ELSE 0]

Orders == [k \in Tasks |-> OrderedFor(k)]

VerdictOn(k) ==
    LET p == promotion[k] IN
    CASE p.state \in {"confirmed", "rolling_back"} -> [says |-> "confirmed", at |-> p.confirmed]
      [] p.state = "rolled_back" -> [says |-> "rolled_back", at |-> p.restored]
      [] p.state \in {"failed", "target_mismatch"} -> [says |-> p.state, at |-> 0]
      [] OTHER -> [says |-> "none", at |-> 0]

Verdicts == [k \in Tasks |-> VerdictOn(k)]

Promise == INSTANCE RepairPromise WITH
    Attempts <- Tasks, begun <- Begun, open <- Open, passed <- PassedTasks,
    order <- Orders, verdict <- Verdicts

ImplementsPromise == Promise!PromiseSpec
=============================================================================
