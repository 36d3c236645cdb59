------------------------- MODULE EnvironmentRestore -------------------------
(***************************************************************************)
(* Backup and restore of an Environment whose corrections live outside it:   *)
(* the database goes back to the restore point, the storefront and the       *)
(* trusted adapter do not.  Restore sessions fence the Environment and turn   *)
(* every effect that may have been applied into a Recovery Case.              *)
(***************************************************************************)
EXTENDS EffectLifecycle

CONSTANTS
    MaxSessions,  \* bound: restore sessions
    MaxBackups,   \* bound: bundles taken, each replacing the one before
    MaxRestores   \* bound: times a bundle is restored

ASSUME SessionAssumption == MaxSessions \in Nat \ {0}
ASSUME BackupAssumption == MaxBackups \in Nat /\ MaxRestores \in Nat

Sessions == 1 .. MaxSessions

VARIABLES
    session,       \* kernel_restore_sessions.status, "none" before begin
    sessionEpoch,  \* its execution_epoch
    mustResolve,   \* kernel_restore_obligations of each session, by effect
    projected,     \* kernel_projection_states has the Butler projection
    backup,        \* the latest backup bundle: database contents and manifest
    drift,         \* next_sequence moved past the manifest's restore point
    restores,      \* how often a bundle was restored
    fencing,       \* local-backup.js is between pg_restore and its fence
    forgotten,     \* history: effects that a restore has erased
    exposed        \* history: effects whose spent permit came back unspent and unfenced

sessionVars == <<session, sessionEpoch, mustResolve, projected>>
restoreVars == <<sessionVars, backup, drift, restores, fencing, forgotten, exposed>>
allVars == <<vars, restoreVars>>

SessionStatus == {"none", "suspended", "reconciling", "verified", "resumed"}

(* What pg_dump saves and pg_restore brings back. *)
Database ==
    [taken |-> backup.taken + 1, epoch |-> epoch, effect |-> effect, permit |-> permit,
     brokered |-> brokered, grantEpoch |-> grantEpoch, execution |-> execution,
     accountability |-> accountability, obligation |-> obligation, case |-> case,
     reconPermits |-> reconPermits, session |-> session, sessionEpoch |-> sessionEpoch,
     mustResolve |-> mustResolve, projected |-> projected]

NoBackup == [taken |-> 0]
HaveBackup == backup.taken > 0

RestoreTypeOK ==
    /\ TypeOK
    /\ session \in [Sessions -> SessionStatus]
    /\ sessionEpoch \in [Sessions -> Nat]
    /\ mustResolve \in [Sessions -> SUBSET Effects]
    /\ projected \in BOOLEAN
    /\ backup.taken \in Nat
    /\ drift \in BOOLEAN
    /\ restores \in Nat
    /\ fencing \in BOOLEAN
    /\ forgotten \in SUBSET Effects
    /\ exposed \in SUBSET Effects

RestoreInit ==
    /\ Init
    /\ session = [i \in Sessions |-> "none"]
    /\ sessionEpoch = [i \in Sessions |-> 0]
    /\ mustResolve = [i \in Sessions |-> {}]
    /\ projected = FALSE
    /\ backup = NoBackup
    /\ drift = TRUE
    /\ restores = 0
    /\ fencing = FALSE
    /\ forgotten = {}
    /\ exposed = {}
-----------------------------------------------------------------------------
(* local-backup.js create, with the workload stopped as its guide requires. A *)
(* bundle of a suspended Environment cannot be pre-fenced and is not kept.     *)
TakeBackup ==
    /\ operational = "active" /\ ~ fencing
    /\ backup.taken < MaxBackups
    /\ backup' = Database
    /\ drift' = FALSE
    /\ UNCHANGED <<vars, sessionVars, restores, fencing, forgotten, exposed>>

(* local-backup.js restore, which wants the Kernel stopped: pg_restore brings    *)
(* back the database of the restore point, active and in its old epoch.          *)
(* Storefront, adapter and the clock go on.                                      *)
RestoreBytes ==
    /\ HaveBackup
    /\ restores < MaxRestores /\ restores' = restores + 1
    /\ fencing' = TRUE
    /\ operational' = "active"
    /\ epoch' = backup.epoch
    /\ effect' = backup.effect /\ permit' = backup.permit
    /\ brokered' = backup.brokered /\ grantEpoch' = backup.grantEpoch
    /\ execution' = backup.execution /\ accountability' = backup.accountability
    /\ obligation' = backup.obligation /\ case' = backup.case
    /\ reconPermits' = backup.reconPermits
    /\ session' = backup.session /\ sessionEpoch' = backup.sessionEpoch
    /\ mustResolve' = backup.mustResolve /\ projected' = backup.projected
    /\ dispatcher' = [e \in Effects |-> "idle"]
    /\ reconciler' = [e \in Effects |-> NoReading]
    /\ drift' = FALSE
    /\ forgotten' = forgotten \union
          {e \in Effects : effect[e] # "none" /\ backup.effect[e] = "none"}
    /\ UNCHANGED <<lapsed, revoked, adapter, write, storefrontVars, puts, quiet, backup, exposed>>

SameEpoch == epoch  \* mutation: no fence for old Workload Grants

FencedEpoch == epoch + 1

(* Then psql, in a transaction of its own, fences what was restored ...        *)
FenceRestored ==
    /\ fencing /\ operational = "active"
    /\ operational' = "restore_suspended"
    /\ epoch' = FencedEpoch
    /\ fencing' = FALSE
    /\ UNCHANGED <<kernelVars, lapsed, revoked, dispatcher, adapter, write, reconciler,
                   storefrontVars, puts, quiet, sessionVars, backup, drift, restores,
                   forgotten, exposed>>

(* ... or it fails, or the tool dies before it, and the Kernel is started all   *)
(* the same: every permit that was unspent at the restore point is good again.  *)
LeaveUnfenced ==
    /\ fencing
    /\ fencing' = FALSE
    /\ exposed' = exposed \union {e \in Effects : Unspent(e)}
    /\ UNCHANGED <<vars, sessionVars, backup, drift, restores, forgotten>>
-----------------------------------------------------------------------------
Begun(i) == session[i] # "none"
Unfinished(i) == session[i] \in {"suspended", "reconciling", "verified"}

NextEpoch == backup.epoch + 1

PreFenced == operational = "restore_suspended" /\ epoch = NextEpoch

(* The effects a restore cannot be sure about, and those without a case yet.   *)
MissesAdmitted == {e \in Effects : effect[e] \in {"dispatching", "uncertain"}}  \* mutation

Candidates == {e \in Effects : effect[e] \in {"admitted", "dispatching", "uncertain"}}
Undecided == {e \in Candidates : case[e] = "none"}

(* begin: against the manifest of the backup, in place or pre-fenced. *)
BeginRestore(i) ==
    /\ ~ fencing
    /\ session[i] = "none" /\ \A j \in 1 .. (i - 1) : Begun(j)
    /\ \A j \in Sessions : ~ Unfinished(j)
    /\ HaveBackup /\ ~ drift
    /\ PreFenced \/ (operational = "active" /\ epoch = backup.epoch)
    /\ operational' = "restore_suspended"
    /\ epoch' = NextEpoch
    /\ sessionEpoch' = [sessionEpoch EXCEPT ![i] = NextEpoch]
    /\ session' = [session EXCEPT ![i] = IF Candidates = {} THEN "suspended" ELSE "reconciling"]
    /\ mustResolve' = [mustResolve EXCEPT ![i] = Candidates]
    /\ case' = [e \in Effects |-> IF e \in Undecided THEN "open" ELSE case[e]]
    /\ reconPermits' = [e \in Effects |->
          IF e \in Undecided THEN Append(reconPermits[e], NewPermit) ELSE reconPermits[e]]
    /\ permit' = [e \in Effects |->
          IF e \in Undecided /\ permit[e] = "issued" THEN "expired" ELSE permit[e]]
    /\ effect' = [e \in Effects |-> IF e \in Undecided THEN "uncertain" ELSE effect[e]]
    /\ execution' = [e \in Effects |-> IF e \in Undecided THEN "uncertain" ELSE execution[e]]
    /\ accountability' = [e \in Effects |->
          IF e \in Undecided THEN "pending" ELSE accountability[e]]
    /\ drift' = TRUE
    /\ UNCHANGED <<brokered, grantEpoch, obligation, lapsed, revoked, dispatcher, adapter,
                   write, reconciler, storefrontVars, puts, quiet, projected, backup,
                   restores, fencing, forgotten, exposed>>

RebuildProjection(i) ==
    /\ ~ fencing
    /\ Unfinished(i)
    /\ projected' = TRUE
    /\ drift' = TRUE
    /\ UNCHANGED <<vars, session, sessionEpoch, mustResolve, backup, restores, fencing,
                   forgotten, exposed>>

Resolved(i) == \A e \in mustResolve[i] : case[e] = "resolved_applied"

(* verify looks at the obligations and the projection, not at the status of    *)
(* the session it is asked about.                                              *)
VerifyRestore(i) ==
    /\ ~ fencing
    /\ Begun(i)
    /\ projected
    /\ Resolved(i)
    /\ session' = [session EXCEPT ![i] = "verified"]
    /\ drift' = TRUE
    /\ UNCHANGED <<vars, sessionEpoch, mustResolve, projected, backup, restores, fencing,
                   forgotten, exposed>>

StaysSuspended == operational' = operational  \* mutation: only the session resumes

Reopened == operational' = "active"

ResumeRestore(i) ==
    /\ ~ fencing
    /\ session[i] = "verified"
    /\ Resolved(i)
    /\ session' = [session EXCEPT ![i] = "resumed"]
    /\ Reopened
    /\ drift' = TRUE
    /\ UNCHANGED <<epoch, kernelVars, lapsed, revoked, dispatcher, adapter, write, reconciler,
                   storefrontVars, puts, quiet, sessionEpoch, mustResolve, projected, backup,
                   restores, fencing, forgotten, exposed>>
-----------------------------------------------------------------------------
(* A correction that a restore erased may be admitted again under its           *)
(* idempotency key, and one whose permit came back unspent be claimed again; the  *)
(* model has one adapter call per effect, so the earlier one must be over.        *)
AtRest(e) ==
    adapter[e] \in {"idle", "succeeded", "unresolved"} /\ write[e] \notin {"sent", "accepted"}

Command(e) ==
    \/ AtRest(e) /\ (AdmitCorrection(e) \/ ClaimDispatch(e))
    \/ DeliverCredential(e) \/ FinalizeSuccess(e) \/ OpenUncertainty(e)
    \/ DeliverReadCredential(e) \/ ReopenReconciliation(e)
    \/ ReconcileApplied(e) \/ ReconcileNotApplied(e)
    \/ \E n \in DOMAIN reconPermits[e] : ClaimReconciliation(e, n)

Outside(e) ==
    \/ SendWrite(e) \/ AcceptWrite(e) \/ ApplyWrite(e) \/ VerifyWrite(e) \/ AdapterFails(e)
    \/ Observe(e) \/ Revoke(e) \/ LapsePermit(e) \/ DispatchFails(e) \/ ReconcileFails(e)
    \/ \E n \in DOMAIN reconPermits[e] : LapseReconPermit(e, n)

(* The Kernel is down while bytes are restored and fenced. *)
EffectStep ==
    \/ /\ ~ fencing
       /\ (\E e \in Effects : Command(e)) \/ AdvanceEpoch
       /\ drift' = TRUE
       /\ UNCHANGED <<sessionVars, backup, restores, fencing, forgotten, exposed>>
    \/ /\ (\E e \in Effects : Outside(e)) \/ KernelCrash
       /\ UNCHANGED restoreVars

Restore(i) == RebuildProjection(i) \/ VerifyRestore(i) \/ ResumeRestore(i)

RestoreNext ==
    \/ EffectStep
    \/ TakeBackup
    \/ RestoreBytes \/ FenceRestored \/ LeaveUnfenced
    \/ \E i \in Sessions : BeginRestore(i) \/ Restore(i)

RestoreSpec == RestoreInit /\ [][RestoreNext]_allVars

(* The operator works through the runbook once a session has begun. *)
OperatorFairness ==
    \A i \in Sessions :
        /\ WF_allVars(RebuildProjection(i))
        /\ WF_allVars(VerifyRestore(i) /\ session[i] \in {"suspended", "reconciling"})
        /\ WF_allVars(ResumeRestore(i))

FairRestoreSpec == RestoreSpec /\ OperatorFairness
-----------------------------------------------------------------------------
(* A correction the restored database still knows is not emitted twice, by      *)
(* whatever is left of its dispatch before and after the restore                  *)
(* (docs/environment-restore.md:30,46): one restored to the moment before its      *)
(* dispatch is out of reach of the claim, its Workload Grant being fenced by the    *)
(* time the Kernel runs. A restore that was left unfenced is the exception.         *)
EmittedOnce ==
    \A e \in Effects \ (forgotten \union exposed) :
        /\ puts[e] <= 1
        /\ puts[e] = 1 /\ Unspent(e) => grantEpoch[e] # epoch \/ fencing

(* As long as a restore session fences the Environment no effect can be         *)
(* dispatched, and whatever is in doubt is an obligation of that session        *)
(* (docs/environment-restore.md:32).                                            *)
DoubtIsObligation ==
    \A i \in Sessions :
        operational = "restore_suspended" /\ Unfinished(i) /\ sessionEpoch[i] = epoch =>
            \A e \in Effects :
                /\ effect[e] \notin {"admitted", "dispatching"}
                /\ effect[e] = "uncertain" => e \in mustResolve[i]

(* Once the obligations of an unfinished session are resolved, the operator's    *)
(* runbook reaches resumed authority, unless other bytes are restored.           *)
ResolvedRestoreResumes ==
    \A i \in Sessions :
        (session[i] \in {"suspended", "reconciling"} /\ Resolved(i)) ~>
            (operational = "active" \/ ~ Resolved(i) \/ ~ Begun(i))

(* "possibly post-restore effects reconcile before authority resumes"            *)
(* (.scratch/alphonse-kernel-platform/spec.md:283).                              *)
AuthorityResumesReconciled ==
    operational = "active" => \A i \in Sessions : Resolved(i)
=============================================================================
