-------------------------- MODULE EffectLifecycle --------------------------
(***************************************************************************)
(* One governed correction from admission to its last verdict: the Kernel's *)
(* effect and recovery services, the trusted adapter, the credential broker *)
(* and the storefront.  Every Kernel action is one command (one transaction,*)
(* see CommandExecutor); the calls between two commands are steps of their   *)
(* own, because timeouts, crashes and other corrections fall between them.   *)
(***************************************************************************)
EXTENDS Naturals, Sequences, FiniteSets

CONSTANTS
    Effects,         \* corrections, each with its own Run, Envelope and permit
    Requirements,    \* evidence requirements of the active contract
    Subjects, Subject,              \* inventory items; the item of each effect
    Quantities, Quantity, Initial,  \* requested quantities; the first quantity
    MaxPermits,      \* bound: Reconciliation Permits of one Recovery Case
    MaxEpoch         \* bound: execution epochs

ASSUME SubjectAssumption == Subject \in [Effects -> Subjects]
ASSUME QuantityAssumption == Quantity \in [Effects -> Quantities] /\ Initial \in Quantities
ASSUME RequirementAssumption == Requirements # {}
ASSUME BoundAssumption == MaxPermits \in Nat \ {0} /\ MaxEpoch \in Nat \ {0}

VARIABLES
    operational, epoch,  \* kernel_environments
    effect,              \* kernel_effect_states.status
    permit, brokered,    \* kernel_dispatch_permit_states; credential delivered
    grantEpoch,          \* execution_epoch of the effect's Workload Grant
    execution, accountability,  \* kernel_run_states
    obligation,          \* kernel_operational_obligations, by requirement
    case,                \* kernel_recovery_case_states.status
    reconPermits,        \* the case's Reconciliation Permits, oldest first
    lapsed,              \* dispatch permits (and their credentials) out of time
    revoked,             \* effects whose capability, credential or context lapsed
    dispatcher,          \* the Kernel's dispatch() after its claim
    adapter,             \* the trusted adapter's dispatch handler
    write,               \* its PUT at the storefront
    reconciler,          \* the Kernel's reconcile() with the adapter's reads
    receipts, inventory, \* the storefront
    puts, quiet          \* history: PUTs sent; nothing could still be written at
                         \* the last receipt lookup

kernelVars == <<effect, permit, brokered, grantEpoch, execution, accountability,
                obligation, case, reconPermits>>
storefrontVars == <<receipts, inventory>>
vars == <<operational, epoch, kernelVars, lapsed, revoked, dispatcher, adapter,
          write, reconciler, storefrontVars, puts, quiet>>

ReconPermit == [status : {"issued", "consumed"}, brokered : BOOLEAN, lapsed : BOOLEAN]

NoReading == [stage |-> "idle", permit |-> 0, found |-> FALSE, quantity |-> Initial]

Reading == [stage : {"idle", "called", "reading", "half_read", "observed"},
            permit : Nat, found : BOOLEAN, quantity : Quantities]

CaseStatus == {"none", "open", "reconciling", "resolved_applied",
               "open_applied_accountability", "open_not_applied"}

TypeOK ==
    /\ operational \in {"active", "restore_suspended"}
    /\ epoch \in Nat
    /\ effect \in [Effects -> {"none", "admitted", "dispatching", "uncertain",
                               "succeeded", "failed"}]
    /\ permit \in [Effects -> {"none", "issued", "consumed", "expired"}]
    /\ brokered \in [Effects -> BOOLEAN]
    /\ grantEpoch \in [Effects -> Nat]
    /\ execution \in [Effects -> {"none", "admitted", "uncertain", "succeeded", "failed"}]
    /\ accountability \in [Effects -> {"none", "pending", "satisfied", "breached"}]
    /\ obligation \in [Effects -> [Requirements -> {"none", "open", "satisfied", "breached"}]]
    /\ case \in [Effects -> CaseStatus]
    /\ reconPermits \in [Effects -> Seq(ReconPermit)]
    /\ lapsed \in [Effects -> BOOLEAN]
    /\ revoked \in SUBSET Effects
    /\ dispatcher \in [Effects -> {"idle", "waiting"}]
    /\ adapter \in [Effects -> {"idle", "called", "credentialed", "writing",
                                "succeeded", "unresolved"}]
    /\ write \in [Effects -> {"none", "sent", "accepted", "applied", "refused"}]
    /\ reconciler \in [Effects -> Reading]
    /\ receipts \in SUBSET Effects
    /\ inventory \in [Subjects -> Quantities]
    /\ puts \in [Effects -> Nat]
    /\ quiet \in [Effects -> BOOLEAN]

Init ==
    /\ operational = "active"
    /\ epoch = 1
    /\ effect = [e \in Effects |-> "none"]
    /\ permit = [e \in Effects |-> "none"]
    /\ brokered = [e \in Effects |-> FALSE]
    /\ grantEpoch = [e \in Effects |-> 0]
    /\ execution = [e \in Effects |-> "none"]
    /\ accountability = [e \in Effects |-> "none"]
    /\ obligation = [e \in Effects |-> [q \in Requirements |-> "none"]]
    /\ case = [e \in Effects |-> "none"]
    /\ reconPermits = [e \in Effects |-> <<>>]
    /\ lapsed = [e \in Effects |-> FALSE]
    /\ revoked = {}
    /\ dispatcher = [e \in Effects |-> "idle"]
    /\ adapter = [e \in Effects |-> "idle"]
    /\ write = [e \in Effects |-> "none"]
    /\ reconciler = [e \in Effects |-> NoReading]
    /\ receipts = {}
    /\ inventory = [s \in Subjects |-> Initial]
    /\ puts = [e \in Effects |-> 0]
    /\ quiet = [e \in Effects |-> FALSE]
-----------------------------------------------------------------------------
(* The executor refuses every command outside RESTORE_COMMANDS while the     *)
(* Environment is suspended.                                                 *)
Accepting == operational = "active"

(* admitCorrection: authority is checked, then Envelope, Run, Effect, permit  *)
(* and obligations appear together. The Workload Grant is of this epoch.      *)
AdmitCorrection(e) ==
    /\ Accepting
    /\ effect[e] = "none"
    /\ e \notin revoked
    /\ effect' = [effect EXCEPT ![e] = "admitted"]
    /\ permit' = [permit EXCEPT ![e] = "issued"]
    /\ grantEpoch' = [grantEpoch EXCEPT ![e] = epoch]
    /\ execution' = [execution EXCEPT ![e] = "admitted"]
    /\ accountability' = [accountability EXCEPT ![e] = "pending"]
    /\ obligation' = [obligation EXCEPT ![e] = [q \in Requirements |-> "open"]]
    /\ lapsed' = [lapsed EXCEPT ![e] = FALSE]
    /\ UNCHANGED <<operational, epoch, brokered, case, reconPermits, revoked, dispatcher,
                   adapter, write, reconciler, storefrontVars, puts, quiet>>

Unspent(e) == effect[e] = "admitted" /\ permit[e] = "issued"

(* The immediate effect gate: nothing may have lapsed since admission, and    *)
(* the grant's epoch must not have been fenced.                               *)
GateOpen(e) == ~ lapsed[e] /\ e \notin revoked /\ grantEpoch[e] = epoch

(* claimDispatch, then the call of the adapter. *)
ClaimDispatch(e) ==
    /\ Accepting
    /\ Unspent(e)
    /\ GateOpen(e)
    /\ permit' = [permit EXCEPT ![e] = "consumed"]
    /\ effect' = [effect EXCEPT ![e] = "dispatching"]
    /\ dispatcher' = [dispatcher EXCEPT ![e] = "waiting"]
    /\ adapter' = [adapter EXCEPT ![e] = "called"]
    /\ UNCHANGED <<operational, epoch, brokered, grantEpoch, execution, accountability,
                   obligation, case, reconPermits, lapsed, revoked, write, reconciler,
                   storefrontVars, puts, quiet>>
-----------------------------------------------------------------------------
(* The adapter asks the broker, the broker asks the Kernel, which delivers     *)
(* the one credential of a consumed permit; it does not look at the effect.    *)
DeliverCredential(e) ==
    /\ adapter[e] = "called"
    /\ Accepting
    /\ permit[e] = "consumed" /\ ~ brokered[e] /\ ~ lapsed[e]
    /\ brokered' = [brokered EXCEPT ![e] = TRUE]
    /\ adapter' = [adapter EXCEPT ![e] = "credentialed"]
    /\ UNCHANGED <<operational, epoch, effect, permit, grantEpoch, execution, accountability,
                   obligation, case, reconPermits, lapsed, revoked, dispatcher, write,
                   reconciler, storefrontVars, puts, quiet>>

(* mutation: the adapter repeats a PUT whose response it misses *)
SendWriteRepeatedly(e) ==
    /\ adapter[e] \in {"credentialed", "writing"} /\ puts[e] < 2
    /\ adapter' = [adapter EXCEPT ![e] = "writing"]
    /\ write' = [write EXCEPT ![e] = "sent"]
    /\ puts' = [puts EXCEPT ![e] = @ + 1]
    /\ UNCHANGED <<operational, epoch, kernelVars, lapsed, revoked, dispatcher,
                   reconciler, storefrontVars, quiet>>

SendWrite(e) ==
    /\ adapter[e] = "credentialed"
    /\ adapter' = [adapter EXCEPT ![e] = "writing"]
    /\ write' = [write EXCEPT ![e] = "sent"]
    /\ puts' = [puts EXCEPT ![e] = @ + 1]
    /\ UNCHANGED <<operational, epoch, kernelVars, lapsed, revoked, dispatcher,
                   reconciler, storefrontVars, quiet>>

CredentialUnchecked(e) == TRUE  \* mutation: the storefront ignores expires_at

CredentialValid(e) == ~ lapsed[e]

(* The storefront checks the credential when the request starts ...           *)
AcceptWrite(e) ==
    /\ write[e] = "sent"
    /\ write' = [write EXCEPT ![e] = IF CredentialValid(e) THEN "accepted" ELSE "refused"]
    /\ UNCHANGED <<operational, epoch, kernelVars, lapsed, revoked, dispatcher, adapter,
                   reconciler, storefrontVars, puts, quiet>>

(* ... and applies it once the body has arrived, unless the key has a receipt. *)
ApplyWrite(e) ==
    /\ write[e] = "accepted"
    /\ write' = [write EXCEPT ![e] = "applied"]
    /\ inventory' = IF e \in receipts THEN inventory
                    ELSE [inventory EXCEPT ![Subject[e]] = Quantity[e]]
    /\ receipts' = receipts \union {e}
    /\ UNCHANGED <<operational, epoch, kernelVars, lapsed, revoked, dispatcher, adapter,
                   reconciler, puts, quiet>>

WriteUnverified(e) == inventory[Subject[e]] \in Quantities  \* mutation: any answer will do

WriteVerified(e) ==
    write[e] = "applied" /\ CredentialValid(e) /\ inventory[Subject[e]] = Quantity[e]

(* The verifying GET after the PUT has answered: it sees the inventory as it   *)
(* is then, whoever wrote last.                                                *)
VerifyWrite(e) ==
    /\ adapter[e] = "writing"
    /\ write[e] \in {"applied", "refused"}
    /\ adapter' = [adapter EXCEPT ![e] =
          IF WriteVerified(e) THEN "succeeded" ELSE "unresolved"]
    /\ UNCHANGED <<operational, epoch, kernelVars, lapsed, revoked, dispatcher, write,
                   reconciler, storefrontVars, puts, quiet>>

(* A refused credential, a lost connection or a dead adapter process.          *)
AdapterFails(e) ==
    /\ adapter[e] \in {"called", "credentialed", "writing"}
    /\ adapter' = [adapter EXCEPT ![e] = "unresolved"]
    /\ UNCHANGED <<operational, epoch, kernelVars, lapsed, revoked, dispatcher, write,
                   reconciler, storefrontVars, puts, quiet>>
-----------------------------------------------------------------------------
Dispatching(e) == effect[e] = "dispatching"

(* dispatch() records verified evidence of the exact correction.               *)
FinalizeSuccess(e) ==
    /\ dispatcher[e] = "waiting"
    /\ adapter[e] = "succeeded"
    /\ Accepting /\ Dispatching(e)
    /\ \A q \in Requirements : obligation[e][q] = "open"
    /\ effect' = [effect EXCEPT ![e] = "succeeded"]
    /\ execution' = [execution EXCEPT ![e] = "succeeded"]
    /\ accountability' = [accountability EXCEPT ![e] = "satisfied"]
    /\ obligation' = [obligation EXCEPT ![e] = [q \in Requirements |-> "satisfied"]]
    /\ dispatcher' = [dispatcher EXCEPT ![e] = "idle"]
    /\ UNCHANGED <<operational, epoch, permit, brokered, grantEpoch, case, reconPermits,
                   lapsed, revoked, adapter, write, reconciler, storefrontVars, puts, quiet>>

NewPermit == [status |-> "issued", brokered |-> FALSE, lapsed |-> FALSE]

IssuePermit(e) == reconPermits' = [reconPermits EXCEPT ![e] = Append(@, NewPermit)]

(* The call timed out, failed or came back unverified: openUncertainty.        *)
OpenUncertainty(e) ==
    /\ dispatcher[e] = "waiting"
    /\ Accepting /\ Dispatching(e)
    /\ effect' = [effect EXCEPT ![e] = "uncertain"]
    /\ execution' = [execution EXCEPT ![e] = "uncertain"]
    /\ accountability' = [accountability EXCEPT ![e] = "pending"]
    /\ case' = [case EXCEPT ![e] = "open"]
    /\ IssuePermit(e)
    /\ dispatcher' = [dispatcher EXCEPT ![e] = "idle"]
    /\ UNCHANGED <<operational, epoch, permit, brokered, grantEpoch, obligation, lapsed,
                   revoked, adapter, write, reconciler, storefrontVars, puts, quiet>>

(* The command that records the result throws, outside any catch: a database   *)
(* error, a receipt that cannot be read, an obligation that is not open, an      *)
(* Environment that was suspended meanwhile. dispatch() ends with the error, and  *)
(* the effect stays where it is.                                                  *)
DispatchFails(e) ==
    /\ dispatcher[e] = "waiting"
    /\ dispatcher' = [dispatcher EXCEPT ![e] = "idle"]
    /\ UNCHANGED <<operational, epoch, kernelVars, lapsed, revoked, adapter, write,
                   reconciler, storefrontVars, puts, quiet>>
-----------------------------------------------------------------------------
KeepIssued(p) == [p EXCEPT !.brokered = FALSE]  \* mutation: the permit is not consumed

Consumed(p) == [p EXCEPT !.status = "consumed"]

(* claimReconciliation: the caller names a permit of the case; the claim is    *)
(* in RESTORE_COMMANDS, so a suspended Environment accepts it.                 *)
ClaimReconciliation(e, n) ==
    /\ case[e] = "open"
    /\ reconPermits[e][n].status = "issued" /\ ~ reconPermits[e][n].lapsed
    /\ reconPermits' = [reconPermits EXCEPT ![e][n] = Consumed(@)]
    /\ case' = [case EXCEPT ![e] = "reconciling"]
    /\ reconciler' = [reconciler EXCEPT ![e] =
          [stage |-> "called", permit |-> n, found |-> FALSE, quantity |-> Initial]]
    /\ UNCHANGED <<operational, epoch, effect, permit, brokered, grantEpoch, execution,
                   accountability, obligation, lapsed, revoked, dispatcher, adapter, write,
                   storefrontVars, puts, quiet>>

ClaimedPermit(e) == reconPermits[e][reconciler[e].permit]

DeliverReadCredential(e) ==
    /\ reconciler[e].stage = "called"
    /\ ClaimedPermit(e).status = "consumed"
    /\ ~ ClaimedPermit(e).brokered /\ ~ ClaimedPermit(e).lapsed
    /\ reconPermits' = [reconPermits EXCEPT ![e][reconciler[e].permit].brokered = TRUE]
    /\ reconciler' = [reconciler EXCEPT ![e].stage = "reading"]
    /\ UNCHANGED <<operational, epoch, effect, permit, brokered, grantEpoch, execution,
                   accountability, obligation, case, lapsed, revoked, dispatcher, adapter,
                   write, storefrontVars, puts, quiet>>

(* Whether the dispatch can still change the storefront. *)
MayStillWrite(e) ==
    \/ write[e] = "accepted"
    \/ ~ lapsed[e] /\ (write[e] = "sent" \/ adapter[e] \in {"called", "credentialed"})

ReadReceipt(e) ==
    /\ reconciler' = [reconciler EXCEPT ![e].stage = "half_read", ![e].found = e \in receipts]
    /\ quiet' = [quiet EXCEPT ![e] = ~ MayStillWrite(e)]

ReadInventory(e) ==
    /\ reconciler' = [reconciler EXCEPT ![e].stage = "observed",
                                        ![e].quantity = inventory[Subject[e]]]
    /\ UNCHANGED quiet

(* mutation: the two requests in the other order *)
ObserveInventoryFirst(e) ==
    /\ reconciler[e].stage \in {"reading", "half_read"} /\ ~ ClaimedPermit(e).lapsed
    /\ \/ /\ reconciler[e].stage = "reading"
          /\ reconciler' = [reconciler EXCEPT ![e].stage = "half_read",
                                              ![e].quantity = inventory[Subject[e]]]
          /\ UNCHANGED quiet
       \/ /\ reconciler[e].stage = "half_read"
          /\ reconciler' = [reconciler EXCEPT ![e].stage = "observed", ![e].found = e \in receipts]
          /\ quiet' = [quiet EXCEPT ![e] = ~ MayStillWrite(e)]
    /\ UNCHANGED <<operational, epoch, kernelVars, lapsed, revoked, dispatcher, adapter,
                   write, storefrontVars, puts>>

(* The adapter looks the receipt up, then reads the quantity: two requests.    *)
Observe(e) ==
    /\ reconciler[e].stage \in {"reading", "half_read"} /\ ~ ClaimedPermit(e).lapsed
    /\ \/ reconciler[e].stage = "reading" /\ ReadReceipt(e)
       \/ reconciler[e].stage = "half_read" /\ ReadInventory(e)
    /\ UNCHANGED <<operational, epoch, kernelVars, lapsed, revoked, dispatcher, adapter,
                   write, storefrontVars, puts>>

Reconciling(e) == case[e] = "reconciling"

(* Timeout, lost or invalid observation, or a finalization that throws:        *)
(* reopenReconciliation gives the case a new permit.                           *)
ReopenReconciliation(e) ==
    /\ reconciler[e].stage # "idle"
    /\ Reconciling(e)
    /\ Len(reconPermits[e]) < MaxPermits
    /\ IssuePermit(e)
    /\ case' = [case EXCEPT ![e] = "open"]
    /\ reconciler' = [reconciler EXCEPT ![e] = NoReading]
    /\ UNCHANGED <<operational, epoch, effect, permit, brokered, grantEpoch, execution,
                   accountability, obligation, lapsed, revoked, dispatcher, adapter, write,
                   storefrontVars, puts, quiet>>

(* reopenReconciliation throws as well: the case stays as it is. *)
ReconcileFails(e) ==
    /\ reconciler[e].stage # "idle"
    /\ reconciler' = [reconciler EXCEPT ![e] = NoReading]
    /\ UNCHANGED <<operational, epoch, kernelVars, lapsed, revoked, dispatcher, adapter, write,
                   storefrontVars, puts, quiet>>

(* The evidence mapping of a receipt that was found. *)
Evidenced(e, q) ==
    \/ q = "storefront_response"
    \/ q = "post_write_observation" /\ reconciler[e].quantity = Quantity[e]

SomeEvidenced(e) == \E q \in Requirements : Evidenced(e, q)  \* mutation

AllEvidenced(e) == \A q \in Requirements : Evidenced(e, q)

ReconcileApplied(e) ==
    /\ reconciler[e].stage = "observed" /\ reconciler[e].found
    /\ Reconciling(e)
    /\ obligation' = [obligation EXCEPT ![e] = [q \in Requirements |->
          IF @[q] = "open" /\ Evidenced(e, q) THEN "satisfied" ELSE @[q]]]
    /\ effect' = [effect EXCEPT ![e] = "succeeded"]
    /\ execution' = [execution EXCEPT ![e] = "succeeded"]
    /\ accountability' = [accountability EXCEPT ![e] =
          IF AllEvidenced(e) THEN "satisfied" ELSE "pending"]
    /\ case' = [case EXCEPT ![e] =
          IF AllEvidenced(e) THEN "resolved_applied" ELSE "open_applied_accountability"]
    /\ reconciler' = [reconciler EXCEPT ![e] = NoReading]
    /\ UNCHANGED <<operational, epoch, permit, brokered, grantEpoch, reconPermits, lapsed,
                   revoked, dispatcher, adapter, write, storefrontVars, puts, quiet>>

ReconcileNotApplied(e) ==
    /\ reconciler[e].stage = "observed" /\ ~ reconciler[e].found
    /\ Reconciling(e)
    /\ obligation' = [obligation EXCEPT ![e] = [q \in Requirements |->
          IF @[q] = "open" THEN "breached" ELSE @[q]]]
    /\ effect' = [effect EXCEPT ![e] = "failed"]
    /\ execution' = [execution EXCEPT ![e] = "failed"]
    /\ accountability' = [accountability EXCEPT ![e] = "breached"]
    /\ case' = [case EXCEPT ![e] = "open_not_applied"]
    /\ reconciler' = [reconciler EXCEPT ![e] = NoReading]
    /\ UNCHANGED <<operational, epoch, permit, brokered, grantEpoch, reconPermits, lapsed,
                   revoked, dispatcher, adapter, write, storefrontVars, puts, quiet>>
-----------------------------------------------------------------------------
(* advanceEpoch: every earlier Workload Grant is fenced. *)
AdvanceEpoch ==
    /\ Accepting
    /\ epoch < MaxEpoch
    /\ epoch' = epoch + 1
    /\ UNCHANGED <<operational, kernelVars, lapsed, revoked, dispatcher, adapter, write,
                   reconciler, storefrontVars, puts, quiet>>

(* A capability, credential revision, delegation or context goes out of date;   *)
(* nothing looks at them after the dispatch claim.                              *)
Revoke(e) ==
    /\ e \notin revoked /\ effect[e] \in {"none", "admitted"}
    /\ revoked' = revoked \union {e}
    /\ UNCHANGED <<operational, epoch, kernelVars, lapsed, dispatcher, adapter, write,
                   reconciler, storefrontVars, puts, quiet>>

(* Time: the 15 seconds of a dispatch permit, then the 15 minutes or more of a *)
(* Reconciliation Permit, which is issued later and never expires before it.   *)
LapsePermit(e) ==
    /\ permit[e] # "none" /\ ~ lapsed[e]
    /\ lapsed' = [lapsed EXCEPT ![e] = TRUE]
    /\ UNCHANGED <<operational, epoch, kernelVars, revoked, dispatcher, adapter, write,
                   reconciler, storefrontVars, puts, quiet>>

LapseReconPermit(e, n) ==
    /\ lapsed[e] /\ ~ reconPermits[e][n].lapsed
    /\ reconPermits' = [reconPermits EXCEPT ![e][n].lapsed = TRUE]
    /\ UNCHANGED <<operational, epoch, effect, permit, brokered, grantEpoch, execution,
                   accountability, obligation, case, lapsed, revoked, dispatcher, adapter,
                   write, reconciler, storefrontVars, puts, quiet>>

(* The Kernel process restarts: its handlers are gone, the database and the    *)
(* handlers of adapter and storefront are not.                                 *)
KernelCrash ==
    /\ \E e \in Effects : dispatcher[e] # "idle" \/ reconciler[e].stage # "idle"
    /\ dispatcher' = [e \in Effects |-> "idle"]
    /\ reconciler' = [e \in Effects |-> NoReading]
    /\ UNCHANGED <<operational, epoch, kernelVars, lapsed, revoked, adapter, write,
                   storefrontVars, puts, quiet>>

Conclude(e) == FinalizeSuccess(e) \/ OpenUncertainty(e) \/ DispatchFails(e)

(* mutation: a failed attempt is not given back *)
ReconcileOnce(e) ==
    DeliverReadCredential(e) \/ Observe(e) \/ ReconcileApplied(e) \/ ReconcileNotApplied(e)

Reconcile(e) ==
    \/ DeliverReadCredential(e) \/ Observe(e)
    \/ ReopenReconciliation(e) \/ ReconcileApplied(e) \/ ReconcileNotApplied(e)

Dispatch(e) ==
    \/ DeliverCredential(e) \/ SendWrite(e) \/ AcceptWrite(e) \/ ApplyWrite(e)
    \/ VerifyWrite(e) \/ AdapterFails(e)

Next ==
    \/ \E e \in Effects :
          \/ AdmitCorrection(e) \/ ClaimDispatch(e)
          \/ Dispatch(e) \/ Conclude(e) \/ Reconcile(e) \/ ReconcileFails(e)
          \/ Revoke(e) \/ LapsePermit(e)
          \/ \E n \in DOMAIN reconPermits[e] :
                ClaimReconciliation(e, n) \/ LapseReconPermit(e, n)
    \/ AdvanceEpoch \/ KernelCrash

Spec == Init /\ [][Next]_vars

(* The timeout of reconcile() fires, and its handler runs on.                  *)
Fairness == \A e \in Effects : WF_vars(Reconcile(e))

FairSpec == Spec /\ Fairness
-----------------------------------------------------------------------------
(* However dispatch is retried, timed out or cut off by a crash, at most one   *)
(* PUT leaves the adapter, and only for a consumed permit whose credential the *)
(* Kernel delivered (effect-service.js:375-377,539-548).                       *)
AtMostOneWrite ==
    \A e \in Effects :
        /\ puts[e] <= 1
        /\ puts[e] = 1 => permit[e] = "consumed" /\ brokered[e]

(* A correction reported as succeeded is in the storefront's receipts, along   *)
(* both paths: verified dispatch and reconciliation after uncertainty.         *)
SuccessIsApplied == \A e \in Effects : effect[e] = "succeeded" => e \in receipts

(* Accountability is what the obligations add up to, whichever command closed  *)
(* the Run: satisfied means every obligation is, breached means none stayed     *)
(* open, and an open one keeps the Run pending (recovery-service.js:419-488).   *)
AccountabilityHonest ==
    \A e \in Effects :
        /\ accountability[e] = "satisfied" <=>
              effect[e] = "succeeded" /\ \A q \in Requirements : obligation[e][q] = "satisfied"
        /\ accountability[e] = "breached" => effect[e] = "failed"
        /\ effect[e] = "failed" => \A q \in Requirements : obligation[e][q] = "breached"
        /\ accountability[e] = "pending" => \E q \in Requirements : obligation[e][q] = "open"

(* An uncertain effect has one case, and the case one authority to look: an      *)
(* open case has one issued permit, its last; whoever reconciles works on the last *)
(* permit, which is consumed by then, and has read nothing before its credential   *)
(* was delivered; and no permit has had a credential without being consumed        *)
(* (recovery-service.js:261-279,290-322,530-559). That the case can be worked on   *)
(* is not said: its permit may have lapsed and its handler be gone.                *)
CaseAndPermits ==
    \A e \in Effects :
        LET permits == reconPermits[e]
            last == Len(permits) IN
        /\ effect[e] = "uncertain" <=> case[e] \in {"open", "reconciling"}
        /\ {n \in DOMAIN permits : permits[n].status = "issued"} =
              IF case[e] = "open" THEN {last} ELSE {}
        /\ \A n \in DOMAIN permits : permits[n].brokered => permits[n].status = "consumed"
        /\ reconciler[e].stage # "idle" =>
              case[e] = "reconciling" /\ last > 0 /\ reconciler[e].permit = last
        /\ reconciler[e].stage \in {"reading", "half_read", "observed"} => permits[last].brokered

(* A verdict of not applied stands if, when the receipt was looked up, the      *)
(* permit had expired and the storefront was not already reading the request:   *)
(* the credential check at the storefront closes the door.                      *)
QuietVerdictStands ==
    \A e \in Effects : effect[e] = "failed" /\ quiet[e] => e \notin receipts

(* An applied correction is left with an open obligation only because another   *)
(* correction of the same item overwrote it: the receipt is read before the     *)
(* quantity (trusted-adapter-server.js:84-94), so a late write cannot do it.    *)
OnlyOverwritingLeavesOpen ==
    \A e \in Effects : case[e] = "open_applied_accountability" =>
        \E f \in receipts \ {e} : Subject[f] = Subject[e] /\ Quantity[f] # Quantity[e]

(* Every step is one of the abstract protocol's: released once before it can    *)
(* be applied, success only for what is applied, failure only through doubt.    *)
Promise == INSTANCE EffectPromise WITH
    status <- [e \in Effects |-> IF effect[e] = "dispatching" THEN "released" ELSE effect[e]],
    applied <- receipts,
    doubted <- {e \in Effects : case[e] # "none"}

ImplementsPromise == Promise!PromiseSpec

(* A reconciliation in progress ends in a verdict or gives the case back with a *)
(* new permit (as long as the bound on permits leaves one), unless the Kernel     *)
(* crashes while its reconcile() waits or cannot record how it ended.              *)
ReconciliationConcludes ==
    \A e \in Effects :
        (case[e] = "reconciling" /\ Len(reconPermits[e]) < MaxPermits) ~>
            case[e] # "reconciling" \/ reconciler[e].stage = "idle"

(* "... after reconciliation proved the original Effect was not applied."       *)
(* (recovery-service.js:466): a failed correction is not in the storefront.     *)
FailedIsNotApplied == \A e \in Effects : effect[e] = "failed" => e \notin receipts
=============================================================================
