# Alphonse Kernel: TLA+ models, checks and proofs

Alphonse is a runtime for accountable work of agents: every change of its state
is a command with an actor and an idempotency key, every action on an outside
system is a *governed effect* with a permit, and whatever cannot be known is
kept as *uncertain* until somebody reconciles it against the outside system.
This directory holds TLA+ models of the parts in which those promises are hard
to keep, TLC configurations that check them on small instances, and proofs
checked by TLAPS for instances of any size. Paths are relative to the root of
the repository; `PROJECT.json` maps every definition to the lines it models.

## 1. Inventory

The program is a set of Node.js processes over PostgreSQL databases. A handler
is interleaved with the others at every `await`; what protects state is
the transaction it runs in.

### Kernel (one process, one database)

| Part | State | Operations | What is hard |
|---|---|---|---|
| Command executor (`src/command-executor.js`, `src/database.js`) | `kernel_environments`, `kernel_commands`, `kernel_transitions`, `kernel_outbox`, the connection pool | `executeCommand` | one id submitted twice at once, gapless sequence, suspension racing a commit, crash before the answer, a handler that needs a second connection |
| Governed effects (`src/effect-service.js`) | effect, dispatch permit, Run, obligations | `admitCorrection`, `dispatch` (claim, call, result), `authorizeCredentialDelivery` | the call lies between two transactions: timeout, crash, late answer |
| Recovery (`src/recovery-service.js`) | Recovery Case, Reconciliation Permits | `openUncertainty`, `openRestoreUncertainty`, claim, reconcile, reopen, credential | reading a system that is still being written; permits that lapse; failing halfway |
| Restore (`src/restore-service.js`, `scripts/local-backup.js`) | restore session, its obligations, projection, bundle | backup, byte restore, begin, rebuild, verify, resume | the database goes back in time, the outside world does not |
| Runtime authority (`src/handoff-service.js`, `src/execution-service.js`, `src/identity-intent-service.js`, the quarantine of `src/support-service.js`) | task responsibilities, hand-offs, Workload Grants, the execution epoch, Runs, host observations | propose, accept, reject, admit, complete, gate, advance epoch, quarantine, record observation | several hand-offs of one task at once; ends that are derived from other ends; the gate reads grant, epoch and clock apart; a chain of observations |
| Upgrade (`src/upgrade-service.js`, with approval and activation of `src/deployment-service.js`) | capability revisions, approvals, plans, migrations, canaries, recovery actions, receipts, retirements | report, policy, plan, migrate, verify, canary, activate, repair, roll back, retire | what was approved or analysed is stale when it is used; retirement counts references and then acts |
| Grant authority (`src/grant-authority-service.js`) | grants with desired and effective state, readiness, snapshots, receipts | record readiness, publish snapshot, accept application receipt | another process puts it into effect: snapshots and receipts are lost, expire, come late or again |
| Context, packages, registry, support, coordination | one set of tables each | proposals, approvals, revocations | authority read at admission and revoked before use |

### Around the Kernel

| Part | State | Interaction |
|---|---|---|
| Trusted adapter (`src/trusted-adapter-server.js`) | none but its handlers | called by the Kernel, asks the broker for a credential, writes and reads the storefront |
| Credential broker (`src/credential-broker-server.js`) | none | asks the Kernel to authorize one delivery, signs a credential that expires |
| Storefront (`src/storefront-staging-server.js`) | inventory, receipts by idempotency key | checks the credential, awaits the body, then writes |
| Customer ingress (`src/customer-ingress-*.js`) | journal of deliveries, leases | a server journals, two workers forward and report with retries |
| Observation intake (`src/diagnostic-observation-service.js`, `src/diagnostic-grant-application-service.js`, `src/diagnostic-correlation-service.js`) | grants in effect, receipts, conflicts and rejections at the positions of one prefix, coverage of each stream, correlation projections | applies the snapshots of the Kernel, answers reporters, projects over the prefix |
| Diagnostic Plane (`src/diagnostic-*.js`, own database) | effect projections, cases, Evidence Packages and their revisions, Assignments, Worker Runs, diagnoses, consistency tests, material states, repairs, promotions | its own command executor; the Kernel asks it for eligibility, and claims at it what the Kernel authorized; erasures reach everything that stands on the erased material |
| Diagnostic runner (`src/diagnostic-runner.js`, `src/diagnostic-model-broker-server.js`) | a directory and containers for each invocation | started by whoever launches a Worker Run; gives the Worker one model request; its output is stored by a command |
| Repair delivery (`src/diagnostic-repair-*.js`, `src/diagnostic-promotion-service.js`, `packages/n8n-operational-package/src/repair-delivery-adapter.js`) | Repair Tasks with leases, candidates, verifications, Promotions; the workflow itself in n8n | commands of the Diagnostic Node; the PUTs that change the workflow are made by an adapter between two commands |
| Hosted coordinator, tokenization service, package registry, verifier, console | own state | signed documents between the parts |

`PROJECT.json` lists all parts under "components" with what is modelled of
each and why the rest is not (yet), and the hazards found while reading under
"hazards", each at its line.

### What makes each modelled part correct

- **Executor**: a command id is bound once, to one digest; sequences have no gap
  and no repetition; a suspended Environment accepts only restore commands; an
  answer agrees with what was committed; nobody waits for ever.
- **Effects and recovery**: at most one write leaves the adapter; success means
  applied; an effect whose outcome is unknown has one case, and the case one permit
  to look; verdicts stand; a Run's accountability is what its obligations add up to.
- **Restore**: an effect is not emitted again from restored bytes; every doubtful
  effect is an obligation of the session; authority comes back only afterwards,
  and does come back.
- **Customer ingress**: a source has one logical operation, a delivery one row;
  an answer agrees with the journal; the payload is there until the runtime has
  it; what is finished stays finished; forwarding needs no Diagnostic Plane.
- **Observation intake**: a report is accepted once and only under the grant in
  effect; what a reporter is told is on record; outcomes have one order without
  gaps, and what was read of it stays; the Kernel calls effective what is applied.
- **Runtime authority**: nothing outlives what it was derived from; of several
  hand-offs one moves the task, and it stays there; a grant fenced before the
  gate was asked is refused; what is recorded of a host has no gap.
- **Upgrade**: an upgrade replaces what it was analysed against, on an approval
  for that revision and a canary after the last verification; one receipt, one
  incident; nothing in use, pending or under repair is retired.
- **Diagnostic dispatch and erasure**: one Worker Run for each Assignment taken;
  no work on offer, launched or completed for a package that lost material;
  a replacement replaces one Assignment nobody worked on; a diagnosis costs one
  model request; bytes are gone exactly as far as the record says.
- **Repair and Promotion**: one attempt at a case at a time, whatever a late worker
  does; each order of the Owner is written once, for a candidate that passed, over
  the revision it was ordered for or not at all as far as the adapter can see;
  what is recorded of the target was so.

## 2. Modules

| Module | Models | Composition |
|---|---|---|
| `CommandLedger` | what the executor promises: an idempotent, gapless ledger | abstract |
| `CommandExecutor` | `executeCommand` statement by statement, with pool, locks and crashes | implements `CommandLedger` |
| `CommandExecutorProofs` | the theorems of section 5 | extends `CommandExecutor` |
| `EffectPromise` | what a governed effect promises | abstract |
| `EffectLifecycle` | Kernel, adapter, broker and storefront around one correction each | implements `EffectPromise` |
| `EffectProofs` | their theorems, and those of restores | extends `EnvironmentRestore` |
| `EnvironmentRestore` | backup, byte restore, restore sessions | extends `EffectLifecycle`: restores its Kernel tables, not its outside world |
| `IngressPromise` | what the ingress promises a customer: a log entered once, answers true when given, payloads kept until received | abstract |
| `IngressJournal` | the journal of customer ingress, its server and its workers | implements `IngressPromise`; a database and processes apart from the Kernel |
| `IngressProofs` | its theorems | extends `IngressJournal` |
| `RuntimeAuthority` | responsibility for a task, hand-offs, grants, Runs, the gate, observations | Kernel commands, each one step by the refinement of the executor; its epoch is the fence of `EffectLifecycle` |
| `RuntimeAuthorityProofs` | its theorems | extends `RuntimeAuthority` |
| `UpgradePromise` | what changes of a capability promise: consent to the very change, upgrades and ways back that lose no activation, retirement of what nothing needs | abstract |
| `UpgradeLifecycle` | activation, upgrade, recovery and retirement of a capability | implements `UpgradePromise`; Kernel commands; Runs and hand-offs of `RuntimeAuthority` appear as references |
| `UpgradeProofs` | its theorems | extends `UpgradeLifecycle` |
| `DiagnosisPromise` | what the diagnosis of a case promises: work taken once, on whole material, at the price of one request; erasure before removal before seal | abstract |
| `DiagnosticDispatch` | Assignments, authorizations, claims, Worker Runs, runner and broker, consistency tests, erasure | implements `DiagnosisPromise`; Kernel, Diagnostic Plane and runner composed in one module |
| `DiagnosticProofs` | its theorems | extends `DiagnosticDispatch` |
| `RepairPromise` | what a repair promises the Owner of the workflow: attempts one after the other, one write for each order, verdicts that were true | abstract |
| `RepairPromotion` | Repair Tasks, candidates, delivery, verification, Promotions and the workflow they change | implements `RepairPromise`; Diagnostic Node, adapter and n8n composed in one module |
| `RepairProofs` | its theorems | extends `RepairPromotion` |
| `IntakePromise` | what intake promises: each report answered at one instant, truly, under the authority of that instant | abstract |
| `ObservationIntake` | grant snapshots and receipts, intake of observations, its prefix, projections | implements `IntakePromise`; Kernel and Diagnostic Plane composed in one module; the reporter of `IngressJournal` is any reporter here |
| `IntakeProofs` | its theorems | extends `ObservationIntake` |
| `MC...` | instances for TLC | |

**CommandExecutor.** A *request* is one handler inside `executeCommand`; `phase` is the
statement it has reached. `Submit` is `pool.connect()`, `Grant` the pool, `LockCommand`
the advisory lock, `Replay`/`Conflict`/`FindUnseen` the lookup,
`LockEnvironment`/`RefuseFenced` the `FOR UPDATE` and the checks behind it, `Apply` the
callback of the service, `Commit` the four ledger statements with COMMIT.
`ReadThroughPool`/`FinishRead` are services whose callback reads through the pool and so
needs a second connection (`src/handoff-service.js:369`). A digest stands for the whole
canonical input, so it determines the operation. `Crash` kills the process: PostgreSQL
rolls back what was open. `restore.begin` and `restore.resume` are the two operations
that change `operational_state`; the model does not add the domain's own conditions to
them, so it allows more than the code.

**EffectLifecycle.** Each Kernel action is one command; by the refinement above
it can be one step. Between the commands the handlers of the other processes
are modelled request by request: the adapter's `SendWrite` and `VerifyWrite`,
the storefront's `AcceptWrite` (credential checked) and `ApplyWrite` (body read,
written). The Kernel's `dispatch` may time out at any moment (`OpenUncertainty`
needs no answer), and the command that records its result or its uncertainty may
throw, outside any catch (`DispatchFails`); so may the command that reopens a case
(`ReconcileFails`). `reconciler` holds what the running `reconcile` has read: the
receipt first, the quantity in a second request. `lapsed` is the clock for a
dispatch permit and the credentials made from it, and each Reconciliation Permit
has its own. Everything admission checks (capability, delegation, context,
credential revision) is one `revoked` set, because the dispatch gate treats each
alike: anything gone and the claim is refused. `puts` and `quiet` are history
variables no action reads.

**EnvironmentRestore.** `backup` is a copy of the Kernel tables. `RestoreBytes` is
`pg_restore`: it copies them back, with the Environment active in its old epoch, and
leaves adapter, storefront and clock as they are; effects the copy does not know become
`forgotten`. The fence is a process and a transaction of its own: `FenceRestored`
suspends the Environment in the next epoch. `fencing` is the time between the two, when
the tool has made sure that the Kernel is stopped, while calls that are out go on.
`LeaveUnfenced` is a fence that fails or never runs, and a Kernel that is started all
the same; the effects whose permits were unspent in the bundle are then `exposed`. A
`pg_restore` that fails halfway is not modelled. `drift` says whether `next_sequence`
has moved past the restore point of the bundle's manifest, which `begin` compares.
Verify and resume take any session, as the routes do.

**IngressJournal.** A *request* is one call of `acceptDelivery`: `Lookup`,
`Replay` and `Conflict` are the statements under the advisory lock of the source,
`ReadNumber` locks the row of `ingress_state`, `Journal` is the rest up to the
commit, `RefuseDuplicate` its failure on a unique column (two sources that use
one delivery identity hold different locks). The answer may be lost; the
customer sends until it is answered. A worker is at one point of the loop of
`customer-ingress-worker.js`: `Claim`, then the call (`Succeed`, `CallFails`),
then `Complete` or `Fail`. A commit may be rolled back (`CompleteFails`) or done
without the worker seeing it (`CompleteUnseen`); then `fail()` meets the attempt
number already on record and the process ends (`FailTwice`). `Start` is
`recoverLeases`. Which leases have expired, which retries are due and which rows
are skipped because others lock them is any choice at each claim. A payload
digest and an equality token are the values they stand for. What the Diagnostic
Plane has received is not kept: nothing here reads it.

**RuntimeAuthority.** The life of one task: `Propose`, `Reject` and `Accept` of a
hand-off (`handoff` is the row with its delegation proposal), `Admit` and
`Complete` of a Run, `AdvanceEpoch` and `QuarantineHost`, `RecordObservation`.
`checkWorkloadGate` is three actions, since it reads grant, epoch and clock in
three queries outside any transaction; `check` is where each call has got, and
`since` (history) the epoch when it began. Identities of observations are their
sequence numbers: a host signs one observation after the other, each with the
digest of the one before, and any of them may arrive at any time.

**UpgradeLifecycle.** One capability key. `history` is the sequence of activated
Deployments, and its length the revision; an approval names the revision it was
given for. `plan` joins a Compatibility Report, its policy, plan, migration,
canary and recovery actions, which share one life. `ApproveCapability` and
`ActivateCapability` are the direct way, which races with upgrades; Runs and
hand-offs appear as what references a Package Version. `MaxMoves` and
`MaxActions` cut off repeated verifications, canaries and recovery actions, and
`RepairChanges` says which changes the repairs of a plan are recorded with.

**DiagnosticDispatch.** One Diagnostic Case from its frozen evidence to a
diagnosis. A package is its revision number, an Assignment a package and a
slot: slot 1 is the default one, 2 to 4 are those of a consistency test.
`EvaluateEligibility` and `IssueAuthorization` are apart because the Kernel asks
the Diagnostic Plane inside a transaction it commits later. `StartRunner` may
happen again for one launch: the command replays. `CrashRunner` leaves the
Worker and its broker alone, `AbortRunner` removes them. `RequestErasure`
carries its invalidation of Assignments, `RemoveBytes` and `SealAbsence` are the
two halves of a deletion that a crash can part. `Erasures` bounds the artifacts
whose erasure is asked for.

**RepairPromotion.** One workflow of the customer, `target`: the sequence of its
revisions, each with what it does and (history) who wrote it, so that a revision digest
is a position: static data is part of it, and an execution makes a new revision that
does the same (`Edit`). What a revision does is its *behaviour*, the digest of nodes,
connections and settings; it is all the adapter compares. `Patch` says what the patch of
a task makes of a behaviour, if it knows it; several tasks may have one patch, as the
adapter knows three (`repair-delivery-adapter.js:80-107`), and anybody may write any
behaviour. A task, its candidate, delivery and Promotion share the identity of
the task, <<case, lease epoch>>: the migrations make each unique for the one
before. Commands lock the row of the node for their whole transaction
(`diagnostic-database.js:41`), the reads of the target that some make included,
so each is one step. `call` is the handler of `apply` or `rollback` between its
two commands: `SendWrite` (the adapter reads the target once more and sends the
PUT), `AnswerWrite`, `MissAnswer`, `ReadBack`, then `RecordConfirmed`,
`RecordRolledBack` or `RecordUncertain`. `pending` are the PUTs on their way;
`LandWrite` may come long after the answer was given up, or never. `Edit` is
anybody in n8n, `Crash` the end of every handler. Static data that returns to an
earlier value, and with it an earlier digest, is left out.

**ObservationIntake.** Per grant, the Kernel's `desired` and `effective` state, the
target states of the snapshots it `published`, and `applied`, the sequence in
effect at the Diagnostic Plane. A receipt exists once its snapshot is applied,
and may be handed in at any time and again. A *request* is one call of
`receiveObservation`: `Receive` reads the grant, `Authorize` the coverage, both
before the transaction; `LockIdentity` and `LockStream` are its advisory locks,
`CheckGrant` its `FOR SHARE` of the grant, `Replay`, `PreserveConflict` and
`ReadCoverage` what the lookup leads to, `AllocatePosition` the `FOR UPDATE` of
the prefix, `Accept` the node row and the rest up to the commit. A refusal is
preserved in a transaction of its own (`PreserveRejection`), which may be lost
(`LoseRejection`). `BeginApply` is the command of a snapshot that has the node
row, `FinishApply` its commit once it has the row of the grant; `AbortApply` and
`FailRequest` are rollbacks of any cause. A stream belongs to one grant, and a
detail artifact is part of the digest of its observation. A projection is the
set of outcomes it read: what it computes from them is a function of that set.

**The promises.** Seven abstract specifications say what an outsider may rely on,
in terms an outsider has, and each detailed module ends with the refinement
mapping: an `INSTANCE` of its promise named `Promise`, and `ImplementsPromise`
(`Ledger` and `ImplementsLedger` for the executor).

| Promise | What it does not know | Its state, in the detailed module |
|---|---|---|
| `CommandLedger` | connections, locks, transactions, crashes | the committed tables and the answers |
| `EffectPromise` | permits, calls, timeouts, credentials | the Kernel's status, the receipts and the inventory |
| `IngressPromise` | locks, leases, retries, processes | `Log`, the rows with their positions; payloads kept and received |
| `IntakePromise` | identities locked, rows read, transactions lost | `InEffect` and `Known`, a grant's authority at either side; outcomes at their positions |
| `RepairPromise` | leases, calls, timeouts, crashes | `Begun`, `Open`, `PassedTasks`; `Orders`, for which revision; `Verdicts`, of which revision |
| `DiagnosisPromise` | signatures, evaluations, invocations, crashes | `Taken`, the Assignment of a Worker Run; `Prices`, the requests behind a diagnosis; `Erased`, `Sealed` |
| `UpgradePromise` | reports, policies, checkpoints, canaries, receipts | `Upgrades`, the stage of a plan and what it goes from and to; `Uses`, what each Run or hand-off needs |

Abstractions that hold throughout: signatures, digests and validation of input
shapes are taken as right; payloads are model values; logging is left out.

## 3. Runs

| Run | Instance | Shows |
|---|---|---|
| `executor` | 2 handlers, 2 ids, 3 digests, pool of 3 | ledger integrity, the suspension fence, refinement of `CommandLedger`, and that every request is answered |
| `effect_one` | 1 correction, 3 permits, 2 epochs, crashes | one write, permits that agree with the case, standing verdicts, refinement of `EffectPromise`; unless the Kernel crashes or cannot record it, a reconciliation comes to an end |
| `effect_pair` | 2 corrections of one item, 2 permits | accountability adds up, an open obligation after "applied" is the other correction's doing |
| `restore` | 1 correction, 2 bundles, 1 byte restore with a fence that may fail, 2 sessions | not emitted twice once fenced, doubt is an obligation, a resolved session resumes |
| `ingress` | 3 deliveries, 2 sources, 2 delivery identities, 1 forwarder, 1 reporter | one operation per source, payload exactly until forwarded, refinement of `IngressPromise`, forwarding goes on |
| `runtime` | 1 task, 3 passports, 2 hand-offs, 2 Runs, 1 caller of the gate, 3 instants, 2 epochs | nested authority, one move of responsibility, what a responsibility is traced to, refusal of what was fenced, recorded prefix |
| `upgrade` | 2 plans between 2 packages, 3 revisions, 4 recovery actions of one plan, 1 Run or hand-off | fresh approvals, receipts once, retirement, refinement of `UpgradePromise` |
| `diagnostic` | 3 packages, two of which share an artifact, 2 authorizations, 2 invocations | nothing on offer or taken further after an erasure, exact replacement, one request, bytes, refinement of `DiagnosisPromise` |
| `repair` | 1 case, 2 attempts and Promotions with one patch, 5 revisions, 2 edits, lease of 2, clock to 2 | one write for each order, records that are true of what the target did, refinement of `RepairPromise` |
| `intake` | 2 requests, 2 grants, 6 observations, 3 snapshots, 1 projection | coverage, what is effective, no receipt without authority, refinement of `IntakePromise` |
| `effect_late_write` | as `effect_one`, smaller | **violation**: "not applied" is recorded and then the write is applied |
| `restore_early` | 2 sessions | **violation**: an old session resumes authority |

The type invariant of a module with proofs is proved (section 5) and not run again.
Nor are the safety properties that a refinement or another invariant of their run says
again in other words: `DecidesAlone`, `SuccessIsApplied`, `AnswerIsJournaled`,
`FinishedStays`, `OneDelegate`, `DelegatedForGood`, `UpgradesChain`,
`CanaryJudgesVerified`, `RepairHoldsPackage`, `OneRunPerAssignment`,
`OneAttemptAtATime`, `PrefixIsStable` and `AnswersAreOnRecord`. Each is stated in its
module and has its theorem.

### Bounds

- *Handlers, ids, digests.* Two handlers are enough for every race over one id
  or the row. Each may hold two connections, so a pool of three is contended and
  is the smallest that cannot deadlock: with a pool of two both handlers can hold
  one connection and wait for a second for ever, and the same holds for any
  number of handlers and as many connections. The deployed pool has ten
  (`src/database.js:13`), so `EveryRequestAnswered` speaks of fewer than ten
  such handlers at a time. The safety properties are proved for all sizes.
- *Effects.* One correction shows every race of its own dispatch,
  reconciliations and crashes; two of one item show what they do to each other.
  Three is not needed: effects meet only in the inventory of an item, where
  the last writer wins.
- *`MaxPermits`* cuts off reopening a case again and again; after the third
  permit nothing new can happen to a case. *`MaxEpoch`* = 2 gives one fence.
- *Restore.* Two bundles let the second be taken after, before or during a
  dispatch, two sessions let one be abandoned, finished or reused.
- *Ingress.* Two deliveries of one source and one of another that reuses the
  first's identity give every race of lookup, number and insert. One worker of
  each mode is what `compose.yaml` starts; `PayloadUntilForwarded` says in its
  comment that it speaks of that.
- *Runtime.* Two hand-offs of one task is every race for it, and one of the two
  can be the owner's hand-off to itself. Three instants with passports, proposals
  and delegations that end at any of them make each of the four ends of a grant
  the least one. Tasks share nothing but the epoch.
- *Upgrade.* Two plans in either direction between two packages, and direct
  activations of either, make stale approvals, chained upgrades, and a retirement
  while the other plan repairs; three revisions are a direct activation, an upgrade, and
  its rollback or an upgrade back. The longer chains are the proofs' business. The first
  plan takes four recovery actions and repairs by an incompatible change, so that it can
  have an incident, its verification, another incident and another verification: the
  receipt of the first is there to be sent again for the second. The other takes one
  action and repairs compatibly.
- *Diagnostic.* Three packages: a second revision may ask for the replacement of what
  the first has replaced, or of what it has not reached yet. Each has an artifact of its
  own, and the first two share another, so an erasure (of the second's own or of the
  shared one) meets one, both or neither. Two authorizations may be for one Assignment
  or two; the first launch is invoked twice, the second stays a claim.
- *Repair.* The second attempt is made after the first candidate was rejected; the first
  may be verified again and pass, so both can be promoted from one base. Five revisions
  (`MaxRevision`) are the original, two applications and two more: rollbacks, or up to
  two writes of others (`MaxEdits`), edits to or from the defective behaviour or
  executions that change neither. A lease taken at the start runs out at the horizon
  unless it is renewed. Both attempts have one patch, from "defective" to "repaired", so
  that either Promotion and anybody else can write what the other waits for. Cases share
  only the target, where Promotions of one case already meet.
- *Intake.* Two requests are every race over an identity, a stream, a row or a position,
  and the second may follow the first. One observation is reported again, with other
  material, under another identity and on another stream; two more run ahead, the last
  beyond `MaxAdvance` of 2 unless another came before. Three snapshots (`MaxSnapshots`)
  activate, revoke and activate again. One projection (`MaxProjections`) is followed by
  outcomes that must not reach it.
- `CHECK_DEADLOCK FALSE` where corrections, requests, tasks, upgrades or a case come to an
  end, or a clock to its horizon: nothing more happens then, and the system really stops.

### Fairness

- Executor: the event loop runs every handler that can go on (`WF(Work)`), the
  pool serves its queue in order (`WF(Grant)`), PostgreSQL's lock queues are fair,
  so a lock that keeps becoming free is obtained (`SF` of the lock steps). No
  fairness for `Submit` or `Crash`.
- Effects: the `AbortSignal.timeout` of a reconciliation makes `Reconcile` happen.
  Nothing is assumed of the adapter and the storefront. A Kernel that dies with the
  call in its memory, or cannot record how it ended, leaves the case as it is (section
  4), and `ReconciliationConcludes` ends with that. Nothing is claimed of the end of
  a dispatch: its timeout is certain, what is recorded then is not.
- Ingress: a forwarder that runs claims, and calls and commits that become
  possible again and again succeed at some attempt (`SF`). Nothing is assumed of
  reporters, and a forwarder that died need not be started again
  (`compose.yaml` has no restart policy): the property then ends with it.
- Restore: an operator who has begun a session does the steps of the runbook
  (`docs/environment-restore.md`) as they become possible. Reconciliations are
  *not* fair: the property starts when they have succeeded.

## 4. Disagreements met while modelling

Two places in which the program does something other than one of its own texts
says; each has a run whose counterexample shows it and an entry under "findings".

1. `recovery-service.js:394` takes a missing receipt as the verdict "not
   applied", although the PUT may still be on its way. `QuietVerdictStands`
   states the condition under which the verdict is right, and holds.
2. Verify and resume accept a session that is not the current one
   (`restore-service.js:262`), so authority can come back too early.

Seen while modelling, kept in the models, and without a run of their own:

*Effects and recovery.*
- A Kernel that dies between claim and result leaves the effect "dispatching"
  with no case (`effect-service.js:447`; `.scratch/alphonse-kernel-platform/spec.md:251`
  promises uncertainty only after a timeout). So does a command of the result that
  throws, which nothing catches (`:479-527`, `openUncertainty` at `:460` and `:473`): a
  database error, an obligation that is not open (`:510`), an Environment suspended
  meanwhile. Likewise a crash during `reconcile`, or a failure of the reopening itself,
  leaves a case "reconciling" with its permit consumed and nothing to reopen it.
- An open case whose permit lapses unused gets no new one.
- "complete_remaining_obligations" is offered (`recovery-service.js:178`) and
  cannot be done (`:503`).

*Restore.* Between `pg_restore` and the fence (`scripts/local-backup.js:55-65`) the
restored Environment is active in its old epoch, and only the stopped Kernel keeps
permits from being used. If the fence fails the tool stops with an error, and nothing
keeps the Kernel from being started: a correction applied after the restore point can
then be emitted again. `EmittedOnce` leaves out the effects `exposed` in this way, and
only those and the forgotten ones. A projection from an earlier restore passes verification
(`restore-service.js:261`, against `docs/environment-restore.md:34`). An effect a
restore finds "not applied" is never a resolved obligation
(`restore-service.js:140`), so the Environment stays suspended, and the corrective
work the case offers (`recovery-service.js:229`) cannot be admitted.

*Ingress.* With two forwarders, one that lost its lease can record its failure
after the other's success, and the delivery is retried for ever without a
payload. A failed report is overtaken by the next delivery's while it waits.

*Intake and grants.*
- Nothing can be published while a snapshot is pending (`grant-authority-service.js:169`).
  A revocation that expires before it is applied stays pending for ever: the grant
  stays active at the Diagnostic Plane, and no command can revoke it any more.
  Likewise when an application receipt is lost and the snapshot, which would bring
  it again, has expired (`grant-authority-contracts.js:177`).
- An exact replay after the grant changed is refused and adds a rejection, where
  `docs/adr/0063-use-gap-tolerant-observation-stream-sequences.md` calls exact
  replay idempotent.
- Intake does not ask how old the applied snapshot is, although `CONTEXT.md:262`
  lets "stale or missing grant state" fail it closed.
- An intake transaction shares the row of the grant and then waits for the node,
  the application of a snapshot has the node and waits for that row
  (`diagnostic-grant-application-service.js:46`): PostgreSQL aborts one of them.

*Runtime.*
- An owner may hand a task to itself; a Run under that hand-off can be completed
  after the task has moved on, since completion looks at the delegation only.
- A delegation that ends returns the responsibility to nobody, and one may be
  proposed that has ended already. No operation expires Runs or obligations.
- `recordObservation` checks neither the epoch nor the lease of the workload,
  and the launch in `reference-linux-substrate.js` does not ask the gate.

*Upgrade.*
- A second incompatible action during an open repair leaves the detail naming
  the first (`upgrade-service.js:1049`); a receipt for the first then settles the
  repair, where `:962` and item 7 of `docs/user-space-upgrades.md` ask for the
  latest.
- Any Run ever admitted pins its Package Version for good, and so does a pending
  hand-off whose time is up, which can be neither accepted nor rejected.
- Retirement through one plan does not ask for the retention window of another
  with the same old package (`:1110`), and as a package is retired once, the
  other plan never reaches "retired". A reversible plan cannot be rolled back
  after that.
- An operator's approval of the old or the target Deployment at the current
  revision makes a rollback or an equivalent activation fail on a unique index
  (`:1008`).

*Diagnostics.*
- The revision of an Evidence Package throws if a case has more than one unclaimed
  Assignment (`diagnostic-evidence-package-service.js:1384`), and a consistency
  test puts three there (`docs/diagnostic-consistency.md:5`): until two of them
  are claimed, no material revision of the case succeeds.
- The marker of a spent model grant lies in a directory made for one invocation
  of the runner and removed with it, so a second invocation with the replayed
  launch can use the same grant (`docs/diagnostic-worker-execution.md:14`: "so a
  crash cannot make the grant reusable"). `DiagnosisFromOneRequest` says what
  remains true: the diagnosis that is stored cost one request.
- A run never becomes failed or cancelled; one whose recorded invocation failed
  never completes. Completion does not look at the replay probe's result.
- Grants that are out when material is erased stay valid until they expire.
- When two revisions come before the first replacement is handled, the new
  Assignment is for the older package; a consistency slot can be replaced by a
  revision, and its test then never completes.
- Six exclusive operations at once can wait for a second connection of a pool of
  six (`diagnostic-material-availability-service.js:183`).

*Repair and Promotion.*
- A process that dies after the application was requested, or a read-back that
  fails, leaves the Promotion "applying", and a rollback whose answer is lost leaves
  it "rolling_back"; no command leaves these states, although
  `docs/promotion-reconciliation-and-rollback.md:9` lets a lost answer end in "uncertain".
- A reconciliation that finds the base says "failed" while the PUT may still be on
  its way (line 12 of that document: the target "remains on the pre-change
  revision"); it may land afterwards.
- The record of a confirmed Promotion says what the target does, not who made it so:
  the adapter compares behaviours (`repair-delivery-adapter.js:531-538`), as
  `docs/promotion-reconciliation-and-rollback.md:11` does. A Promotion whose PUT was lost
  is confirmed when another Promotion with the same patch, or somebody in n8n, wrote the
  same behaviour, and its rollback then undoes that work.
- A PUT names no revision. Two Promotions from one base may both pass the read of
  the adapter, and the later one overwrites the earlier; so may an edit be lost.
- After a Promotion failed or was rolled back its candidate stays "verified", so no
  task can be created for the case, and it cannot be promoted again
  (`diagnostic-migrations/007_promotions.sql:5`).
- `apply` does not ask whether the candidate is still verified: it may have been
  verified again, with the regressions of others, and rejected since.

## 5. Proofs

### Executor

`CommandExecutorProofs` proves, for any sets of requests, commands and digests
and any pool size, from the assumptions `OperationAssumption`,
`NestedAssumption`, `PoolAssumption` and `NoneAssumption` of `CommandExecutor`:

| Theorem | Statement |
|---|---|
| `TypeCorrect` | `Spec => []TypeOK` |
| `Decides` | `Spec => []DecidesAlone` |
| `Integrity` | `Spec => []TransitionIntegrity` |
| `Suspension` | `Spec => SuspensionHonoured` |
| `OnlyExhaustionBlocks` | `Spec => []OnlyThePoolBlocks` |
| `Refinement` | `Spec => ImplementsLedger` |

None of the properties is inductive. `IInv` adds what makes them so:

- `QueueOK`, who is in the pool's queue waits for a connection, once;
- `AdvisoryOK` and `RowOK`, a lock is held exactly by the handlers in the phases
  between taking and dropping it, and by one at a time;
- `InputOK`, a handler at work has a command;
- `FenceOK`, the fence a transaction passed is still open: only a commit moves
  `operational_state`, and a commit needs the row lock it holds;
- `CommittedOK`, a handler about to answer finds its entry;
- `LedgerOK`, accepted commands carry the numbers 1 .. next_sequence - 1, each
  once, and the transitions are their image.

Each action has a lemma (`SubmitKeeps` ... `CommitKeeps`); the answers share
`RespondKeeps`. Suspension and refinement then follow from `IInv` step by step:
only `Commit` writes the tables (`OnlyCommitWrites`), a commit is the abstract
`Accept` (`CommitIsAccepted`), an answer a `Tell...` (`AnswerIsTold`).

`OnlyExhaustionBlocks` is the part of `EveryRequestAnswered` that is not about fairness,
for every size of the pool and any number of handlers, operations that read through the
pool included: while a handler is at work some handler can take a step, or
`PoolExhausted` holds. Then every connection is the first of some handler, and the
holder of the Environment row queues for a second: the deadlock the deployed pool of ten
can reach (`src/database.js:13`). The theorem says that it is the only one: advisory
locks and the row alone are never waited for in a circle. `PoolOK` is the invariant it
needs: who has a connection and who is in the queue for one.

### Runtime authority

`RuntimeAuthorityProofs`, from `AuthorityAssumption`: `AuthorityInvariant`,
`AuthorityTypes`, `NestedAuthority` (`AuthorityNested`), `ResponsibilityTraces`
(`ResponsibilityTraced`), `GateRefusesFenced`
(`FencedIsRefused`), `RecordedPrefix` (`RecordedIsPrefix`), and two statements no
run repeats because the invariant of the run says more of small instances:
`SingleDelegate` (`OneDelegate`) and `StaysDelegated` (`DelegatedForGood`). The
inductive invariant adds to types and nesting

- `RunsDelegated`, every Run came by an accepted hand-off of its task, and
  `MovedOnce`, a task that left its owner left by the hand-off its responsibility
  names: only then do two Runs of two runtimes contradict each other;
- `ChecksGranted` and `CurrentIsFresh`, what a call of the gate holds is the grant
  of an accepted hand-off, and once its epoch compared equal it is not older than
  the call: the epoch only grows.

`ResponsibilityTraced` counts the accepted hand-offs of a task with `Cardinality`: an
acceptance adds exactly one to a finite set, which the lemmas take from
`FiniteSetTheorems`.

### Upgrade

`UpgradeProofs`, from `UpgradeAssumption`: `UpgradeInvariant`, `UpgradeTypes`, all
properties of the run and three that it does not repeat: `ApprovalsAreFresh`,
`ReceiptsCountOnce`, `RetirementHolds`, `ChainHolds`, `CanaryIsCurrent`, `RepairHolds`,
and the refinement `UpgradeKeepsPromise`. What makes them inductive: `PlansBound` (the
history shows the current Deployment of a plan at the revision the plan was analysed
against, and a plan has an activation of its own exactly from its activation on),
`CanaryIsLatest` (a plan in "canary_passed" has not been verified since), `OpenIncident`
(the detail of an open repair names an incompatible action later than every
verification), `ReceiptsOnce` (the same of every verification on record). Retirement
needs nothing but the guards of all others: a package that is retired is no longer
active, so nothing new can come to depend on it.

`UpgradeKeepsPromise` needs nothing beyond that invariant. Every step of a plan is one
of seven (`Moves`); the stage it has at the outside changes with five of them, and the
lemmas `StepThatAgrees` ... `StepThatUses` give the abstract step of each. An upgrade
that starts from a stale analysis is ruled out by the guard, a way back over somebody
else's activation by `UpgradesChain`, a hand-off under a retired package, which
`propose` does not check itself, by `RetiredIsUnreferenced`.

### Diagnostic dispatch and erasure

`DiagnosticProofs`, from `DispatchAssumption`: `DiagnosticInvariant`,
`DiagnosticTypes`, the properties of the run, `OfferAdmissible`, `ExactReplacement`,
`OneRequestDiagnosis`, `BytesMatch`, `NoLaunchAfterErasure`, with `OneRun`
(`OneRunPerAssignment`), and the refinement `DiagnosisKeepsPromise`.
The invariant adds

- `StagesFresh`, an Assignment exists only after its stage created it or a
  consistency test registered it, so no creation finds the slot in use;
- `RunsAuthorized`, a Worker Run was authorized for an Assignment that was taken;
- `CancelledIsInadmissible`, an Assignment is cancelled only with a restriction of
  its material that is never lifted: this is why commands that do not look at
  the Assignment are right all the same;
- `ReplacedExpired`, what was replaced is expired and stays so;
- `OneRequest` and `Delivered`, the requests of an invocation follow its marker,
  a collected output has one behind it, and a completed run keeps that invocation.

The refinement needs one fact more, `Earlier`: tests belong to packages there are, and
what is replaced is of an earlier one, so that an offer of an Assignment is never
about a package still to come. The price of a diagnosis is 0 until the run is completed
and the number of requests from then on; that it is 1 (`OnePrice`) is where
`DiagnosisFromOneRequest` enters, and that work is only finished while its Assignment
is still taken is `WholeIsClaimed`, from `CancelledIsInadmissible`. Evaluations,
signatures, everything that happens to invocations and the stages that end without an
Assignment are steps the promise does not see (`StepUnseen`).

### Ingress

`IngressProofs`, from the assumptions of `IngressJournal`: `IngressInvariant`,
`IngressTypes` (`TypeOK`), `OneOperationEach`, `AnswersAreJournaled`, `PayloadKept`
under the assumption of one forwarder, and `FinishedForGood`, whose condition is
in the property. The invariant adds `NumberRead` (the number a handler has read is
the next one while it holds the row), `Mapped` (the operation of a source is that
of its rows), `LeaseHeld` (what the only worker of a mode has in its hands is its
own lease, until its success is on record).

`IngressKeepsPromise` holds for any number of forwarders: the promise speaks of the log,
the answers and the payloads, and a payload is deleted only with a success that the
runtime has given. It adds `Unanswered` (a request is answered once, by the step that
ends its handling) and `Begun` (a source is mapped to a row of its own). What needs a
single forwarder, that a payload is deleted at once and its delivery never retried, is
`PayloadKept` and not in the promise.

### Effects and recovery

`EffectProofs`, from the assumptions of `EffectLifecycle` (`RequirementAssumption`: a
contract has evidence requirements, `src/package-service.js:448`): `EffectInvariant`,
`EffectTypes`, the refinement `KeepsPromise` (`ImplementsPromise`), and every safety
property of the two runs: `OneWriteOnly`, `SuccessApplied`, `QuietVerdicts`,
`AccountabilityAddsUp`, `CasesAgree` (`CaseAndPermits`), and `OverwritingOnly`, which
assumes the two requirements the adapter has evidence for. The invariant says four
things of each correction: `Dispatched` (permit, PUT and receipt go together),
`Accounted` (what the obligations add up to at each stage), `CaseWorked` (a case, its
one issued permit, and who reconciles it) and `LookupStands` (what a lookup found stays,
and what it did not find stays away once the credential has expired). A step of one
correction leaves the others alone (`OthersSame`), but for the inventory of an item;
`OverwritingOnly` adds `Traced`, which says who wrote it.

### Restores

The second part of `EffectProofs`, from the assumptions of `EffectLifecycle` and
`EnvironmentRestore`: `RestoreInvariant`, `RestoreTypes`, and both safety properties of
the run: `NotEmittedTwice` and `DoubtIsHeld`. The invariant of effects does not survive
a restore: the database goes back and the adapter goes on, so a permit may look unspent
whose PUT is out. What is left is the part about claims (`ClaimsHeld`, from which the
first part derives types), and: `Consistent`, said of the database and of the bundle
alike (an early effect has no case, no grant and no session is of an epoch still to
come); `Restorable`, the types of the bundle; `Emission`, why a second PUT cannot leave
although the permit is unspent (its grant is of a fenced epoch, or the Kernel is still
stopped before the fence; an effect that was `exposed` is left out); `DoubtHeld`,
`DoubtIsObligation` for every session that has begun, because verifying a resumed
session makes it unfinished again. Nothing in it counts bundles, restores or sessions.

### Repair and Promotion

`RepairProofs`, from `RepairAssumption`: `RepairInvariant`, `RepairTypes`, and the
properties of the run, `OrderedWrites` and `TrueRecords`, with `OneAttempt`
(`OneAttemptAtATime`), and the refinement `RepairKeepsPromise`. The
invariant has two halves. `TaskInv` orders the tasks of a case: they are created
one after the other (`InOrder`), only the last can be live (`LiveInOrder`), and a
candidate needs a task that was submitted. `ChainInv` says of each task how far
its repair has come: `Order` (nothing is requested before a candidate has passed
and the base is known), `OnceEach` (for each kind of write, what is on its way and
what has landed is one at most, and none before it was requested), and `Progress`
(what the handler between its two commands may still do and has seen). `Stood` and
`Restored` are what the records claim of the target, what it did and not who made it
so; they are stated of positions in a sequence that only grows, so that nobody else's
write can undo them. Of the patches nothing is assumed but that each is a partial
function on behaviours. The
refinement follows from the same invariant: a PUT that lands, however late, is the write
of an order still without one (`OnceEach`), and a verdict is given with its position.

### Intake and grants

`IntakeProofs`, from `IntakeAssumption`: `IntakeInvariant`, `IntakeTypes`, the
properties of the run, `CoverageReceived`, `AppliedIsEffective`, `AuthorityAtReceipt`, two
it does not repeat, `StablePrefix` (`PrefixIsStable`) and `AnswersRecorded`
(`AnswersAreOnRecord`), and the refinement `IntakeKeepsPromise`. The invariant joins

- `GrantInv`, the Kernel is at most one snapshot ahead of the Diagnostic Plane, and
  its pending state says which; `ApplyingInv`, what is being applied was published;
- `RequestInv`, the snapshot a request found is published for good, active once the
  request is authorized, and in effect from when it shares the row of the grant;
- `LocksInv`, two transactions differ in identity, then in stream, and one of them
  at most has a position;
- `ProgressInv`, a cleared request is within reach of an accepted one (`InReach`: the
  coverage it judged by only grows), a fresh one still has nothing to be answered
  with, its position is the next and no cutoff is captured;
- `PositionsInv` and `StreamInv`: a captured cutoff is the end of the prefix, every
  projection lies below it, and the coverage of a stream has a highest sequence.

Every step is one of a grant, of one request or of a projection (`StepKinds`), and each
leaves the variables of the others alone; of the steps of requests only two write the
prefix (`OutcomeKinds`). Nothing in it counts requests, grants or projections.

The instant at which a report is answered is its commit: by then the authority it was
checked against has been held in place by the shared row of the grant, the coverage by
the lock of its stream, and the lookup by the lock of its identity. The refinement adds
`KnownInv`, what the Kernel calls effective is the state before or after the last
change, and `NewInv`, a request without an answer has nothing on record that is its own.

### Only model-checked

All liveness (`EveryRequestAnswered`, `ReconciliationConcludes`,
`ResolvedRestoreResumes`, `ForwardingGoesOn`; TLAPS does not reason about fairness
here). Every safety property of a passing run, every action property and every
refinement has its theorem.

## 6. Plan

In this order.

1. Two more promises: `RuntimeAuthority` as one responsibility that moves, and
   `EnvironmentRestore` as an outside world that a restore does not touch, with their
   refinements.
2. `OnlyThePoolBlocks` and the bound on connections for the Diagnostic Plane's executor,
   whose pool of six serves operations that need a second connection.
3. Tokenization as a second receiver of grants, and the dependencies of
   observations on its receipts.
4. Support sessions: approvals that read their state before the transaction that
   uses it.
5. Environment coordination: promotion attestations that read recovery verdicts.

## 7. Not modelled

Signatures and canonical JSON (assumed right); package, schema and document validation
(input checks without state); selection and projection of evidence and the independent
verification (pure recomputation of digests); the maintenance pipeline of immutable
documents; console, CLI, routers and operation schemas (no state of their own);
acceptance scripts, adapters of vendor runtimes, example packages and generated
fixtures. These are the larger part of the lines of the repository. Within the modelled
components, "components" in `PROJECT.json` says what is left out: the projection rebuild
and the encryption of bundles, retention holds (they only refuse), policies of
Assignments, registration of workers and bindings, scores of consistency tests,
tokenization of what is journaled.
