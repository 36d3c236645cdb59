-------------------------- MODULE RuntimeAuthority --------------------------
(***************************************************************************)
(* Who may work on a task: hand-offs move the responsibility for a Work      *)
(* Intent from the Agent Passport that owns it to another runtime, a          *)
(* Delegation and a Workload Grant come with it, Runs are admitted and         *)
(* completed under that delegation, a gate tells hosts whether a grant still    *)
(* counts, and hosts report what they saw in signed, chained observations.      *)
(* Commands are transactions that hold the row of the Environment, so each is   *)
(* one step; the gate reads outside any transaction, one query at a time.        *)
(* Expiry times are instants of one clock, digests are the things they name.     *)
(***************************************************************************)
EXTENDS Integers, FiniteSets

CONSTANTS
    Intents,        \* confirmed Work Intents
    Passports,      \* Agent Passports
    Owner,          \* the passport a Work Intent was confirmed for
    PassportEnd,    \* the instant a passport expires
    Handoffs,       \* identities of hand-offs, and of the grants they yield
    Keys,           \* idempotency keys of Run admissions
    Checks,         \* concurrent callers of the workload gate
    Hosts,          \* runtime hosts
    Lease,          \* lease_seconds of a workload
    Expiries,       \* expiry instants the callers ask for
    Horizon, MaxEpoch, MaxSequence,     \* bounds: clock, epochs, observations
    Nobody, NoHandoff

ASSUME AuthorityAssumption ==
    /\ Intents # {} /\ Owner \in [Intents -> Passports]
    /\ PassportEnd \in [Passports -> Nat]
    /\ Expiries \subseteq Nat
    /\ Lease \in Nat /\ Horizon \in Nat /\ MaxEpoch \in Nat /\ MaxSequence \in Nat
    /\ Nobody \notin Passports /\ NoHandoff \notin Handoffs

VARIABLES
    now,            \* the clock
    epoch,          \* kernel_environments.execution_epoch
    quarantined,    \* kernel_host_security_states: hosts quarantined for good
    handoff,        \* kernel_handoffs with their delegation proposal
    grant,          \* kernel_workload_grants, by hand-off
    resp,           \* kernel_task_responsibilities
    run,            \* kernel_runs with envelope and state, by idempotency key
    check,          \* where each call of checkWorkloadGate has got
    recorded        \* kernel_host_observations: sequences of a workload

vars == <<now, epoch, quarantined, handoff, grant, resp, run, check, recorded>>

Handoff == [state : {"absent", "pending", "accepted", "rejected"}, intent : Intents,
            target : Passports, expires : Nat, delegated : Nat]
Grant == [epoch : Nat, ends : Nat]
Responsibility == [holder : Passports \union {Nobody},
                   via : Handoffs \union {NoHandoff}, revision : Nat]
Run == [status : {"none", "admitted", "completed"},
        via : Handoffs \union {NoHandoff}, until : Nat]
Check == [stage : {"idle", "granted", "current", "admitted", "refused"},
          grant : Handoffs \union {NoHandoff}, since : Nat]

TypeOK ==
    /\ now \in Nat /\ epoch \in Nat /\ quarantined \subseteq Hosts
    /\ handoff \in [Handoffs -> Handoff]
    /\ grant \in [Handoffs -> Grant]
    /\ resp \in [Intents -> Responsibility]
    /\ run \in [Keys -> Run]
    /\ check \in [Checks -> Check]
    /\ recorded \in [Handoffs -> SUBSET Nat]

Absent == [state |-> "absent", intent |-> CHOOSE i \in Intents : TRUE,
           target |-> CHOOSE p \in Passports : TRUE, expires |-> 0, delegated |-> 0]

Init ==
    /\ now = 0 /\ epoch = 1 /\ quarantined = {}
    /\ handoff = [h \in Handoffs |-> Absent]
    /\ grant = [h \in Handoffs |-> [epoch |-> 0, ends |-> 0]]
    /\ resp = [i \in Intents |-> [holder |-> Nobody, via |-> NoHandoff, revision |-> 0]]
    /\ run = [k \in Keys |-> [status |-> "none", via |-> NoHandoff, until |-> 0]]
    /\ check = [c \in Checks |-> [stage |-> "idle", grant |-> NoHandoff, since |-> 0]]
    /\ recorded = [h \in Handoffs |-> {}]
-----------------------------------------------------------------------------
(* passportState: every passport is valid from the start.                    *)
Valid(p) == now < PassportEnd[p]

Earlier(a, b) == IF a <= b THEN a ELSE b

(* getHandoff shows a pending hand-off as expired once its time is up.       *)
Pending(h) == handoff[h].state = "pending" /\ now < handoff[h].expires

Source(h) == Owner[handoff[h].intent]

(* The row is inserted for the source when the intent has none yet.          *)
ResponsibilityRow(i) ==
    IF resp[i].holder = Nobody
    THEN [holder |-> Owner[i], via |-> NoHandoff, revision |-> 0]
    ELSE resp[i]

FitsPassports(i, p, expires) ==
    now < expires /\ expires <= PassportEnd[Owner[i]] /\ expires <= PassportEnd[p]

(* Only the passport the intent was confirmed for proposes; nothing keeps it *)
(* from naming itself, nor the delegation from being over already.            *)
Propose(h, i, p, expires, delegated) ==
    /\ handoff[h].state = "absent"
    /\ Valid(Owner[i]) /\ Valid(p)
    /\ FitsPassports(i, p, expires) /\ delegated <= expires
    /\ ResponsibilityRow(i).holder = Owner[i]
    /\ resp' = [resp EXCEPT ![i] = ResponsibilityRow(i)]
    /\ handoff' = [handoff EXCEPT ![h] =
            [state |-> "pending", intent |-> i, target |-> p,
             expires |-> expires, delegated |-> delegated]]
    /\ UNCHANGED <<now, epoch, quarantined, grant, run, check, recorded>>

Reject(h) ==
    /\ Pending(h)
    /\ handoff' = [handoff EXCEPT ![h].state = "rejected"]
    /\ UNCHANGED <<now, epoch, quarantined, grant, resp, run, check, recorded>>

(* mutation: acceptance trusts the proposal about who is responsible         *)
ProposalStands(h) == handoff[h].state = "pending"

SourceResponsible(h) == resp[handoff[h].intent].holder = Source(h)

(* mutation: the lease is cut by everything but the delegation               *)
GrantOutlives(h) ==
    Earlier(now + Lease, Earlier(handoff[h].expires, PassportEnd[handoff[h].target]))

GrantEnd(h) ==
    Earlier(Earlier(now + Lease, handoff[h].delegated),
            Earlier(handoff[h].expires, PassportEnd[handoff[h].target]))

Accept(h) ==
    /\ Pending(h) /\ Valid(handoff[h].target)
    /\ SourceResponsible(h)
    /\ resp' = [resp EXCEPT ![handoff[h].intent] =
            [holder |-> handoff[h].target, via |-> h, revision |-> @.revision + 1]]
    /\ grant' = [grant EXCEPT ![h] = [epoch |-> epoch, ends |-> GrantEnd(h)]]
    /\ handoff' = [handoff EXCEPT ![h].state = "accepted"]
    /\ UNCHANGED <<now, epoch, quarantined, run, check, recorded>>
-----------------------------------------------------------------------------
(* Run admission binds the passport and the intent of one delegation; an     *)
(* admission under a key already used replays or conflicts.                   *)
Holds(h) ==
    /\ resp[handoff[h].intent].holder = handoff[h].target
    /\ resp[handoff[h].intent].via = h

AdmissionCeiling(h) == Earlier(PassportEnd[handoff[h].target], handoff[h].delegated)

Admit(k, h, until) ==
    /\ run[k].status = "none"
    /\ handoff[h].state = "accepted"
    /\ Valid(handoff[h].target) /\ now < handoff[h].delegated
    /\ Holds(h)
    /\ now < until /\ until <= AdmissionCeiling(h)
    /\ run' = [run EXCEPT ![k] = [status |-> "admitted", via |-> h, until |-> until]]
    /\ UNCHANGED <<now, epoch, quarantined, handoff, grant, resp, check, recorded>>

(* Completion looks at the envelope and the delegation, not at who is         *)
(* responsible by now.                                                         *)
Complete(k) ==
    /\ run[k].status = "admitted"
    /\ now < run[k].until /\ now < handoff[run[k].via].delegated
    /\ run' = [run EXCEPT ![k].status = "completed"]
    /\ UNCHANGED <<now, epoch, quarantined, handoff, grant, resp, check, recorded>>
-----------------------------------------------------------------------------
AdvanceEpoch ==
    /\ epoch < MaxEpoch
    /\ epoch' = epoch + 1
    /\ UNCHANGED <<now, quarantined, handoff, grant, resp, run, check, recorded>>

(* A host is quarantined once and never readmitted.                          *)
QuarantineHost(x) ==
    /\ x \notin quarantined /\ epoch < MaxEpoch
    /\ quarantined' = quarantined \union {x}
    /\ epoch' = epoch + 1
    /\ UNCHANGED <<now, handoff, grant, resp, run, check, recorded>>

(* The gate: the grant, then the epoch of the Environment, then the clock.   *)
BeginCheck(c, h) ==
    /\ check[c].stage \in {"idle", "admitted", "refused"}
    /\ handoff[h].state = "accepted"
    /\ check' = [check EXCEPT ![c] = [stage |-> "granted", grant |-> h, since |-> epoch]]
    /\ UNCHANGED <<now, epoch, quarantined, handoff, grant, resp, run, recorded>>

(* mutation: a grant is refused only when it comes from a later epoch        *)
NotFuture(c) == grant[check[c].grant].epoch <= epoch

SameEpoch(c) == grant[check[c].grant].epoch = epoch

ReadEpoch(c) ==
    /\ check[c].stage = "granted"
    /\ check' = [check EXCEPT ![c].stage = IF SameEpoch(c) THEN "current" ELSE "refused"]
    /\ UNCHANGED <<now, epoch, quarantined, handoff, grant, resp, run, recorded>>

Decide(c) ==
    /\ check[c].stage = "current"
    /\ check' = [check EXCEPT ![c].stage =
            IF now < grant[check[c].grant].ends THEN "admitted" ELSE "refused"]
    /\ UNCHANGED <<now, epoch, quarantined, handoff, grant, resp, run, recorded>>
-----------------------------------------------------------------------------
(* mutation: only a repeated sequence number is refused                      *)
Unrecorded(h, n) == n + 1 \notin recorded[h]

(* The host of a workload signs observation after observation, each naming   *)
(* the digest of the one before; they are delivered late, twice, out of order  *)
(* or never.  The Kernel compares that digest with its latest observation.     *)
Latest(h, n) ==
    IF n = 0 THEN recorded[h] = {}
    ELSE n \in recorded[h] /\ \A m \in recorded[h] : m <= n

RecordObservation(h, n) ==
    /\ handoff[h].state = "accepted" /\ n \notin recorded[h]
    /\ Latest(h, n - 1)
    /\ recorded' = [recorded EXCEPT ![h] = @ \union {n}]
    /\ UNCHANGED <<now, epoch, quarantined, handoff, grant, resp, run, check>>

Tick ==
    /\ now < Horizon
    /\ now' = now + 1
    /\ UNCHANGED <<epoch, quarantined, handoff, grant, resp, run, check, recorded>>

Next ==
    \/ \E h \in Handoffs, i \in Intents, p \in Passports, e, d \in Expiries :
            Propose(h, i, p, e, d)
    \/ \E h \in Handoffs : Reject(h)
    \/ \E h \in Handoffs : Accept(h)
    \/ \E k \in Keys, h \in Handoffs, u \in Expiries : Admit(k, h, u)
    \/ \E k \in Keys : Complete(k)
    \/ AdvanceEpoch
    \/ \E x \in Hosts : QuarantineHost(x)
    \/ \E c \in Checks, h \in Handoffs : BeginCheck(c, h)
    \/ \E c \in Checks : ReadEpoch(c)
    \/ \E c \in Checks : Decide(c)
    \/ \E h \in Handoffs, n \in 1 .. MaxSequence : RecordObservation(h, n)
    \/ Tick

Spec == Init /\ [][Next]_vars
-----------------------------------------------------------------------------
Accepted(h) == handoff[h].state = "accepted"

(* Authority only narrows on its way down: no delegation outlives its         *)
(* hand-off, no hand-off either passport, and neither a Workload Grant nor an  *)
(* Execution Envelope its delegation (accept, admit).                           *)
AuthorityNested ==
    \A h \in Handoffs : handoff[h].state # "absent" =>
        /\ handoff[h].delegated <= handoff[h].expires
        /\ handoff[h].expires <= PassportEnd[Source(h)]
        /\ handoff[h].expires <= PassportEnd[handoff[h].target]
        /\ Accepted(h) => grant[h].ends <= handoff[h].delegated
        /\ \A k \in Keys : run[k].via = h => Accepted(h) /\ run[k].until <= handoff[h].delegated

(* However many hand-offs of a task are open at once, the responsibility      *)
(* says which of them moved it last, its revision counts those that did, and   *)
(* every one before the last was the owner's hand-off to itself.                 *)
ResponsibilityTraced ==
    \A i \in Intents :
        LET moved == {h \in Handoffs : Accepted(h) /\ handoff[h].intent = i}
        IN  /\ resp[i].revision = Cardinality(moved)
            /\ moved # {} => resp[i].via \in moved
            /\ moved # {} => resp[i].holder = handoff[resp[i].via].target
            /\ \A h \in moved : h = resp[i].via \/ handoff[h].target = Owner[i]

(* Two runtimes never both get Runs of one task: of the passports other than   *)
(* the owner's, at most one is ever admitted, whichever hand-offs race.          *)
OneDelegate ==
    \A k, l \in Keys :
        LET h == run[k].via  g == run[l].via
        IN  (h # NoHandoff /\ g # NoHandoff /\ handoff[h].intent = handoff[g].intent) =>
                \/ handoff[h].target = handoff[g].target
                \/ Source(h) \in {handoff[h].target, handoff[g].target}

(* A grant that was fenced when the gate was asked is never found admissible,  *)
(* however the three reads of the gate and the advances interleave.             *)
FencedIsRefused ==
    \A c \in Checks : check[c].stage = "admitted" => grant[check[c].grant].epoch >= check[c].since

(* Whatever is lost, repeated or reordered on the way, what the Kernel has      *)
(* recorded of a workload is what its host saw first, without a gap.             *)
RecordedIsPrefix ==
    \A h \in Handoffs : \E n \in 0 .. MaxSequence : recorded[h] = 1 .. n

(* A task that has left its owner stays where it went: no later hand-off,       *)
(* expiry or revision of anything moves it again or brings it back.              *)
DelegatedForGood ==
    [][\A i \in Intents :
            resp[i].holder \notin {Nobody, Owner[i]} => resp'[i] = resp[i]]_vars
=============================================================================
