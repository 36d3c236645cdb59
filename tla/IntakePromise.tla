--------------------------- MODULE IntakePromise ----------------------------
(***************************************************************************)
(* What the intake of observations promises to those who report, to those who *)
(* investigate and to the Kernel, with no locks, transactions or retries: the   *)
(* authority of a grant never runs ahead of the Kernel by more than one change,  *)
(* a report is accepted at one instant and under the authority of that instant,   *)
(* every answer is true when it is given, and a projection is one reading of all    *)
(* that stands on record.                                                           *)
(***************************************************************************)
EXTENDS Naturals, Sequences

CONSTANTS Reporters, Grants, Observation, MaxAdvance, Nothing

VARIABLES
    authority,  \* the state of each grant in effect, and how often it changed
    known,      \* what the Kernel knows of it
    sent,       \* what each reporter has sent
    told,       \* what it was told
    record,     \* the outcomes, each at its position
    length,     \* how many positions there are
    readings    \* what the projections have read

authorityVars == <<authority, known>>
recordVars == <<record, length>>
promiseVars == <<authority, known, sent, told, record, length, readings>>

PromiseInit ==
    /\ authority = [g \in Grants |-> [state |-> "none", number |-> 0]]
    /\ known = [g \in Grants |-> "none"]
    /\ sent = [r \in Reporters |-> Nothing]
    /\ told = [r \in Reporters |-> "none"]
    /\ record = {} /\ length = 0 /\ readings = <<>>

(* Authority is given and withdrawn in turn, and never again before the Kernel *)
(* knows of the last time.                                                      *)
Change(g) ==
    /\ known[g] = authority[g].state
    /\ authority' = [authority EXCEPT ![g] =
            [state |-> IF @.state = "active" THEN "revoked" ELSE "active",
             number |-> @.number + 1]]
    /\ UNCHANGED <<known, sent, told, recordVars, readings>>

Learn(g) ==
    /\ known' = [known EXCEPT ![g] = authority[g].state]
    /\ UNCHANGED <<authority, sent, told, recordVars, readings>>

Send(r, o) ==
    /\ sent[r] = Nothing /\ told[r] = "none"
    /\ sent' = [sent EXCEPT ![r] = o]
    /\ UNCHANGED <<authorityVars, told, recordVars, readings>>

(* A reporter is told once; some answers come with an outcome on record.        *)
Tell(r, what) ==
    /\ told[r] = "none"
    /\ told' = [told EXCEPT ![r] = what]
    /\ UNCHANGED <<authorityVars, sent, readings>>

Put(kind, o, under) ==
    /\ record' = record \union
          {[position |-> length + 1, kind |-> kind, report |-> o, under |-> under]}
    /\ length' = length + 1

Receipts == {p \in record : p.kind = "accepted"}

(* The same identity, or the same sequence of the same stream.                  *)
Clash(p, o) ==
    \/ p.report.id = o.id
    \/ p.report.grant = o.grant /\ p.report.number = o.number

Reachable(o) ==
    \/ o.number <= MaxAdvance
    \/ \E p \in Receipts :
          p.report.grant = o.grant /\ o.number <= p.report.number + MaxAdvance

TellAccepted(r, o) ==
    /\ sent[r] = o /\ authority[o.grant].state = "active"
    /\ Reachable(o) /\ \A p \in Receipts : ~ Clash(p, o)
    /\ Put("accepted", o, authority[o.grant].number)
    /\ Tell(r, "accepted")

TellReplayed(r) ==
    /\ \E p \in Receipts : p.report = sent[r]
    /\ Tell(r, "replayed") /\ UNCHANGED recordVars

TellConflict(r) ==
    /\ \E p \in Receipts : Clash(p, sent[r])
    /\ \A p \in Receipts : p.report # sent[r]
    /\ Put("conflict", sent[r], 0)
    /\ Tell(r, "conflict")

(* A refusal says nothing of what is on record, and may leave no outcome.       *)
TellRefused(r) ==
    \/ Put("rejected", sent[r], 0) /\ Tell(r, "rejected")
    \/ UNCHANGED recordVars /\ \E what \in {"rejected", "unavailable"} : Tell(r, what)

Read ==
    /\ \A i \in DOMAIN readings : readings[i].cutoff < length
    /\ readings' = Append(readings, [cutoff |-> length, outcomes |-> record])
    /\ UNCHANGED <<authorityVars, sent, told, recordVars>>

PromiseNext ==
    \/ \E g \in Grants : Change(g) \/ Learn(g)
    \/ \E r \in Reporters :
          \/ \E o \in Observation : Send(r, o) \/ TellAccepted(r, o)
          \/ TellReplayed(r) \/ TellConflict(r) \/ TellRefused(r)
    \/ Read

PromiseSpec == PromiseInit /\ [][PromiseNext]_promiseVars
=============================================================================
