--------------------------- MODULE CommandLedger ---------------------------
(***************************************************************************)
(* What the Kernel promises about commands, with no processes, locks or     *)
(* connections: a command id is bound at most once, to one digest and one   *)
(* position; positions are handed out without a gap; and every answer a     *)
(* caller gets can be read off the ledger at that moment.                   *)
(***************************************************************************)
EXTENDS Naturals

CONSTANTS Callers, Commands, Digests, None

VARIABLES
    entry,   \* what each command id is bound to; sequence 0 while unbound
    length,  \* how many positions the ledger has handed out
    asked,   \* the command id and digest each caller submitted last
    answer   \* what it was told about them

ledgerVars == <<entry, length, asked, answer>>

Bound(c) == entry[c].sequence # 0

LedgerInit ==
    /\ entry = [c \in Commands |-> [digest |-> None, sequence |-> 0]]
    /\ length = 0
    /\ asked = [p \in Callers |-> [command |-> None, digest |-> None]]
    /\ answer = [p \in Callers |-> [outcome |-> "none", sequence |-> 0]]

(* A caller that submits again forgets its last answer. *)
Ask(p, c, d) ==
    /\ asked' = [asked EXCEPT ![p] = [command |-> c, digest |-> d]]
    /\ answer' = [answer EXCEPT ![p] = [outcome |-> "none", sequence |-> 0]]
    /\ UNCHANGED <<entry, length>>

(* The command and its transition appear together, at the next position. *)
Accept(c, d) ==
    /\ ~ Bound(c)
    /\ entry' = [entry EXCEPT ![c] = [digest |-> d, sequence |-> length + 1]]
    /\ length' = length + 1
    /\ UNCHANGED <<asked, answer>>

Tell(p, outcome, n) ==
    /\ answer' = [answer EXCEPT ![p] = [outcome |-> outcome, sequence |-> n]]
    /\ UNCHANGED <<entry, length, asked>>

(* The result of the caller's own digest, a conflict with another digest, or *)
(* a refusal, which leaves the command id unbound.                           *)
TellResult(p, c) ==
    /\ asked[p].command = c
    /\ Bound(c) /\ entry[c].digest = asked[p].digest
    /\ Tell(p, "result", entry[c].sequence)

TellConflict(p, c) ==
    /\ asked[p].command = c
    /\ Bound(c) /\ entry[c].digest # asked[p].digest
    /\ Tell(p, "conflict", 0)

TellRejected(p, c) ==
    /\ asked[p].command = c
    /\ ~ Bound(c)
    /\ Tell(p, "rejected", 0)

LedgerNext ==
    \E c \in Commands :
        \/ \E d \in Digests : Accept(c, d) \/ \E p \in Callers : Ask(p, c, d)
        \/ \E p \in Callers : TellResult(p, c) \/ TellConflict(p, c) \/ TellRejected(p, c)

LedgerSpec == LedgerInit /\ [][LedgerNext]_ledgerVars
=============================================================================
