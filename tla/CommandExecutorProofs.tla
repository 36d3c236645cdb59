----------------------- MODULE CommandExecutorProofs ------------------------
(***************************************************************************)
(* What TLAPS proves of CommandExecutor for any number of requests,          *)
(* commands, digests and connections.  Everything follows from one inductive *)
(* invariant: who holds a lock is who is in the phases between taking and    *)
(* dropping it, so a transaction past the row lock is alone with the row.    *)
(***************************************************************************)
EXTENDS CommandExecutor, FiniteSetTheorems, TLAPS

(* The phases in which a handler holds the advisory lock of its command. *)
Holding == Sequenced \union {"locked", "unseen"}

Queueing == {"connecting", "read_waiting"}

(* Every handler in the pool's queue waits for a connection, and waits once. *)
QueueOK ==
    /\ \A i \in 1 .. Len(waiting) : phase[waiting[i]] \in Queueing
    /\ \A i, j \in 1 .. Len(waiting) : waiting[i] = waiting[j] => i = j

AdvisoryOK ==
    \A c \in Commands :
        /\ \A r \in Requests :
              r \in advisory[c] <=> phase[r] \in Holding /\ submitted[r].command = c
        /\ \A r, s \in advisory[c] : r = s

RowOK ==
    /\ \A r \in Requests : r \in rowLock <=> phase[r] \in Sequenced
    /\ \A r, s \in rowLock : r = s

InputOK == \A r \in Requests : phase[r] # "idle" => submitted[r] \in Input

(* The fence a transaction passed under the row lock still stands open. *)
FenceOK == \A r \in Requests : phase[r] \in Sequenced => ~ Fenced(submitted[r].digest)

(* A handler about to answer finds its own entry in the ledger. *)
CommittedOK ==
    \A r \in Requests : phase[r] = "committed" =>
        /\ commands[submitted[r].command] =
              [digest |-> submitted[r].digest, sequence |-> sequence[r]]
        /\ sequence[r] # 0

(* Accepted commands are numbered 1 .. next_sequence - 1, each number once. *)
LedgerOK ==
    /\ transitions = {[command |-> c, sequence |-> commands[c].sequence] :
                         c \in {c \in Commands : ~ Absent(c)}}
    /\ \A c, d \in Commands :
          ~ Absent(c) /\ commands[c].sequence = commands[d].sequence => c = d
    /\ \A c \in Commands : commands[c].sequence < environment.next_sequence
    /\ \A n \in 1 .. (environment.next_sequence - 1) :
          \E c \in Commands : commands[c].sequence = n

IInv ==
    /\ TypeOK /\ QueueOK /\ AdvisoryOK /\ RowOK /\ InputOK
    /\ DecidesAlone /\ FenceOK /\ CommittedOK /\ LedgerOK
-----------------------------------------------------------------------------

(* Nothing holds and nothing is queued in the initial state. *)
LEMMA InitIInv == Init => IInv
<1> SUFFICES ASSUME Init PROVE IInv
    OBVIOUS
<1>1. TypeOK
  BY DEF Init, TypeOK, Phase, NoInput, Entry, Answer
<1>2. QueueOK /\ AdvisoryOK /\ RowOK /\ InputOK
  BY DEF Init, QueueOK, AdvisoryOK, RowOK, InputOK, Holding, Sequenced
<1>3. DecidesAlone /\ FenceOK /\ CommittedOK
  BY DEF Init, DecidesAlone, FenceOK, CommittedOK, Sequenced
<1>4. LedgerOK
  BY <1>1 DEF Init, LedgerOK, Absent
<1> QED
  BY <1>1, <1>2, <1>3, <1>4 DEF IInv

(* Submitting touches only the handler itself, which was idle and so neither *)
(* queued nor holding anything.                                              *)
LEMMA SubmitKeeps ==
  ASSUME IInv, NEW r \in Requests, Submit(r)
  PROVE  IInv'
<1> USE DEF Submit, IInv
<1>1. TypeOK'
  BY DEF TypeOK, Enqueue, Phase, Answer, Input, lockVars, dbVars
<1>2. QueueOK'
  BY DEF TypeOK, QueueOK, Queueing, Enqueue
<1>3. AdvisoryOK' /\ RowOK' /\ InputOK'
  BY DEF TypeOK, AdvisoryOK, RowOK, InputOK, Holding, Sequenced, lockVars, Input
<1>4. DecidesAlone' /\ FenceOK'
  BY DEF TypeOK, DecidesAlone, FenceOK, Sequenced, Absent, Fenced, dbVars
<1>5. CommittedOK' /\ LedgerOK'
  BY DEF TypeOK, CommittedOK, LedgerOK, Absent, dbVars
<1> QED
  BY <1>1, <1>2, <1>3, <1>4, <1>5

(* A connection goes to the head of the queue, who held none in that role. *)
LEMMA GrantKeeps ==
  ASSUME IInv, Grant
  PROVE  IInv'
<1> USE DEF Grant, IInv
<1> DEFINE r == Head(waiting)
<1>1. /\ r \in Requests /\ phase[r] \in Queueing
      /\ waiting' \in Seq(Requests) /\ Len(waiting') = Len(waiting) - 1
      /\ \A i \in 1 .. Len(waiting') : waiting'[i] = waiting[i + 1]
  BY DEF TypeOK, QueueOK, Queueing
<1>2. phase' = [phase EXCEPT ![r] = IF phase[r] = "connecting" THEN "connected" ELSE "reading"]
  OBVIOUS
<1>3. TypeOK'
  BY <1>1, <1>2 DEF TypeOK, Phase, lockVars, dbVars
<1>4. QueueOK'
  BY <1>1, <1>2 DEF TypeOK, QueueOK, Queueing
<1>5. AdvisoryOK' /\ RowOK' /\ InputOK'
  BY <1>1, <1>2 DEF TypeOK, AdvisoryOK, RowOK, InputOK, Holding, Sequenced, Queueing, lockVars
<1>6. DecidesAlone' /\ FenceOK'
  BY <1>1, <1>2 DEF TypeOK, DecidesAlone, FenceOK, Sequenced, Queueing, Absent, Fenced, dbVars
<1>7. CommittedOK' /\ LedgerOK'
  BY <1>1, <1>2 DEF TypeOK, CommittedOK, LedgerOK, Absent, dbVars
<1> QED
  BY <1>3, <1>4, <1>5, <1>6, <1>7

(* Every way to answer drops the locks and keeps the ledger. *)
LEMMA RespondKeeps ==
  ASSUME IInv, NEW r \in Requests, phase[r] \notin Queueing,
         NEW outcome \in {"none", "result", "conflict", "rejected"}, NEW n \in Nat,
         Respond(r, outcome, n)
  PROVE  IInv'
<1> USE DEF Respond, IInv
<1>1. TypeOK'
  BY DEF TypeOK, Phase, Answer, Close, ReleaseLocks, dbVars
<1>2. QueueOK'
  BY DEF TypeOK, QueueOK, Queueing
<1>3. AdvisoryOK' /\ RowOK' /\ InputOK'
  BY DEF TypeOK, AdvisoryOK, RowOK, InputOK, Holding, Sequenced, ReleaseLocks
<1>4. DecidesAlone' /\ FenceOK'
  BY DEF TypeOK, DecidesAlone, FenceOK, Sequenced, Absent, Fenced, dbVars
<1>5. CommittedOK' /\ LedgerOK'
  BY DEF TypeOK, CommittedOK, LedgerOK, Absent, dbVars
<1> QED
  BY <1>1, <1>2, <1>3, <1>4, <1>5

(* The advisory lock of a command id has one holder. *)
LEMMA LockCommandKeeps ==
  ASSUME IInv, NEW r \in Requests, LockCommand(r)
  PROVE  IInv'
<1> USE DEF LockCommand, CommandFree, IInv
<1>1. submitted[r].command \in Commands
  BY DEF InputOK, Input
<1>2. TypeOK'
  BY <1>1 DEF TypeOK, Phase, poolVars, dbVars
<1>3. QueueOK'
  BY DEF TypeOK, QueueOK, Queueing, poolVars
<1>4. AdvisoryOK'
  BY <1>1 DEF TypeOK, AdvisoryOK, Holding, Sequenced
<1>5. RowOK' /\ InputOK'
  BY DEF TypeOK, RowOK, InputOK, Sequenced
<1>6. DecidesAlone' /\ FenceOK'
  BY DEF TypeOK, DecidesAlone, FenceOK, Sequenced, Absent, Fenced, dbVars
<1>7. CommittedOK' /\ LedgerOK'
  BY DEF TypeOK, CommittedOK, LedgerOK, Absent, dbVars
<1> QED
  BY <1>2, <1>3, <1>4, <1>5, <1>6, <1>7

(* An absent command id is still unbound when its lock holder moves on. *)
LEMMA FindUnseenKeeps ==
  ASSUME IInv, NEW r \in Requests, FindUnseen(r)
  PROVE  IInv'
<1> USE DEF FindUnseen, IInv
<1>1. TypeOK'
  BY DEF TypeOK, Phase, poolVars, lockVars, dbVars
<1>2. QueueOK'
  BY DEF TypeOK, QueueOK, Queueing, poolVars
<1>3. AdvisoryOK' /\ RowOK' /\ InputOK'
  BY DEF TypeOK, AdvisoryOK, RowOK, InputOK, Holding, Sequenced, lockVars
<1>4. DecidesAlone' /\ FenceOK'
  BY DEF TypeOK, DecidesAlone, FenceOK, Sequenced, Absent, Fenced, dbVars
<1>5. CommittedOK' /\ LedgerOK'
  BY DEF TypeOK, CommittedOK, LedgerOK, Absent, dbVars
<1> QED
  BY <1>1, <1>2, <1>3, <1>4, <1>5

(* The row lock freezes the number that was read and the fence it passed. *)
LEMMA LockEnvironmentKeeps ==
  ASSUME IInv, NEW r \in Requests, LockEnvironment(r)
  PROVE  IInv'
<1> USE DEF LockEnvironment, RowFree, IInv
<1>1. TypeOK'
  BY DEF TypeOK, Phase, poolVars, dbVars
<1>2. QueueOK'
  BY DEF TypeOK, QueueOK, Queueing, poolVars
<1>3. AdvisoryOK' /\ RowOK' /\ InputOK'
  BY DEF TypeOK, AdvisoryOK, RowOK, InputOK, Holding, Sequenced
<1>4. DecidesAlone' /\ FenceOK'
  BY DEF TypeOK, DecidesAlone, FenceOK, Sequenced, Absent, Fenced, dbVars
<1>5. CommittedOK' /\ LedgerOK'
  BY DEF TypeOK, CommittedOK, LedgerOK, Absent, dbVars
<1> QED
  BY <1>1, <1>2, <1>3, <1>4, <1>5

(* apply() leaves the handler where it is: with its locks, past the fence. *)
Applying(r) == Apply(r) \/ ReadThroughPool(r) \/ FinishRead(r)

(* apply() and its second connection write nothing of the ledger. *)
LEMMA ApplyingKeeps ==
  ASSUME IInv, NEW r \in Requests, Applying(r)
  PROVE  IInv'
<1> USE DEF IInv
<1>1. /\ phase[r] \in {"applying", "reading"}
      /\ \E p \in {"applied", "read_waiting"} :
            /\ phase' = [phase EXCEPT ![r] = p]
            /\ waiting' = IF p = "applied" THEN waiting ELSE Append(waiting, r)
      /\ UNCHANGED <<submitted, sequence, answer, lockVars, dbVars>>
      /\ checkedOut' \subseteq checkedOut
  BY DEF Applying, Apply, ReadThroughPool, FinishRead, Enqueue, poolVars
<1>2. TypeOK'
  BY <1>1 DEF TypeOK, Phase, lockVars, dbVars
<1>3. QueueOK'
  <2>1. r \notin {waiting[k] : k \in 1 .. Len(waiting)}
    BY <1>1 DEF QueueOK, Queueing
  <2>2. CASE phase' = [phase EXCEPT ![r] = "applied"] /\ waiting' = waiting
    BY <2>1, <2>2 DEF TypeOK, QueueOK, Queueing
  <2>3. CASE phase' = [phase EXCEPT ![r] = "read_waiting"] /\ waiting' = Append(waiting, r)
    <3>1. /\ Len(waiting) \in Nat
          /\ Len(waiting') = Len(waiting) + 1 /\ waiting'[Len(waiting) + 1] = r
          /\ \A k \in 1 .. Len(waiting) : waiting'[k] = waiting[k]
      BY <2>3 DEF TypeOK
    <3>2. \A k \in 1 .. Len(waiting') : phase'[waiting'[k]] \in Queueing
      BY <3>1, <2>1, <2>3 DEF TypeOK, QueueOK, Queueing
    <3>3. \A k, m \in 1 .. Len(waiting') : waiting'[k] = waiting'[m] => k = m
      <4> SUFFICES ASSUME NEW k \in 1 .. Len(waiting'), NEW m \in 1 .. Len(waiting'),
                          waiting'[k] = waiting'[m]
                   PROVE  k = m
        OBVIOUS
      <4>1. CASE k \in 1 .. Len(waiting) /\ m \in 1 .. Len(waiting)
        BY <4>1, <3>1 DEF QueueOK
      <4>2. CASE k = Len(waiting) + 1 \/ m = Len(waiting) + 1
        BY <4>2, <3>1, <2>1
      <4> QED
        BY <4>1, <4>2, <3>1
    <3> QED
      BY <3>2, <3>3 DEF QueueOK
  <2> QED
    BY <1>1, <2>2, <2>3
<1>4. AdvisoryOK' /\ RowOK' /\ InputOK'
  BY <1>1 DEF TypeOK, AdvisoryOK, RowOK, InputOK, Holding, Sequenced, lockVars
<1>5. DecidesAlone' /\ FenceOK'
  BY <1>1 DEF TypeOK, DecidesAlone, FenceOK, Sequenced, Absent, Fenced, dbVars
<1>6. CommittedOK' /\ LedgerOK'
  BY <1>1 DEF TypeOK, CommittedOK, LedgerOK, Absent, dbVars
<1> QED
  BY <1>2, <1>3, <1>4, <1>5, <1>6

(* A crash drops every lock and connection and keeps the committed tables. *)
LEMMA CrashKeeps ==
  ASSUME IInv, Crash
  PROVE  IInv'
<1> USE DEF Crash, IInv
<1>1. TypeOK'
  BY DEF TypeOK, Phase, dbVars
<1>2. QueueOK' /\ AdvisoryOK' /\ RowOK' /\ InputOK'
  BY DEF TypeOK, QueueOK, AdvisoryOK, RowOK, InputOK, Holding, Sequenced
<1>3. DecidesAlone' /\ FenceOK'
  BY DEF TypeOK, DecidesAlone, FenceOK, Sequenced
<1>4. CommittedOK'
  BY DEF CommittedOK
<1>5. LedgerOK'
  BY DEF LedgerOK, Absent, dbVars
<1> QED
  BY <1>1, <1>2, <1>3, <1>4, <1>5

(* The one step that writes the ledger: it is alone with the row, its command *)
(* id is unbound and the number it read is the next one.                       *)
LEMMA CommitKeeps ==
  ASSUME IInv, NEW r \in Requests, Commit(r)
  PROVE  IInv'
<1> DEFINE c == submitted[r].command
           d == submitted[r].digest
           n == environment.next_sequence
<1> USE DEF IInv
<1>1. /\ phase[r] = "applied" /\ c \in Commands /\ d \in Digests
      /\ Absent(c) /\ sequence[r] = n /\ n \in Nat \ {0}
      /\ phase' = [phase EXCEPT ![r] = "committed"]
      /\ ReleaseLocks(r)
      /\ UNCHANGED <<submitted, sequence, answer, poolVars>>
  BY DEF Commit, TypeOK, InputOK, Input, DecidesAlone, Sequenced
<1>2. /\ commands' = [commands EXCEPT ![c] = [digest |-> d, sequence |-> n]]
      /\ transitions' = transitions \union {[command |-> c, sequence |-> n]}
      /\ environment'.next_sequence = n + 1
      /\ environment' = [operational |-> Operational(d), next_sequence |-> n + 1]
  BY <1>1 DEF Commit
<1>3. \A s \in Requests \ {r} : phase[s] \notin Sequenced
  BY <1>1 DEF RowOK, Sequenced
<1>4. \A s \in Requests \ {r} : phase[s] \in Holding => submitted[s].command # c
  BY <1>1 DEF AdvisoryOK, Holding, Sequenced
<1>5. TypeOK'
  BY <1>1, <1>2, OperationAssumption
  DEF TypeOK, Phase, Entry, ReleaseLocks, poolVars, Operational, OperationKind
<1>6. QueueOK'
  BY <1>1 DEF TypeOK, QueueOK, Queueing, poolVars
<1>7. AdvisoryOK' /\ RowOK' /\ InputOK'
  BY <1>1, <1>3 DEF TypeOK, AdvisoryOK, RowOK, InputOK, Holding, Sequenced, ReleaseLocks
<1>8. DecidesAlone' /\ FenceOK'
  <2>1. \A s \in Requests : phase'[s] \notin Sequenced
    BY <1>1, <1>3 DEF TypeOK, Sequenced
  <2>2. \A s \in Requests : phase'[s] = "unseen" => Absent(submitted[s].command)'
    BY <1>1, <1>2, <1>4 DEF TypeOK, DecidesAlone, Holding, Absent, InputOK, Input
  <2> QED
    BY <2>1, <2>2 DEF DecidesAlone, FenceOK
<1>9. CommittedOK'
  <2> SUFFICES ASSUME NEW s \in Requests, phase'[s] = "committed"
               PROVE  /\ commands'[submitted'[s].command] =
                            [digest |-> submitted'[s].digest, sequence |-> sequence'[s]]
                      /\ sequence'[s] # 0
    BY DEF CommittedOK
  <2>1. CASE s = r
    BY <2>1, <1>1, <1>2 DEF TypeOK
  <2>2. CASE s # r
    <3>1. phase[s] = "committed" /\ submitted[s] \in Input
      BY <2>2, <1>1 DEF TypeOK, InputOK
    <3>2. commands[submitted[s].command].sequence # 0
      <4>1. /\ commands[submitted[s].command] =
                  [digest |-> submitted[s].digest, sequence |-> sequence[s]]
            /\ sequence[s] # 0
        BY <3>1 DEF CommittedOK
      <4> QED
        BY <4>1
    <3>3. submitted[s].command # c
      BY <3>2, <1>1 DEF Absent
    <3> QED
      BY <3>1, <3>3, <1>1, <1>2 DEF CommittedOK, TypeOK, Input
  <2> QED
    BY <2>1, <2>2
<1>10. LedgerOK'
  <2>1. \A b \in Commands :
           commands'[b] = IF b = c THEN [digest |-> d, sequence |-> n] ELSE commands[b]
    BY <1>1, <1>2 DEF TypeOK
  <2>2. {b \in Commands : ~ Absent(b)}' = {b \in Commands : ~ Absent(b)} \union {c}
    BY <2>1, <1>1 DEF Absent
  <2>3. transitions' = {[command |-> b, sequence |-> commands'[b].sequence] :
                           b \in {b \in Commands : ~ Absent(b)}'}
    BY <2>1, <2>2, <1>1, <1>2 DEF LedgerOK, Absent
  <2>4. \A b \in Commands : commands'[b].sequence < environment'.next_sequence
    BY <2>1, <1>1, <1>2 DEF LedgerOK, TypeOK, Entry
  <2>5. \A a, b \in Commands :
           ~ Absent(a)' /\ commands'[a].sequence = commands'[b].sequence => a = b
    <3>1. \A b \in Commands : commands[b].sequence # n
      BY <1>1 DEF LedgerOK, TypeOK, Entry
    <3> QED
      BY <3>1, <2>1, <1>1 DEF LedgerOK, Absent
  <2>6. \A m \in 1 .. (environment'.next_sequence - 1) :
           \E b \in Commands : commands'[b].sequence = m
    <3> TAKE m \in 1 .. (environment'.next_sequence - 1)
    <3>1. CASE m = n
      BY <3>1, <2>1, <1>1
    <3>2. CASE m \in 1 .. (n - 1)
      <4>1. PICK b \in Commands : commands[b].sequence = m
        BY <3>2 DEF LedgerOK
      <4>2. b # c
        BY <4>1, <3>2, <1>1 DEF Absent
      <4> QED
        BY <4>1, <4>2, <2>1
    <3> QED
      BY <3>1, <3>2, <1>1, <1>2
  <2> QED
    BY <2>3, <2>4, <2>5, <2>6 DEF LedgerOK
<1> QED
  BY <1>5, <1>6, <1>7, <1>8, <1>9, <1>10
-----------------------------------------------------------------------------
(* What each way of answering tells its caller, read off the ledger. *)
Tells(r, outcome, n) ==
    CASE outcome = "result" ->
            /\ ~ Absent(submitted[r].command)
            /\ commands[submitted[r].command].digest = submitted[r].digest
            /\ commands[submitted[r].command].sequence = n
      [] outcome = "conflict" ->
            /\ ~ Absent(submitted[r].command)
            /\ commands[submitted[r].command].digest # submitted[r].digest
            /\ n = 0
      [] OTHER -> Absent(submitted[r].command) /\ n = 0

Responding(r) == Replay(r) \/ Conflict(r) \/ RefuseFenced(r) \/ ApplyThrows(r) \/ Answered(r)

(* Each of the five steps that answer says what it tells and to whom. *)
LEMMA RespondingTells ==
  ASSUME IInv, NEW r \in Requests, Responding(r)
  PROVE  /\ phase[r] \notin Queueing
         /\ submitted[r] \in Input
         /\ \E outcome \in {"result", "conflict", "rejected"}, n \in Nat :
               Respond(r, outcome, n) /\ Tells(r, outcome, n)
<1> USE DEF IInv
<1>1. submitted[r] \in Input /\ submitted[r].command \in Commands
  BY DEF Responding, Replay, Conflict, RefuseFenced, ApplyThrows, Answered, InputOK, Input
<1>2. phase[r] \notin Queueing
  BY DEF Responding, Replay, Conflict, RefuseFenced, ApplyThrows, Answered, Queueing
<1>3. CASE Replay(r)
  <2>1. /\ Respond(r, "result", commands[submitted[r].command].sequence)
        /\ commands[submitted[r].command].sequence \in Nat
    BY <1>1, <1>3 DEF Replay, TypeOK, Entry
  <2>2. Tells(r, "result", commands[submitted[r].command].sequence)
    BY <1>1, <1>3 DEF Replay, Tells, SameInput
  <2> QED
    BY <1>1, <1>2, <2>1, <2>2
<1>4. CASE Conflict(r)
  <2>1. Respond(r, "conflict", 0) /\ 0 \in Nat
    BY <1>1, <1>4 DEF Conflict, TypeOK, Entry
  <2>2. Tells(r, "conflict", 0)
    BY <1>1, <1>4 DEF Conflict, Tells, SameInput
  <2> QED
    BY <1>1, <1>2, <2>1, <2>2
<1>5. CASE RefuseFenced(r)
  <2>1. Respond(r, "rejected", 0) /\ 0 \in Nat
    BY <1>1, <1>5 DEF RefuseFenced, TypeOK, Entry
  <2>2. Tells(r, "rejected", 0)
    BY <1>1, <1>5 DEF RefuseFenced, Tells, DecidesAlone
  <2> QED
    BY <1>1, <1>2, <2>1, <2>2
<1>6. CASE ApplyThrows(r)
  <2>1. Respond(r, "rejected", 0) /\ 0 \in Nat
    BY <1>1, <1>6 DEF ApplyThrows, TypeOK, Entry
  <2>2. Tells(r, "rejected", 0)
    BY <1>1, <1>6 DEF ApplyThrows, Tells, DecidesAlone, Sequenced
  <2> QED
    BY <1>1, <1>2, <2>1, <2>2
<1>7. CASE Answered(r)
  <2>1. Respond(r, "result", sequence[r]) /\ sequence[r] \in Nat
    BY <1>1, <1>7 DEF Answered, TypeOK, Entry
  <2>2. Tells(r, "result", sequence[r])
    <3>1. /\ commands[submitted[r].command] =
                [digest |-> submitted[r].digest, sequence |-> sequence[r]]
          /\ sequence[r] # 0
      BY <1>7 DEF Answered, CommittedOK
    <3> QED
      BY <3>1 DEF Tells, Absent
  <2> QED
    BY <1>1, <1>2, <2>1, <2>2
<1> QED
  BY <1>1, <1>2, <1>3, <1>4, <1>5, <1>6, <1>7 DEF Responding

(* The next-state relation, action by action. *)
LEMMA NextActions ==
  ASSUME Next
  PROVE  \/ Grant \/ Crash
         \/ \E r \in Requests :
               \/ Submit(r) \/ LockCommand(r) \/ LockEnvironment(r) \/ FindUnseen(r)
               \/ Applying(r) \/ Responding(r) \/ Commit(r)
BY DEF Next, Work, Applying, Responding

(* The inductive step: one lemma per action. *)
LEMMA NextKeepsIInv == IInv /\ [Next]_vars => IInv'
<1> SUFFICES ASSUME IInv, [Next]_vars PROVE IInv'
    OBVIOUS
<1>1. ASSUME UNCHANGED vars PROVE IInv'
  <2> USE <1>1 DEF vars, IInv
  <2>1. TypeOK'
    BY DEF TypeOK
  <2>2. QueueOK' /\ AdvisoryOK' /\ RowOK' /\ InputOK'
    BY DEF QueueOK, AdvisoryOK, RowOK, InputOK
  <2>3. DecidesAlone'
    BY DEF DecidesAlone, Absent
  <2>4. FenceOK'
    BY DEF FenceOK, Fenced
  <2>5. CommittedOK'
    BY DEF CommittedOK
  <2>6. LedgerOK'
    BY DEF LedgerOK, Absent
  <2> QED
    BY <2>1, <2>2, <2>3, <2>4, <2>5, <2>6
<1>2. ASSUME NEW r \in Requests, Responding(r) PROVE IInv'
  BY <1>2, RespondingTells, RespondKeeps
<1>3. CASE Next
  BY <1>2, <1>3, NextActions, GrantKeeps, CrashKeeps, SubmitKeeps, LockCommandKeeps,
     LockEnvironmentKeeps, FindUnseenKeeps, ApplyingKeeps, CommitKeeps
<1> QED
  BY <1>1, <1>3

(* The inductive invariant of the executor holds in every reachable state. *)
THEOREM Invariance == Spec => []IInv
BY InitIInv, NextKeepsIInv, PTL DEF Spec

(* The type invariant, for any number of requests, commands and connections. *)
THEOREM TypeCorrect == Spec => []TypeOK
<1>1. IInv => TypeOK
  BY DEF IInv
<1> QED
  BY <1>1, Invariance, PTL

(* While a transaction decides, nobody else can accept its command id or move *)
(* the sequence it has read (command-executor.js:21-74).                       *)
THEOREM Decides == Spec => []DecidesAlone
<1>1. IInv => DecidesAlone
  BY DEF IInv
<1> QED
  BY <1>1, Invariance, PTL

(* LedgerOK counts the transitions, which makes the sequences 1 .. n. *)
LEMMA LedgerIsIntact == IInv => TransitionIntegrity
<1> SUFFICES ASSUME IInv PROVE TransitionIntegrity
    OBVIOUS
<1> USE DEF IInv
<1>1. \A c \in Commands : ~ Absent(c) =>
         commands[c].sequence \in 1 .. (environment.next_sequence - 1)
  BY DEF LedgerOK, TypeOK, Entry, Absent
<1>2. {t.sequence : t \in transitions} \subseteq 1 .. (environment.next_sequence - 1)
  BY <1>1 DEF LedgerOK
<1>3. 1 .. (environment.next_sequence - 1) \subseteq {t.sequence : t \in transitions}
  <2> SUFFICES ASSUME NEW n \in 1 .. (environment.next_sequence - 1)
               PROVE  \E t \in transitions : t.sequence = n
      OBVIOUS
  <2>1. PICK c \in Commands : commands[c].sequence = n
    BY DEF LedgerOK
  <2>2. [command |-> c, sequence |-> commands[c].sequence] \in transitions
    BY <2>1 DEF LedgerOK, Absent
  <2> QED
    BY <2>1, <2>2
<1>4. \A t, u \in transitions : t.sequence = u.sequence => t = u
  BY DEF LedgerOK
<1> QED
  BY <1>2, <1>3, <1>4 DEF TransitionIntegrity, LedgerOK

(* Accepted commands and transitions correspond one to one and are numbered    *)
(* without a gap, however transactions interleave, roll back or are cut off    *)
(* (command-executor.js:63-113).                                               *)
THEOREM Integrity == Spec => []TransitionIntegrity
BY LedgerIsIntact, Invariance, PTL
-----------------------------------------------------------------------------
(* Only Commit writes the Kernel's tables. *)
LEMMA OnlyCommitWrites ==
  ASSUME [Next]_vars
  PROVE  UNCHANGED dbVars \/ \E r \in Requests : Commit(r)
BY NextActions DEF vars, dbVars, Grant, Crash, Submit, LockCommand, LockEnvironment, FindUnseen,
   Applying, Apply, ReadThroughPool, FinishRead, Responding, Replay, Conflict, RefuseFenced,
   ApplyThrows, Answered, Respond

(* A suspended Environment accepts only the commands of RESTORE_COMMANDS, the   *)
(* ones being decided while it is suspended included (command-executor.js:56-62).  *)
THEOREM Suspension == Spec => SuspensionHonoured
<1> DEFINE Honoured ==
       \A c \in Commands :
          (environment.operational = "restore_suspended" /\ Absent(c) /\ ~ Absent(c)')
             => RestoreOperation(commands'[c].digest)
<1>1. IInv /\ [Next]_vars => [Honoured]_vars
  <2> SUFFICES ASSUME IInv, [Next]_vars PROVE Honoured
      OBVIOUS
  <2>1. CASE UNCHANGED dbVars
    BY <2>1 DEF dbVars, Absent
  <2>2. ASSUME NEW r \in Requests, Commit(r) PROVE Honoured
    <3> SUFFICES ASSUME NEW c \in Commands, environment.operational = "restore_suspended",
                        Absent(c), ~ Absent(c)'
                 PROVE  RestoreOperation(commands'[c].digest)
        OBVIOUS
    <3>1. ~ Fenced(submitted[r].digest)
      BY <2>2 DEF IInv, FenceOK, Commit, Sequenced
    <3>2. commands' = [commands EXCEPT ![submitted[r].command] =
                          [digest |-> submitted[r].digest, sequence |-> sequence[r]]]
      BY <2>2 DEF Commit
    <3>3. c = submitted[r].command /\ commands'[c].digest = submitted[r].digest
      BY <3>2 DEF IInv, TypeOK, Absent
    <3> QED
      BY <3>1, <3>3 DEF Fenced
  <2> QED
    BY <2>1, <2>2, OnlyCommitWrites
<1> QED
  BY <1>1, Invariance, PTL DEF Spec, SuspensionHonoured

(* The empty tables are the empty ledger. *)
LEMMA LedgerInitially == Init => Ledger!LedgerInit
BY DEF Init, Ledger!LedgerInit, NoInput

(* An answer is a step of the ledger that tells its caller what is bound. *)
LEMMA AnswerIsTold ==
  ASSUME NEW r \in Requests, submitted[r] \in Input,
         NEW outcome \in {"result", "conflict", "rejected"}, NEW n \in Nat,
         Respond(r, outcome, n), Tells(r, outcome, n)
  PROVE  Ledger!LedgerNext
<1> DEFINE c == submitted[r].command
<1>1. c \in Commands
  BY DEF Input
<1>2. Ledger!Tell(r, outcome, n)
  BY DEF Respond, dbVars, Ledger!Tell
<1>3. CASE outcome = "result"
  <2>1. Ledger!TellResult(r, c)
    BY <1>2, <1>3 DEF Tells, Absent, Ledger!TellResult, Ledger!Bound
  <2> QED
    BY <1>1, <2>1 DEF Ledger!LedgerNext
<1>4. CASE outcome = "conflict"
  <2>1. Ledger!TellConflict(r, c)
    BY <1>2, <1>4 DEF Tells, Absent, Ledger!TellConflict, Ledger!Bound
  <2> QED
    BY <1>1, <2>1 DEF Ledger!LedgerNext
<1>5. CASE outcome = "rejected"
  <2>1. Ledger!TellRejected(r, c)
    BY <1>2, <1>5 DEF Tells, Absent, Ledger!TellRejected, Ledger!Bound
  <2> QED
    BY <1>1, <2>1 DEF Ledger!LedgerNext
<1> QED
  BY <1>3, <1>4, <1>5

(* A commit is the acceptance of one command id by the abstract ledger. *)
LEMMA CommitIsAccepted ==
  ASSUME IInv, NEW r \in Requests, Commit(r)
  PROVE  Ledger!LedgerNext
<1> DEFINE c == submitted[r].command
           d == submitted[r].digest
<1>1. c \in Commands /\ d \in Digests /\ Absent(c)
  BY DEF IInv, Commit, InputOK, Input, DecidesAlone, Sequenced
<1>2. sequence[r] = environment.next_sequence /\ environment.next_sequence \in Nat \ {0}
  BY DEF IInv, Commit, DecidesAlone, Sequenced, TypeOK
<1>3. Ledger!Accept(c, d)
  <2>1. environment'.next_sequence = environment.next_sequence + 1
    BY DEF Commit
  <2>2. commands' = [commands EXCEPT ![c] =
                        [digest |-> d, sequence |-> environment.next_sequence - 1 + 1]]
    <3>1. environment.next_sequence - 1 + 1 = sequence[r]
      BY <1>2
    <3>2. commands' = [commands EXCEPT ![c] = [digest |-> d, sequence |-> sequence[r]]]
      BY DEF Commit
    <3> QED
      BY <3>1, <3>2
  <2>3. ~ Ledger!Bound(c)
    BY <1>1 DEF Absent, Ledger!Bound
  <2>4. environment'.next_sequence - 1 = environment.next_sequence - 1 + 1
    BY <2>1, <1>2
  <2>5. UNCHANGED <<submitted, answer>>
    BY DEF Commit
  <2> QED
    BY <2>2, <2>3, <2>4, <2>5 DEF Ledger!Accept
<1> QED
  BY <1>1, <1>3 DEF Ledger!LedgerNext

(* A submission is a question to the abstract ledger. *)
LEMMA SubmitIsAsked ==
  ASSUME NEW r \in Requests, Submit(r)
  PROVE  Ledger!LedgerNext
<1>1. PICK i \in Input : submitted' = [submitted EXCEPT ![r] = i]
  BY DEF Submit
<1>2. /\ i = [command |-> i.command, digest |-> i.digest]
      /\ i.command \in Commands /\ i.digest \in Digests
  BY DEF Input
<1>3. Ledger!Ask(r, i.command, i.digest)
  BY <1>1, <1>2 DEF Submit, dbVars, Ledger!Ask
<1> QED
  BY <1>2, <1>3 DEF Ledger!LedgerNext

(* The executor implements the ledger: every step of it is one of the ledger's  *)
(* or leaves the ledger, the questions and the answers alone                    *)
(* (command-executor.js:25-41,84-114).                                          *)
THEOREM Refinement == Spec => ImplementsLedger
<1>1. IInv /\ [Next]_vars => [Ledger!LedgerNext]_(Ledger!ledgerVars)
  <2> SUFFICES ASSUME IInv, [Next]_vars
               PROVE  Ledger!LedgerNext \/ UNCHANGED Ledger!ledgerVars
      OBVIOUS
  <2> USE DEF Ledger!ledgerVars
  <2>1. CASE UNCHANGED vars
    BY <2>1 DEF vars
  <2>2. CASE Grant \/ Crash
    BY <2>2 DEF Grant, Crash, dbVars
  <2>3. ASSUME NEW r \in Requests,
               LockCommand(r) \/ LockEnvironment(r) \/ FindUnseen(r) \/ Applying(r)
        PROVE  UNCHANGED Ledger!ledgerVars
    BY <2>3 DEF LockCommand, LockEnvironment, FindUnseen, Applying, Apply, ReadThroughPool,
                FinishRead, dbVars
  <2>4. ASSUME NEW r \in Requests, Responding(r) PROVE Ledger!LedgerNext
    BY <2>4, RespondingTells, AnswerIsTold
  <2> QED
    BY <2>1, <2>2, <2>3, <2>4, NextActions, SubmitIsAsked, CommitIsAccepted
<1> QED
  BY <1>1, LedgerInitially, Invariance, PTL DEF Spec, ImplementsLedger, Ledger!LedgerSpec
-----------------------------------------------------------------------------
(* Who has a connection, and who queues for one.                             *)
PoolOK ==
    /\ \A r \in Requests : phase[r] \in Queueing => \E i \in 1 .. Len(waiting) : waiting[i] = r
    /\ \A r \in Requests :
          <<r, "transaction">> \in checkedOut <=> phase[r] \notin {"idle", "connecting"}
    /\ \A r \in Requests : <<r, "read">> \in checkedOut <=> phase[r] = "reading"
    /\ \A r \in Requests : phase[r] = "read_waiting" => submitted[r].digest \in Nested

(* What a handler waits for is there: a connection for the head of the queue,  *)
(* the advisory lock, the row; in every other phase it runs on.                 *)
CanGoOn ==
    \/ waiting # <<>> /\ Cardinality(checkedOut) < PoolSize
    \/ \E r \in Requests :
          \/ phase[r] = "connected" /\ CommandFree(submitted[r].command)
          \/ phase[r] = "unseen" /\ RowFree
          \/ phase[r] \in {"locked", "applying", "reading", "applied", "committed"}

(* The pool is used up by handlers that each hold one connection, the one of   *)
(* their transaction, and the handler that holds the Environment row queues for   *)
(* a second one, so it keeps the row until a connection is returned.               *)
PoolExhausted ==
    /\ ~ (Cardinality(checkedOut) < PoolSize)
    /\ \A x \in checkedOut : \E r \in Requests : x = <<r, "transaction">>
    /\ \E s \in Requests :
          phase[s] = "read_waiting" /\ s \in rowLock /\ submitted[s].digest \in Nested

(* While a handler is busy, one can go on, unless the pool is exhausted: neither  *)
(* the advisory locks nor the row nor their order lets handlers wait in a circle    *)
(* (pool.connect, the advisory lock and SELECT FOR UPDATE of                         *)
(* command-executor.js:18-63, the reads through the pool of ten, database.js:13).    *)
OnlyThePoolBlocks == (\E r \in Requests : phase[r] # "idle") => CanGoOn \/ PoolExhausted

LEMMA InitPoolOK == Init => PoolOK
BY DEF Init, PoolOK, Queueing

LEMMA AppendKeepsQueue ==
  ASSUME NEW q \in Seq(Requests), NEW r \in Requests
  PROVE  /\ \A i \in 1 .. Len(q) : i \in 1 .. Len(Append(q, r)) /\ Append(q, r)[i] = q[i]
         /\ Len(q) + 1 \in 1 .. Len(Append(q, r)) /\ Append(q, r)[Len(q) + 1] = r
OBVIOUS

LEMMA TailKeepsQueue ==
  ASSUME NEW q \in Seq(Requests), q # <<>>, NEW i \in 1 .. Len(q), q[i] # Head(q)
  PROVE  \E j \in 1 .. Len(Tail(q)) : Tail(q)[j] = q[i]
<1>1. i # 1 /\ Len(Tail(q)) = Len(q) - 1 /\ \A j \in 1 .. Len(Tail(q)) : Tail(q)[j] = q[j + 1]
  OBVIOUS
<1>2. i - 1 \in 1 .. Len(Tail(q)) /\ Tail(q)[i - 1] = q[i]
  BY <1>1
<1> QED
  BY <1>2

(* The two steps that queue.                                                  *)
LEMMA QueueingKeepsPool ==
  ASSUME IInv, PoolOK, NEW r \in Requests, Submit(r) \/ ReadThroughPool(r)
  PROVE  PoolOK'
<1>1. /\ waiting' = Append(waiting, r) /\ checkedOut' = checkedOut /\ waiting \in Seq(Requests)
      /\ \A s \in Requests : s # r => phase'[s] = phase[s] /\ submitted'[s] = submitted[s]
  BY DEF Submit, ReadThroughPool, Enqueue, IInv, TypeOK
<1>2. \A s \in Requests : phase'[s] \in Queueing =>
        \E i \in 1 .. Len(waiting') : waiting'[i] = s
  BY <1>1, AppendKeepsQueue DEF PoolOK
<1>3. \/ phase[r] = "idle" /\ phase'[r] = "connecting"
      \/ /\ phase[r] = "applying" /\ phase'[r] = "read_waiting"
         /\ submitted'[r].digest \in Nested
  BY DEF Submit, ReadThroughPool, IInv, TypeOK
<1> QED
  BY <1>1, <1>2, <1>3 DEF PoolOK

(* The pool serves the head of its queue.                                    *)
LEMMA GrantKeepsPool ==
  ASSUME IInv, PoolOK, Grant
  PROVE  PoolOK'
<1> DEFINE h == Head(waiting)
<1>1. /\ waiting \in Seq(Requests) /\ waiting # <<>> /\ waiting' = Tail(waiting)
      /\ h \in Requests /\ phase[h] \in Queueing /\ submitted' = submitted
  BY DEF Grant, IInv, TypeOK, QueueOK
<1>2. \/ /\ phase[h] = "connecting" /\ phase' = [phase EXCEPT ![h] = "connected"]
         /\ checkedOut' = checkedOut \union {<<h, "transaction">>}
      \/ /\ phase[h] = "read_waiting" /\ phase' = [phase EXCEPT ![h] = "reading"]
         /\ checkedOut' = checkedOut \union {<<h, "read">>}
  BY <1>1 DEF Grant, Queueing
<1>3. ASSUME NEW s \in Requests, phase'[s] \in Queueing
      PROVE  \E i \in 1 .. Len(waiting') : waiting'[i] = s
  <2>1. s # h /\ phase[s] \in Queueing
    BY <1>1, <1>2, <1>3 DEF IInv, TypeOK, Queueing
  <2>2. PICK i \in 1 .. Len(waiting) : waiting[i] = s
    BY <2>1 DEF PoolOK
  <2> QED
    BY <1>1, <2>1, <2>2, TailKeepsQueue
<1> HIDE DEF h
<1>4. phase \in [Requests -> Phase]
  BY DEF IInv, TypeOK
<1> DEFINE Held(s) ==
        /\ <<s, "transaction">> \in checkedOut' <=> phase'[s] \notin {"idle", "connecting"}
        /\ <<s, "read">> \in checkedOut' <=> phase'[s] = "reading"
        /\ phase'[s] = "read_waiting" => submitted'[s].digest \in Nested
<1>5. ASSUME NEW s \in Requests, s # h PROVE Held(s)
  <2>1. phase'[s] = phase[s]
    BY <1>1, <1>2, <1>4, <1>5
  <2>2. \A k \in {"transaction", "read"} : <<s, k>> \in checkedOut' <=> <<s, k>> \in checkedOut
    BY <1>2, <1>5
  <2> QED
    BY <1>1, <2>1, <2>2 DEF PoolOK
<1>6. Held(h)
  <2>1. CASE phase[h] = "connecting"
    BY <1>1, <1>2, <1>4, <2>1 DEF PoolOK
  <2>2. CASE phase[h] = "read_waiting"
    BY <1>1, <1>2, <1>4, <2>2 DEF PoolOK
  <2> QED
    BY <1>2, <2>1, <2>2
<1>7. \A s \in Requests : Held(s)
  BY <1>5, <1>6
<1> QED
  BY <1>3, <1>7 DEF PoolOK

(* Answering returns whatever connection the handler has.                    *)
LEMMA RespondKeepsPool ==
  ASSUME IInv, PoolOK, NEW r \in Requests, phase[r] \notin Queueing,
         NEW outcome, NEW n, Respond(r, outcome, n)
  PROVE  PoolOK'
<1>1. /\ phase' = [phase EXCEPT ![r] = "idle"] /\ waiting' = waiting /\ submitted' = submitted
      /\ checkedOut' = checkedOut \ ({r} \X {"transaction", "read"})
  BY DEF Respond, Close
<1>2. \A s \in Requests, k \in {"transaction", "read"} :
        <<s, k>> \in checkedOut' <=> s # r /\ <<s, k>> \in checkedOut
  BY <1>1
<1>3. \A s \in Requests : /\ phase'[s] = IF s = r THEN "idle" ELSE phase[s]
                          /\ phase'[s] \in Queueing => phase[s] \in Queueing
  BY <1>1 DEF IInv, TypeOK, Queueing
<1>4. \A s \in Requests :
        /\ <<s, "transaction">> \in checkedOut' <=> phase'[s] \notin {"idle", "connecting"}
        /\ <<s, "read">> \in checkedOut' <=> phase'[s] = "reading"
  BY <1>2, <1>3 DEF PoolOK
<1> QED
  BY <1>1, <1>3, <1>4 DEF PoolOK

LEMMA PoolStep == IInv /\ PoolOK /\ [Next]_vars => PoolOK'
<1> SUFFICES ASSUME IInv, PoolOK, [Next]_vars PROVE PoolOK'
  OBVIOUS
<1>1. ASSUME NEW r \in Requests, LockCommand(r) \/ FindUnseen(r) \/ LockEnvironment(r)
                                \/ Apply(r) \/ Commit(r)
      PROVE  PoolOK'
  <2>1. /\ waiting' = waiting /\ checkedOut' = checkedOut /\ submitted' = submitted
        /\ phase[r] \notin {"idle", "connecting", "read_waiting", "reading"}
        /\ \E p \in {"locked", "unseen", "applying", "applied", "committed"} :
              phase' = [phase EXCEPT ![r] = p]
    BY <1>1 DEF LockCommand, FindUnseen, LockEnvironment, Apply, Commit, poolVars
  <2> QED
    BY <2>1 DEF PoolOK, IInv, TypeOK, Queueing
<1>2. ASSUME NEW r \in Requests, FinishRead(r) PROVE PoolOK'
  BY <1>2 DEF FinishRead, PoolOK, IInv, TypeOK, Queueing
<1>3. ASSUME NEW r \in Requests, Responding(r) PROVE PoolOK'
  BY <1>3, RespondingTells, RespondKeepsPool
<1>4. ASSUME Crash PROVE PoolOK'
  BY <1>4 DEF Crash, PoolOK, Queueing
<1>5. ASSUME UNCHANGED vars PROVE PoolOK'
  BY <1>5 DEF vars, PoolOK
<1>6. CASE Next
  BY <1>1, <1>2, <1>3, <1>4, <1>6, NextActions, GrantKeepsPool, QueueingKeepsPool DEF Applying
<1> QED
  BY <1>5, <1>6

LEMMA ConnectionsHeld ==
  ASSUME IInv, NEW x \in checkedOut
  PROVE  \E r \in Requests : x = <<r, "transaction">> \/ x = <<r, "read">>
BY DEF IInv, TypeOK

(* Were everybody waiting, somebody would hold the row and want a second       *)
(* connection, and each connection in use would be the first of its handler.     *)
LEMMA SomebodyGoesOn ==
  ASSUME IInv, PoolOK
  PROVE  OnlyThePoolBlocks
<1> SUFFICES ASSUME NEW b \in Requests, phase[b] # "idle", ~ CanGoOn PROVE PoolExhausted
  BY DEF OnlyThePoolBlocks
<1>1. \A r \in Requests :
        phase[r] \in {"idle", "connecting", "read_waiting", "connected", "unseen"}
  BY DEF CanGoOn, IInv, TypeOK, Phase
<1>2. ASSUME NEW r \in Requests, phase[r] = "unseen"
      PROVE  \E s \in Requests : phase[s] = "read_waiting"
  <2>1. PICK s \in rowLock : s \in Requests
    BY <1>2 DEF CanGoOn, RowFree, IInv, TypeOK
  <2> QED
    BY <1>1, <2>1 DEF IInv, RowOK, Sequenced
<1>3. ASSUME NEW r \in Requests, phase[r] = "connected"
      PROVE  \E s \in Requests : phase[s] = "read_waiting"
  <2>1. submitted[r].command \in Commands /\ advisory[submitted[r].command] # {}
    BY <1>3 DEF CanGoOn, CommandFree, IInv, InputOK, Input
  <2>2. PICK s \in Requests : s \in advisory[submitted[r].command]
    BY <2>1 DEF IInv, TypeOK
  <2>3. phase[s] \in Holding
    BY <2>1, <2>2 DEF IInv, AdvisoryOK
  <2> QED
    BY <1>1, <1>2, <2>3 DEF Holding, Sequenced
<1>4. \E s \in Requests : phase[s] \in Queueing
  BY <1>1, <1>2, <1>3 DEF Queueing
<1>5. waiting # <<>>
  BY <1>4 DEF PoolOK, IInv, TypeOK
<1>6. ~ (Cardinality(checkedOut) < PoolSize)
  BY <1>5 DEF CanGoOn
<1>7. \A x \in checkedOut : \E r \in Requests : x = <<r, "transaction">>
  BY <1>1, ConnectionsHeld DEF PoolOK
<1>8. PICK s \in Requests : phase[s] = "read_waiting"
  <2>1. SUFFICES ASSUME \A r \in Requests : phase[r] # "read_waiting" PROVE FALSE
    OBVIOUS
  <2>2. \A r \in Requests : phase[r] \in {"idle", "connecting"}
    BY <1>1, <1>2, <1>3, <2>1
  <2>3. checkedOut = {}
    BY <1>7, <2>2 DEF PoolOK
  <2> QED
    BY <1>6, <2>3, FS_EmptySet, PoolAssumption
<1>9. s \in rowLock /\ submitted[s].digest \in Nested
  BY <1>8 DEF IInv, RowOK, Sequenced, PoolOK
<1> QED
  BY <1>6, <1>7, <1>8, <1>9 DEF PoolExhausted

(* Whatever the pool's size and the number of handlers: when handlers are busy    *)
(* and none can go on, the pool is what blocks them, and by the holder of the row    *)
(* reading through a second connection (database.js:13, command-executor.js:18-63). *)
THEOREM OnlyExhaustionBlocks == Spec => []OnlyThePoolBlocks
<1>1. IInv /\ PoolOK => OnlyThePoolBlocks
  BY SomebodyGoesOn
<1>2. Spec => []PoolOK
  BY InitPoolOK, PoolStep, Invariance, PTL DEF Spec
<1> QED
  BY <1>1, <1>2, Invariance, PTL
=============================================================================
