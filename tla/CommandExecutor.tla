-------------------------- MODULE CommandExecutor --------------------------
(***************************************************************************)
(* executeCommand of src/src/command-executor.js: every change of Kernel    *)
(* state is one PostgreSQL transaction behind it.  Requests are the HTTP    *)
(* handlers running in the Kernel process; they share a connection pool, an *)
(* advisory lock per command id and the row of kernel_environments.         *)
(* A digest stands for the whole canonical input of a command, so the       *)
(* operation it names is a function of the digest.                          *)
(***************************************************************************)
EXTENDS Naturals, Sequences, FiniteSets

CONSTANTS
    Requests,    \* concurrent request handlers of the Kernel process
    Commands,    \* command ids
    Digests,     \* request digests
    Operation,   \* the kind of operation each digest asks for
    Nested,      \* digests whose apply() reads through a second connection
    PoolSize,    \* connections in the pool: max of src/src/database.js
    None         \* no command, no digest

OperationKind == {"ordinary", "restore.begin", "restore.resume", "restore.other"}

ASSUME OperationAssumption == Operation \in [Digests -> OperationKind]
ASSUME NestedAssumption == Nested \subseteq Digests
ASSUME PoolAssumption == PoolSize \in Nat \ {0}
ASSUME NoneAssumption == None \notin Commands /\ None \notin Digests

VARIABLES
    phase,        \* where each handler is in executeCommand
    submitted,    \* the command id and digest it works on
    sequence,     \* the next_sequence it read under the row lock
    answer,       \* what its caller was last told
    waiting,      \* the pool's queue of callers without a connection
    checkedOut,   \* connections in use: <<handler, "transaction" or "read">>
    advisory,     \* holder of the advisory lock of each command id
    rowLock,      \* holder of the kernel_environments row, as a set
    environment,  \* the committed row of kernel_environments
    commands,     \* committed kernel_commands; sequence 0 while absent
    transitions   \* committed kernel_transitions, each with its outbox row

poolVars == <<waiting, checkedOut>>
lockVars == <<advisory, rowLock>>
dbVars == <<environment, commands, transitions>>
vars == <<phase, submitted, sequence, answer, waiting, checkedOut,
          advisory, rowLock, environment, commands, transitions>>

Phase == {"idle", "connecting", "connected", "locked", "unseen", "applying",
          "read_waiting", "reading", "applied", "committed"}

Input == [command : Commands, digest : Digests]
NoInput == [command |-> None, digest |-> None]
Entry == [digest : Digests \union {None}, sequence : Nat]
Answer == [outcome : {"none", "result", "conflict", "rejected"}, sequence : Nat]

TypeOK ==
    /\ phase \in [Requests -> Phase]
    /\ submitted \in [Requests -> Input \union {NoInput}]
    /\ sequence \in [Requests -> Nat]
    /\ answer \in [Requests -> Answer]
    /\ waiting \in Seq(Requests)
    /\ checkedOut \subseteq Requests \X {"transaction", "read"}
    /\ advisory \in [Commands -> SUBSET Requests]
    /\ rowLock \in SUBSET Requests
    /\ environment \in [operational : {"active", "restore_suspended", "destroyed"},
                        next_sequence : Nat \ {0}]
    /\ commands \in [Commands -> Entry]
    /\ transitions \subseteq [command : Commands, sequence : Nat]

Absent(c) == commands[c].sequence = 0

(* The operations RESTORE_COMMANDS lets through while restore is pending. *)
RestoreOperation(d) == Operation[d] \in {"restore.begin", "restore.resume", "restore.other"}

Fenced(d) ==
    \/ environment.operational = "destroyed"
    \/ environment.operational = "restore_suspended" /\ ~ RestoreOperation(d)

Init ==
    /\ phase = [r \in Requests |-> "idle"]
    /\ submitted = [r \in Requests |-> NoInput]
    /\ sequence = [r \in Requests |-> 0]
    /\ answer = [r \in Requests |-> [outcome |-> "none", sequence |-> 0]]
    /\ waiting = <<>>
    /\ checkedOut = {}
    /\ advisory = [c \in Commands |-> {}]
    /\ rowLock = {}
    /\ environment \in [operational : {"active", "restore_suspended"}, next_sequence : {1}]
    /\ commands = [c \in Commands |-> [digest |-> None, sequence |-> 0]]
    /\ transitions = {}
-----------------------------------------------------------------------------
(* pool.connect(): every caller queues, the pool serves the queue in order. *)
Enqueue(r) == waiting' = Append(waiting, r)

Submit(r) ==
    /\ phase[r] = "idle"
    /\ \E i \in Input : submitted' = [submitted EXCEPT ![r] = i]
    /\ answer' = [answer EXCEPT ![r] = [outcome |-> "none", sequence |-> 0]]
    /\ phase' = [phase EXCEPT ![r] = "connecting"]
    /\ Enqueue(r)
    /\ UNCHANGED <<sequence, checkedOut, lockVars, dbVars>>

Grant ==
    /\ waiting # <<>>
    /\ Cardinality(checkedOut) < PoolSize
    /\ LET r == Head(waiting) IN
          IF phase[r] = "connecting"
          THEN /\ phase' = [phase EXCEPT ![r] = "connected"]
               /\ checkedOut' = checkedOut \union {<<r, "transaction">>}
          ELSE /\ phase' = [phase EXCEPT ![r] = "reading"]
               /\ checkedOut' = checkedOut \union {<<r, "read">>}
    /\ waiting' = Tail(waiting)
    /\ UNCHANGED <<submitted, sequence, answer, lockVars, dbVars>>

(* COMMIT or ROLLBACK drops both locks; finally releases the connection. *)
ReleaseLocks(r) ==
    /\ advisory' = [c \in Commands |-> advisory[c] \ {r}]
    /\ rowLock' = rowLock \ {r}

CloseTransaction(r) == checkedOut' = checkedOut \ {<<r, "transaction">>}  \* mutation: a read leaks

Close(r) == checkedOut' = checkedOut \ ({r} \X {"transaction", "read"})

Respond(r, outcome, n) ==
    /\ answer' = [answer EXCEPT ![r] = [outcome |-> outcome, sequence |-> n]]
    /\ phase' = [phase EXCEPT ![r] = "idle"]
    /\ sequence' = [sequence EXCEPT ![r] = 0]
    /\ Close(r)
    /\ ReleaseLocks(r)
    /\ UNCHANGED <<submitted, waiting, dbVars>>

CommandFree(c) == advisory[c] = {}

LockCommand(r) ==
    /\ phase[r] = "connected"
    /\ CommandFree(submitted[r].command)
    /\ advisory' = [advisory EXCEPT ![submitted[r].command] = {r}]
    /\ phase' = [phase EXCEPT ![r] = "locked"]
    /\ UNCHANGED <<submitted, sequence, answer, poolVars, rowLock, dbVars>>

AnyInput(r) == TRUE  \* mutation: a replay that does not compare digests

SameInput(r) == commands[submitted[r].command].digest = submitted[r].digest

(* The lookup of an accepted command: replay, conflict, or carry on. *)
Replay(r) ==
    /\ phase[r] = "locked"
    /\ ~ Absent(submitted[r].command)
    /\ SameInput(r)
    /\ Respond(r, "result", commands[submitted[r].command].sequence)

Conflict(r) ==
    /\ phase[r] = "locked"
    /\ ~ Absent(submitted[r].command)
    /\ ~ SameInput(r)
    /\ Respond(r, "conflict", 0)

FindUnseen(r) ==
    /\ phase[r] = "locked"
    /\ Absent(submitted[r].command)
    /\ phase' = [phase EXCEPT ![r] = "unseen"]
    /\ UNCHANGED <<submitted, sequence, answer, poolVars, lockVars, dbVars>>

RowUnguarded == TRUE  \* mutation: SELECT without FOR UPDATE

RowFree == rowLock = {}

(* SELECT ... FOR UPDATE: waits for the row, then reads its newest version. *)
LockEnvironment(r) ==
    /\ phase[r] = "unseen"
    /\ RowFree
    /\ ~ Fenced(submitted[r].digest)
    /\ rowLock' = {r}
    /\ sequence' = [sequence EXCEPT ![r] = environment.next_sequence]
    /\ phase' = [phase EXCEPT ![r] = "applying"]
    /\ UNCHANGED <<submitted, answer, poolVars, advisory, dbVars>>

RefuseFenced(r) ==
    /\ phase[r] = "unseen"
    /\ RowFree
    /\ Fenced(submitted[r].digest)
    /\ Respond(r, "rejected", 0)
-----------------------------------------------------------------------------
(* apply(): reads and writes of the domain, inside the transaction. Some     *)
(* services read through pool.query, that is through a second connection.    *)
Apply(r) ==
    /\ phase[r] = "applying"
    /\ submitted[r].digest \notin Nested
    /\ phase' = [phase EXCEPT ![r] = "applied"]
    /\ UNCHANGED <<submitted, sequence, answer, poolVars, lockVars, dbVars>>

ReadThroughPool(r) ==
    /\ phase[r] = "applying"
    /\ submitted[r].digest \in Nested
    /\ phase' = [phase EXCEPT ![r] = "read_waiting"]
    /\ Enqueue(r)
    /\ UNCHANGED <<submitted, sequence, answer, checkedOut, lockVars, dbVars>>

FinishRead(r) ==
    /\ phase[r] = "reading"
    /\ phase' = [phase EXCEPT ![r] = "applied"]
    /\ checkedOut' = checkedOut \ {<<r, "read">>}
    /\ UNCHANGED <<submitted, sequence, answer, waiting, lockVars, dbVars>>

(* A rule of the domain refuses the command: ROLLBACK. *)
ApplyThrows(r) ==
    /\ phase[r] \in {"applying", "reading"}
    /\ Respond(r, "rejected", 0)

Operational(d) ==
    CASE Operation[d] = "restore.begin" -> "restore_suspended"
      [] Operation[d] = "restore.resume" -> "active"
      [] OTHER -> environment.operational

(* The four ledger statements and COMMIT: they become visible together. *)
Commit(r) ==
    /\ phase[r] = "applied"
    /\ environment' = [operational |-> Operational(submitted[r].digest),
                       next_sequence |-> environment.next_sequence + 1]
    /\ commands' = [commands EXCEPT ![submitted[r].command] =
                       [digest |-> submitted[r].digest, sequence |-> sequence[r]]]
    /\ transitions' = transitions \union
                       {[command |-> submitted[r].command, sequence |-> sequence[r]]}
    /\ ReleaseLocks(r)
    /\ phase' = [phase EXCEPT ![r] = "committed"]
    /\ UNCHANGED <<submitted, sequence, answer, poolVars>>

Answered(r) ==
    /\ phase[r] = "committed"
    /\ Respond(r, "result", sequence[r])

(* The Kernel process dies: PostgreSQL rolls every open transaction back, no *)
(* answer reaches a caller, and what was committed stays.                    *)
Crash ==
    /\ \E r \in Requests : phase[r] # "idle"
    /\ phase' = [r \in Requests |-> "idle"]
    /\ sequence' = [r \in Requests |-> 0]
    /\ waiting' = <<>>
    /\ checkedOut' = {}
    /\ advisory' = [c \in Commands |-> {}]
    /\ rowLock' = {}
    /\ UNCHANGED <<submitted, answer, dbVars>>

Work(r) ==
    \/ Replay(r) \/ Conflict(r) \/ FindUnseen(r) \/ RefuseFenced(r)
    \/ Apply(r) \/ ReadThroughPool(r) \/ FinishRead(r) \/ ApplyThrows(r)
    \/ Commit(r) \/ Answered(r)

Next ==
    \/ \E r \in Requests :
          Submit(r) \/ LockCommand(r) \/ LockEnvironment(r) \/ Work(r)
    \/ Grant
    \/ Crash

(* The event loop runs every handler that can continue, the pool serves its   *)
(* queue, and PostgreSQL grants each lock queue in order: a handler whose lock *)
(* keeps becoming free gets it. Nothing makes a caller submit.                 *)
Fairness ==
    /\ WF_vars(Grant)
    /\ \A r \in Requests :
          /\ WF_vars(Work(r))
          /\ SF_vars(LockCommand(r))
          /\ SF_vars(LockEnvironment(r))
          /\ SF_vars(RefuseFenced(r))

Spec == Init /\ [][Next]_vars
FairSpec == Spec /\ Fairness
-----------------------------------------------------------------------------
(* The check restore verification makes of a ledger (transition_integrity in *)
(* restore-service.js) never fails: accepted commands and transitions        *)
(* correspond one to one and the sequences are 1 .. next_sequence - 1, with   *)
(* no gap where a transaction rolled back and no number used twice.           *)
TransitionIntegrity ==
    /\ {t.sequence : t \in transitions} = 1 .. (environment.next_sequence - 1)
    /\ \A t, u \in transitions : t.sequence = u.sequence => t = u
    /\ transitions = {[command |-> c, sequence |-> commands[c].sequence] :
                         c \in {c \in Commands : ~ Absent(c)}}

(* While a transaction decides (command-executor.js:63-74) nobody else can    *)
(* accept its command id or move the sequence it has read.                    *)
Sequenced == {"applying", "read_waiting", "reading", "applied"}

DecidesAlone ==
    \A r \in Requests :
        /\ phase[r] \in Sequenced \union {"unseen"} => Absent(submitted[r].command)
        /\ phase[r] \in Sequenced => sequence[r] = environment.next_sequence

(* A suspended Environment accepts only the commands of RESTORE_COMMANDS      *)
(* (command-executor.js:5-14,56-62): the fence a transaction passed still     *)
(* stands open when it commits, however the suspension races with it.         *)
SuspensionHonoured ==
    [][\A c \in Commands :
          (environment.operational = "restore_suspended" /\ Absent(c) /\ ~ Absent(c)')
             => RestoreOperation(commands'[c].digest)]_vars

(* The executor implements the ledger its callers rely on: Commit is the one  *)
(* step that binds a command id, and every answer agrees with the ledger when *)
(* it is given (command-executor.js:25-41,84-114).                            *)
Ledger == INSTANCE CommandLedger WITH
    Callers <- Requests,
    asked <- submitted,
    entry <- commands,
    length <- environment.next_sequence - 1

ImplementsLedger == Ledger!LedgerSpec

(* A request that reached the pool is answered, or its Kernel dies, whenever   *)
(* the pool has a connection more than there are requests: no cycle of         *)
(* connections, advisory locks and the Environment row keeps it waiting        *)
(* (command-executor.js:18-24,43-50,115-120, database.js:13).                  *)
EveryRequestAnswered ==
    \A r \in Requests : phase[r] = "connecting" ~> phase[r] = "idle"
=============================================================================
