--------------------------- MODULE IngressJournal ---------------------------
(***************************************************************************)
(* Customer ingress: the server journals every delivery before anything     *)
(* else happens to it, and two kinds of workers take it from there, one to   *)
(* the customer's runtime and one to the Diagnostic Plane, with leases and   *)
(* retries of their own.  Requests are deliveries a customer sends until     *)
(* they are answered; a payload digest is a model value, and tokens are the   *)
(* identities they stand for.                                                 *)
(***************************************************************************)
EXTENDS Naturals, FiniteSets

CONSTANTS
    Requests,               \* requests of the customer
    Source, Delivery, Payload,  \* their source, delivery identity and content
    Forwarders, Reporters   \* worker processes of each mode

Sources == {Source[q] : q \in Requests}
Positions == 1 .. Cardinality({Delivery[q] : q \in Requests})
Workers == Forwarders \union Reporters
Kinds == {"forwarding", "reporting"}
Kind(w) == IF w \in Forwarders THEN "forwarding" ELSE "reporting"

ASSUME WorkerAssumption == Forwarders \intersect Reporters = {}

VARIABLES
    phase,      \* where acceptDelivery has got with each request
    number,     \* the journal sequence it has read
    answer,     \* what the customer was told
    next,       \* ingress_state.next_journal_sequence
    mapping,    \* ingress_source_mappings: first sequence of a source, or 0
    journal,    \* ingress_delivery_attempts: what never changes, by sequence
    payload,    \* sequences whose encrypted payload is retained
    task,       \* forwarding and reporting state of each sequence
    worker,     \* what each worker process is at
    delivered   \* history: what the runtime got

handlerVars == <<phase, number, answer>>
tableVars == <<next, mapping, journal>>
vars == <<handlerVars, tableVars, payload, task, worker, delivered>>

Task == {"pending", "processing", "retryable_failed", "succeeded"}
Row == [request : Requests, operation : Nat]
Worker == [stage : {"ready", "working", "answered", "failed", "down"},
           row : Nat, recorded : BOOLEAN]

TypeOK ==
    /\ phase \in [Requests -> {"idle", "unseen", "numbered", "answered"}]
    /\ number \in [Requests -> Nat]
    /\ answer \in [Requests -> {"none", "accepted", "conflict"}]
    /\ next \in Nat \ {0}
    /\ mapping \in [Sources -> Nat]
    /\ DOMAIN journal \subseteq Nat /\ \A n \in DOMAIN journal : journal[n] \in Row
    /\ payload \subseteq DOMAIN journal
    /\ task \in [Kinds -> [DOMAIN journal -> Task]]
    /\ worker \in [Workers -> Worker]
    /\ delivered \subseteq DOMAIN journal

Ready == [stage |-> "ready", row |-> 0, recorded |-> FALSE]
Down == [Ready EXCEPT !.stage = "down"]

Init ==
    /\ phase = [q \in Requests |-> "idle"]
    /\ number = [q \in Requests |-> 0]
    /\ answer = [q \in Requests |-> "none"]
    /\ next = 1
    /\ mapping = [s \in Sources |-> 0]
    /\ journal = [n \in {} |-> 0]
    /\ payload = {}
    /\ task = [k \in Kinds |-> [n \in {} |-> "pending"]]
    /\ worker = [w \in Workers |-> Ready]
    /\ delivered = {}
-----------------------------------------------------------------------------
(* The transaction holds the advisory lock of its source from the lookup on, *)
(* and the row of ingress_state from the reading of the sequence on.          *)
SourceFree(q) ==
    \A p \in Requests : Source[p] = Source[q] => phase[p] \notin {"unseen", "numbered"}

StateFree == \A p \in Requests : phase[p] # "numbered"

Journaled(q) == {n \in DOMAIN journal : Delivery[journal[n].request] = Delivery[q]}

(* mutation: who sent it is not compared *)
SameContent(q, n) == Payload[journal[n].request] = Payload[q]

SameMaterial(q, n) ==
    /\ Payload[journal[n].request] = Payload[q]
    /\ Source[journal[n].request] = Source[q]

Answer(q, a) ==
    /\ phase' = [phase EXCEPT ![q] = "answered"]
    /\ answer' = [answer EXCEPT ![q] = a]

Lookup(q) ==
    /\ phase[q] = "idle" /\ SourceFree(q)
    /\ Journaled(q) = {}
    /\ phase' = [phase EXCEPT ![q] = "unseen"]
    /\ UNCHANGED <<number, answer, tableVars, payload, task, worker, delivered>>

Replay(q) ==
    /\ phase[q] = "idle" /\ SourceFree(q)
    /\ \E n \in Journaled(q) : SameMaterial(q, n)
    /\ Answer(q, "accepted")
    /\ UNCHANGED <<number, tableVars, payload, task, worker, delivered>>

Conflict(q) ==
    /\ phase[q] = "idle" /\ SourceFree(q)
    /\ \E n \in Journaled(q) : ~ SameMaterial(q, n)
    /\ Answer(q, "conflict")
    /\ UNCHANGED <<number, tableVars, payload, task, worker, delivered>>

ReadNumber(q) ==
    /\ phase[q] = "unseen" /\ StateFree
    /\ phase' = [phase EXCEPT ![q] = "numbered"]
    /\ number' = [number EXCEPT ![q] = next]
    /\ UNCHANGED <<answer, tableVars, payload, task, worker, delivered>>

(* mutation: every delivery gets an operation of its own *)
FreshOperation(q) == number[q]

(* The logical operation of a source is named by the sequence that began it.  *)
Operation(q) == IF mapping[Source[q]] = 0 THEN number[q] ELSE mapping[Source[q]]

(* The unique columns of ingress_delivery_attempts. *)
Unique(q) == Journaled(q) = {} /\ number[q] \notin DOMAIN journal

(* Mapping, delivery with its pending work, and the sequence in one commit.   *)
(* Its answer may get lost, and the customer sends again.                      *)
Journal(q) ==
    /\ phase[q] = "numbered"
    /\ Unique(q)
    /\ LET n == number[q] IN
          /\ journal' = [m \in DOMAIN journal \union {n} |->
                IF m = n THEN [request |-> q, operation |-> Operation(q)] ELSE journal[m]]
          /\ task' = [k \in Kinds |-> [m \in DOMAIN journal \union {n} |->
                IF m = n THEN "pending" ELSE task[k][m]]]
          /\ payload' = payload \union {n}
    /\ mapping' = [mapping EXCEPT ![Source[q]] = Operation(q)]
    /\ next' = next + 1
    /\ number' = [number EXCEPT ![q] = 0]
    /\ Answer(q, "accepted") \/ (phase' = [phase EXCEPT ![q] = "idle"] /\ UNCHANGED answer)
    /\ UNCHANGED <<worker, delivered>>

RefuseDuplicate(q) ==
    /\ phase[q] = "numbered"
    /\ ~ Unique(q)
    /\ phase' = [phase EXCEPT ![q] = "idle"]
    /\ number' = [number EXCEPT ![q] = 0]
    /\ UNCHANGED <<answer, tableVars, payload, task, worker, delivered>>

(* The ingress server dies: open transactions roll back, and the customer      *)
(* sends again what was not answered.                                          *)
ServerCrash ==
    /\ \E q \in Requests : phase[q] \notin {"idle", "answered"}
    /\ phase' = [q \in Requests |-> IF phase[q] = "answered" THEN "answered" ELSE "idle"]
    /\ number' = [q \in Requests |-> 0]
    /\ UNCHANGED <<answer, tableVars, payload, task, worker, delivered>>
-----------------------------------------------------------------------------
Interrupted(t) == t = "processing"

(* A worker process dies, at any point of its loop. *)
Crash(w) ==
    /\ worker[w] # Down
    /\ worker' = [worker EXCEPT ![w] = Down]
    /\ UNCHANGED <<handlerVars, tableVars, payload, task, delivered>>

(* Somebody starts it again: it takes back every lease of its kind               *)
(* (recoverLeases).                                                              *)
Start(w) ==
    /\ worker[w] = Down
    /\ worker' = [worker EXCEPT ![w] = Ready]
    /\ task' = [task EXCEPT ![Kind(w)] = [n \in DOMAIN journal |->
          IF Interrupted(@[n]) THEN "retryable_failed" ELSE @[n]]]
    /\ UNCHANGED <<handlerVars, tableVars, payload, delivered>>

HeldByOthers(w) ==
    {worker[v].row : v \in {u \in Workers \ {w} : worker[u].stage # "ready"}}
        \union UNION {Journaled(q) : q \in {p \in Requests : phase[p] = "idle"}}

In(k, status) == {n \in DOMAIN journal : task[k][n] = status}

NoRetry(k) == {}  \* mutation: only what was never tried is claimed

Retryable(k) == In(k, "retryable_failed")

(* claim: the leases that have expired by now are taken back, then the first    *)
(* delivery is leased that is pending or whose retry is due by now. Rows that    *)
(* other transactions have locked are skipped: a claim or completion of another  *)
(* worker, of either kind, or the lookup of a delivery sent again.               *)
Claim(w) ==
    /\ worker[w] = Ready
    /\ \E expired \in SUBSET In(Kind(w), "processing"), waited \in SUBSET Retryable(Kind(w)),
         skipped \in SUBSET HeldByOthers(w) :
          LET due == (In(Kind(w), "pending") \ skipped) \union expired \union waited IN
          \E n \in due :
             /\ \A m \in due : n <= m
             /\ task' = [task EXCEPT ![Kind(w)] = [m \in DOMAIN journal |->
                   IF m = n THEN "processing"
                   ELSE IF m \in expired THEN "retryable_failed" ELSE @[m]]]
             /\ worker' = [worker EXCEPT ![w] =
                   [stage |-> "working", row |-> n, recorded |-> FALSE]]
    /\ UNCHANGED <<handlerVars, tableVars, payload, delivered>>

Moves(w, stage) == worker' = [worker EXCEPT ![w].stage = stage]

Sendable(w) == Kind(w) = "forwarding" => worker[w].row \in payload

Reaches(w) ==
    delivered' = IF Kind(w) = "forwarding" THEN delivered \union {worker[w].row} ELSE delivered

(* The POST arrives and is answered with success ...                          *)
Succeed(w) ==
    /\ worker[w].stage = "working" /\ Sendable(w)
    /\ Reaches(w)
    /\ Moves(w, "answered")
    /\ UNCHANGED <<handlerVars, tableVars, payload, task>>

(* ... or not, whether it arrives or not; without a payload it is not sent.    *)
CallFails(w) ==
    /\ worker[w].stage = "working"
    /\ (Sendable(w) /\ Reaches(w)) \/ UNCHANGED delivered
    /\ Moves(w, "failed")
    /\ UNCHANGED <<handlerVars, tableVars, payload, task>>

(* mutation: the payload goes with whichever work is finished first *)
LoseEarly(w) == payload \ {worker[w].row}

Retained(w) == IF Kind(w) = "forwarding" THEN payload \ {worker[w].row} ELSE payload

(* completeForward and completeReport. *)
Record(w) ==
    /\ worker[w].stage = "answered"
    /\ task' = [task EXCEPT ![Kind(w)][worker[w].row] = "succeeded"]
    /\ payload' = Retained(w)
    /\ UNCHANGED <<handlerVars, tableVars, delivered>>

Complete(w) == Record(w) /\ worker' = [worker EXCEPT ![w] = Ready]

(* The commit is done but its acknowledgement is lost ... *)
CompleteUnseen(w) ==
    Record(w) /\ worker' = [worker EXCEPT ![w].stage = "failed", ![w].recorded = TRUE]

(* ... or it was rolled back. *)
CompleteFails(w) ==
    /\ worker[w].stage = "answered"
    /\ Moves(w, "failed")
    /\ UNCHANGED <<handlerVars, tableVars, payload, task, delivered>>

NotRecorded(w) == ~ worker[w].recorded

(* fail: unless the attempt is already on record, which is a duplicate key     *)
(* that ends the process.                                                      *)
Fail(w) ==
    /\ worker[w].stage = "failed"
    /\ NotRecorded(w)
    /\ task' = [task EXCEPT ![Kind(w)][worker[w].row] = "retryable_failed"]
    /\ worker' = [worker EXCEPT ![w] = Ready]
    /\ UNCHANGED <<handlerVars, tableVars, payload, delivered>>

FailTwice(w) ==
    /\ worker[w].stage = "failed"
    /\ ~ NotRecorded(w)
    /\ Crash(w)
-----------------------------------------------------------------------------
Accept(q) ==
    Lookup(q) \/ Replay(q) \/ Conflict(q) \/ ReadNumber(q) \/ Journal(q)
    \/ RefuseDuplicate(q)

Run(w) ==
    \/ Claim(w) \/ Succeed(w) \/ CallFails(w)
    \/ Complete(w) \/ CompleteUnseen(w) \/ CompleteFails(w) \/ Fail(w) \/ FailTwice(w)

Next ==
    \/ \E q \in Requests : Accept(q)
    \/ ServerCrash
    \/ \E w \in Workers : Run(w) \/ Crash(w) \/ Start(w)

Spec == Init /\ [][Next]_vars

(* A forwarder that runs works on; a runtime and a database that answer again   *)
(* and again do so at some attempt. Nothing is assumed of reporters and the       *)
(* Diagnostic Plane, nor that a process that died is started again.               *)
Fairness ==
    \A w \in Forwarders :
        /\ WF_vars(Claim(w))
        /\ SF_vars(Succeed(w)) /\ SF_vars(Complete(w))
        /\ WF_vars(Fail(w) \/ FailTwice(w))

FairSpec == Spec /\ Fairness
-----------------------------------------------------------------------------
(* Replays, races and crashes make no second logical operation of a source and  *)
(* no second attempt of a delivery, and the mapping names the first sequence     *)
(* of its source; the sequences have no gap (ADR 0076, and issue 05 of the       *)
(* canonical diagnostic proof: "replay and restart do not create a second        *)
(* logical operation").                                                          *)
OneOperation ==
    /\ DOMAIN journal = 1 .. (next - 1)
    /\ \A m, n \in DOMAIN journal :
          LET p == journal[m].request  q == journal[n].request IN
          /\ Source[p] = Source[q] => journal[m].operation = journal[n].operation
          /\ Delivery[p] = Delivery[q] => m = n
          /\ journal[n].operation = mapping[Source[q]] /\ mapping[Source[q]] <= n

(* A customer told "accepted" finds its delivery in the journal with the same    *)
(* source and content, and one told "conflict" finds another's, although the     *)
(* lookup and the insert see different states of the journal: no delivery is     *)
(* dropped silently (customer-ingress-journal-service.js:41-54,112-132).         *)
AnswerIsJournaled ==
    \A q \in Requests :
        /\ answer[q] = "accepted" =>
              \E n \in DOMAIN journal : /\ Delivery[journal[n].request] = Delivery[q]
                                        /\ Source[journal[n].request] = Source[q]
                                        /\ Payload[journal[n].request] = Payload[q]
        /\ answer[q] = "conflict" =>
              \E n \in DOMAIN journal : /\ Delivery[journal[n].request] = Delivery[q]
                                        /\ journal[n].request # q

(* The payload is there until the runtime has it, and exactly as long, while one  *)
(* process forwards: what is marked forwarded really arrived, however *)
(* often a worker loses its lease, its process or the acknowledgement of a commit *)
(* (completeForward clears the ciphertext it may still need).                     *)
PayloadUntilForwarded ==
    /\ payload = {n \in DOMAIN journal : task["forwarding"][n] # "succeeded"}
    /\ DOMAIN journal \ payload \subseteq delivered

(* Finished work is never taken up again while one process at a time does it,     *)
(* which for forwarding would find no payload any more. With several, a worker    *)
(* that lost its lease can record its failure after the success of another        *)
(* (customer-ingress-journal-service.js:214).                                     *)
FinishedStays ==
    [][\A k \in Kinds, n \in DOMAIN journal :
          (\A v, w \in Workers : Kind(v) = k /\ Kind(w) = k => v = w)
             /\ task[k][n] = "succeeded"
             => task'[k][n] = "succeeded"]_vars

(* "Diagnostic outages ... do not block customer operations" (ADR 0076): every     *)
(* journaled delivery is forwarded, whatever becomes of reporters and server, or   *)
(* the forwarders are found dead.                                                  *)
ForwardingGoesOn ==
    \A n \in Positions :
        n \in DOMAIN journal ~>
            \/ n \in DOMAIN journal /\ task["forwarding"][n] = "succeeded"
            \/ \A w \in Forwarders : worker[w] = Down

(* IngressPromise: whatever requests, workers and crashes do at the same time, a    *)
(* delivery enters the log at one instant, every answer is true then, and no        *)
(* payload goes before the runtime has it, with any number of forwarders.            *)
Log ==
    {[position |-> n, request |-> journal[n].request, operation |-> journal[n].operation] :
        n \in DOMAIN journal}

Promise == INSTANCE IngressPromise WITH
    log <- Log, length <- next - 1, told <- answer, kept <- payload, received <- delivered

ImplementsPromise == Promise!PromiseSpec
=============================================================================
