---------------------------- MODULE IngressProofs ----------------------------
(***************************************************************************)
(* The ingress journal for any number of requests, sources, deliveries and     *)
(* workers.                                                                     *)
(***************************************************************************)
EXTENDS IngressJournal, TLAPS

(* One transaction at a time is between reading the sequence and its commit.   *)
NumberRead ==
    /\ \A p, q \in Requests : phase[p] = "numbered" /\ phase[q] = "numbered" => p = q
    /\ \A q \in Requests : phase[q] = "numbered" => number[q] = next

(* A mapping names a sequence given out, and every journaled source has one.   *)
Mapped ==
    /\ \A s \in Sources : mapping[s] < next
    /\ \A n \in DOMAIN journal : mapping[Source[journal[n].request]] # 0

Alone(w) == \A v \in Workers : Kind(v) = Kind(w) => v = w

(* What a worker that is alone has in its hands is its own lease, until the      *)
(* success is on record.                                                           *)
LeaseOf(w) ==
    LET r == worker[w].row IN
    /\ worker[w].stage \in {"working", "answered", "failed"} => r \in DOMAIN journal
    /\ worker[w].recorded => worker[w].stage = "failed"
    /\ worker[w].stage = "answered" /\ Kind(w) = "forwarding" => r \in delivered
    /\ Alone(w) /\ worker[w].stage \in {"working", "answered", "failed"} =>
          IF worker[w].recorded THEN task[Kind(w)][r] = "succeeded"
                                ELSE task[Kind(w)][r] = "processing"

LeaseHeld == \A w \in Workers : LeaseOf(w)

IInv == TypeOK /\ NumberRead /\ Mapped /\ OneOperation /\ AnswerIsJournaled /\ LeaseHeld

OneForwarder == \A v, w \in Forwarders : v = w

RequestStep ==
    \/ \E q \in Requests : \/ Lookup(q) \/ Replay(q) \/ Conflict(q) \/ ReadNumber(q)
                           \/ RefuseDuplicate(q)
    \/ ServerCrash

WorkerStep == \E w \in Workers : Run(w) \/ Crash(w) \/ Start(w)
-----------------------------------------------------------------------------
LEMMA KindFacts ==
    /\ Kinds = {"forwarding", "reporting"}
    /\ \A w \in Workers : Kind(w) \in Kinds
    /\ \A w \in Workers : Kind(w) = "forwarding" <=> w \in Forwarders
  BY DEF Kinds, Kind, Workers

LEMMA WorkerFacts ==
    /\ Ready \in Worker /\ Down \in Worker
    /\ Ready.stage = "ready" /\ Down.stage = "down" /\ ~Ready.recorded /\ ~Down.recorded
  BY DEF Ready, Down, Worker

LEMMA SourceFacts == \A q \in Requests : Source[q] \in Sources
  BY DEF Sources

LEMMA InitIInv == Init => IInv
<1> SUFFICES ASSUME Init PROVE IInv
  OBVIOUS
<1>1. DOMAIN journal = {} /\ next = 1
  BY DEF Init
<1>2. TypeOK
  BY <1>1, WorkerFacts DEF Init, TypeOK
<1>3. NumberRead /\ Mapped
  BY <1>1 DEF Init, NumberRead, Mapped
<1>4. OneOperation /\ AnswerIsJournaled
  BY <1>1 DEF Init, OneOperation, AnswerIsJournaled
<1>5. LeaseHeld
  BY WorkerFacts DEF Init, LeaseHeld, LeaseOf
<1> QED BY <1>2, <1>3, <1>4, <1>5 DEF IInv

(* The commit of a delivery, by its effect on the tables.                      *)
Journals(q) ==
    /\ next \in Nat \ {0} /\ next' = next + 1
    /\ DOMAIN journal' = DOMAIN journal \union {next} /\ next \notin DOMAIN journal
    /\ \A n \in DOMAIN journal : journal'[n] = journal[n]
    /\ journal'[next] = [request |-> q, operation |-> mapping'[Source[q]]]
    /\ mapping'[Source[q]] =
          IF mapping[Source[q]] = 0 THEN next ELSE mapping[Source[q]]
    /\ \A s \in Sources : s # Source[q] => mapping'[s] = mapping[s]
    /\ \A n \in DOMAIN journal : Delivery[journal[n].request] # Delivery[q]
    /\ payload' = payload \union {next}
    /\ task' = [k \in Kinds |-> [n \in DOMAIN journal \union {next} |->
                   IF n = next THEN "pending" ELSE task[k][n]]]
    /\ UNCHANGED <<worker, delivered>>

LEMMA JournalFacts ==
    ASSUME IInv, NEW q \in Requests, Journal(q)
    PROVE  Journals(q)
<1>1. number[q] = next /\ next \in Nat \ {0}
  BY DEF Journal, IInv, NumberRead, TypeOK
<1>2. next \notin DOMAIN journal
  BY <1>1 DEF Journal, Unique
<1>3. \A n \in DOMAIN journal : Delivery[journal[n].request] # Delivery[q]
  BY DEF Journal, Unique, Journaled
<1>4. Operation(q) = IF mapping[Source[q]] = 0 THEN next ELSE mapping[Source[q]]
  BY <1>1 DEF Operation
<1>5. mapping' = [mapping EXCEPT ![Source[q]] = Operation(q)] /\ Source[q] \in Sources
      /\ mapping \in [Sources -> Nat]
  BY SourceFacts DEF Journal, IInv, TypeOK
<1>6. journal' = [m \in DOMAIN journal \union {next} |->
          IF m = next THEN [request |-> q, operation |-> Operation(q)] ELSE journal[m]]
  BY <1>1 DEF Journal
<1> QED BY <1>1, <1>2, <1>3, <1>4, <1>5, <1>6 DEF Journal, Journals
-----------------------------------------------------------------------------
LEMMA TypeStep == IInv /\ [Next]_vars => TypeOK'
<1> SUFFICES ASSUME IInv, [Next]_vars PROVE TypeOK'
  OBVIOUS
<1> USE DEF handlerVars, tableVars
<1>0. TypeOK
  BY DEF IInv
<1>1. ASSUME NEW q \in Requests, Lookup(q) \/ ReadNumber(q) \/ RefuseDuplicate(q)
      PROVE TypeOK'
  BY <1>0, <1>1 DEF Lookup, ReadNumber, RefuseDuplicate, TypeOK
<1>2. ASSUME NEW q \in Requests, Replay(q) \/ Conflict(q) PROVE TypeOK'
  BY <1>0, <1>2 DEF Replay, Conflict, Answer, TypeOK
<1>3. CASE ServerCrash
  BY <1>0, <1>3 DEF ServerCrash, TypeOK
<1>4. ASSUME NEW q \in Requests, Journal(q) PROVE TypeOK'
  <2>0. Journals(q)
    BY <1>4, JournalFacts
  <2>1. phase' \in [Requests -> {"idle", "unseen", "numbered", "answered"}]
        /\ number' \in [Requests -> Nat]
        /\ answer' \in [Requests -> {"none", "accepted", "conflict"}]
    BY <1>0, <1>4 DEF Journal, Answer, TypeOK
  <2>2. mapping' \in [Sources -> Nat]
    <3>1. Operation(q) \in Nat
      BY <1>0, SourceFacts DEF Operation, TypeOK
    <3> QED BY <1>0, <1>4, <3>1 DEF Journal, TypeOK
  <2>3. journal'[next] \in Row
    BY <2>0, <2>2, SourceFacts DEF Journals, Row
  <2>4. DOMAIN journal' \subseteq Nat /\ \A n \in DOMAIN journal' : journal'[n] \in Row
    BY <1>0, <2>0, <2>3 DEF Journals, TypeOK
  <2>5. task' \in [Kinds -> [DOMAIN journal' -> Task]]
    BY <1>0, <2>0 DEF Journals, TypeOK, Task
  <2>6. payload' \subseteq DOMAIN journal' /\ delivered' \subseteq DOMAIN journal'
        /\ worker' \in [Workers -> Worker] /\ next' \in Nat \ {0}
    BY <1>0, <2>0 DEF Journals, TypeOK
  <2> QED BY <2>1, <2>2, <2>4, <2>5, <2>6 DEF TypeOK
<1>5. ASSUME NEW w \in Workers, Run(w) \/ Crash(w) \/ Start(w) PROVE TypeOK'
  <2> USE <1>0, KindFacts, WorkerFacts
  <2>1. CASE Claim(w)
    <3>1. PICK expired \in SUBSET In(Kind(w), "processing"), n \in DOMAIN journal :
             /\ task' = [task EXCEPT ![Kind(w)] = [m \in DOMAIN journal |->
                   IF m = n THEN "processing"
                   ELSE IF m \in expired THEN "retryable_failed" ELSE @[m]]]
             /\ worker' = [worker EXCEPT ![w] =
                   [stage |-> "working", row |-> n, recorded |-> FALSE]]
      BY <2>1 DEF Claim, In, Retryable
    <3>2. task' \in [Kinds -> [DOMAIN journal -> Task]]
      BY <3>1 DEF TypeOK, Task
    <3>3. worker' \in [Workers -> Worker]
      BY <3>1 DEF TypeOK, Worker
    <3> QED BY <2>1, <3>2, <3>3 DEF Claim, TypeOK
  <2>2. CASE Succeed(w) \/ CallFails(w) \/ CompleteFails(w)
    <3>1. worker' \in [Workers -> Worker]
      BY <2>2 DEF Succeed, CallFails, CompleteFails, Moves, TypeOK, Worker
    <3>2. worker[w].row \in DOMAIN journal
      BY <2>2 DEF Succeed, CallFails, CompleteFails, IInv, LeaseHeld, LeaseOf
    <3>3. delivered' \subseteq DOMAIN journal
      BY <2>2, <3>2 DEF Succeed, CallFails, CompleteFails, Reaches, TypeOK
    <3> QED BY <2>2, <3>1, <3>3 DEF Succeed, CallFails, CompleteFails, TypeOK
  <2>3. CASE Complete(w) \/ CompleteUnseen(w)
    <3>1. worker' \in [Workers -> Worker]
      BY <2>3 DEF Complete, CompleteUnseen, TypeOK, Worker
    <3>2. task' \in [Kinds -> [DOMAIN journal -> Task]]
      BY <2>3 DEF Complete, CompleteUnseen, Record, TypeOK, Task
    <3>3. payload' \subseteq payload
      BY <2>3 DEF Complete, CompleteUnseen, Record, Retained
    <3> QED BY <2>3, <3>1, <3>2, <3>3 DEF Complete, CompleteUnseen, Record, TypeOK
  <2>4. CASE Fail(w)
    BY <2>4 DEF Fail, TypeOK, Task
  <2>5. CASE FailTwice(w) \/ Crash(w)
    BY <2>5 DEF FailTwice, Crash, TypeOK
  <2>6. CASE Start(w)
    <3>1. task' \in [Kinds -> [DOMAIN journal -> Task]]
      BY <2>6 DEF Start, TypeOK, Task
    <3> QED BY <2>6, <3>1 DEF Start, TypeOK
  <2> QED BY <1>5, <2>1, <2>2, <2>3, <2>4, <2>5, <2>6 DEF Run
<1>6. CASE UNCHANGED vars
  BY <1>0, <1>6 DEF vars, TypeOK
<1>7. CASE Next
  BY <1>1, <1>2, <1>3, <1>4, <1>5, <1>7 DEF Next, Accept
<1> QED BY <1>6, <1>7
-----------------------------------------------------------------------------
LEMMA StepFrame ==
    [Next]_vars =>
        \/ RequestStep /\ UNCHANGED <<tableVars, payload, task, worker, delivered>>
        \/ \E q \in Requests : Journal(q)
        \/ WorkerStep /\ UNCHANGED <<handlerVars, tableVars>>
        \/ UNCHANGED vars
<1> USE DEF handlerVars, tableVars
<1>1. ASSUME NEW q \in Requests, \/ Lookup(q) \/ Replay(q) \/ Conflict(q) \/ ReadNumber(q)
                                 \/ RefuseDuplicate(q)
      PROVE  UNCHANGED <<tableVars, payload, task, worker, delivered>>
  BY <1>1 DEF Lookup, Replay, Conflict, ReadNumber, RefuseDuplicate
<1>2. ServerCrash => UNCHANGED <<tableVars, payload, task, worker, delivered>>
  BY DEF ServerCrash
<1>3. ASSUME NEW w \in Workers, Run(w) \/ Crash(w) \/ Start(w)
      PROVE  UNCHANGED <<handlerVars, tableVars>>
  BY <1>3 DEF Run, Crash, Start, Claim, Succeed, CallFails, Complete, CompleteUnseen, Record,
              CompleteFails, Fail, FailTwice
<1> HIDE DEF handlerVars, tableVars
<1>4. CASE Next
  BY <1>1, <1>2, <1>3, <1>4 DEF Next, Accept, RequestStep, WorkerStep
<1> QED BY <1>4

LEMMA NumberStep == IInv /\ [Next]_vars => NumberRead'
<1> SUFFICES ASSUME IInv, [Next]_vars PROVE NumberRead'
  OBVIOUS
<1> USE DEF handlerVars, tableVars
<1>0. TypeOK /\ NumberRead
  BY DEF IInv
<1>1. ASSUME NEW q \in Requests, Lookup(q) \/ Replay(q) \/ Conflict(q) \/ RefuseDuplicate(q)
      PROVE  NumberRead'
  BY <1>0, <1>1 DEF Lookup, Replay, Conflict, RefuseDuplicate, Answer, NumberRead, TypeOK
<1>2. ASSUME NEW q \in Requests, ReadNumber(q) PROVE NumberRead'
  BY <1>0, <1>2 DEF ReadNumber, StateFree, NumberRead, TypeOK
<1>3. CASE ServerCrash
  BY <1>0, <1>3 DEF ServerCrash, NumberRead, TypeOK
<1>4. ASSUME NEW q \in Requests, Journal(q) PROVE NumberRead'
  <2>1. \A p \in Requests : phase[p] = "numbered" => p = q
    BY <1>0, <1>4 DEF Journal, NumberRead
  <2>2. \A p \in Requests : phase'[p] # "numbered"
    BY <1>0, <1>4, <2>1 DEF Journal, Answer, TypeOK
  <2> QED BY <2>2 DEF NumberRead
<1>5. CASE UNCHANGED <<handlerVars, tableVars>>
  BY <1>0, <1>5 DEF NumberRead
<1> QED BY <1>1, <1>2, <1>3, <1>4, <1>5, StepFrame DEF RequestStep, vars

LEMMA OperationStep == IInv /\ [Next]_vars => Mapped' /\ OneOperation'
<1> SUFFICES ASSUME IInv, [Next]_vars PROVE Mapped' /\ OneOperation'
  OBVIOUS
<1>1. CASE UNCHANGED tableVars
  BY <1>1 DEF tableVars, Mapped, OneOperation, IInv
<1>2. ASSUME NEW q \in Requests, Journal(q) PROVE Mapped' /\ OneOperation'
  <2>1. Journals(q)
    BY <1>2, JournalFacts
  <2>2. /\ TypeOK /\ Mapped /\ OneOperation
        /\ \A n \in DOMAIN journal : journal[n].request \in Requests
    BY DEF IInv, TypeOK, Row
  <2> DEFINE S(n) == Source[journal[n].request]
             T == Source[q]
  <2>3. T \in Sources /\ \A n \in DOMAIN journal : S(n) \in Sources
    BY <2>2, SourceFacts
  <2>4. /\ mapping'[T] # 0 /\ mapping'[T] \in Nat /\ mapping'[T] <= next
        /\ mapping[T] # 0 => mapping'[T] = mapping[T]
    BY <2>1, <2>2, <2>3 DEF Journals, Mapped, TypeOK
  <2>5. \A s \in Sources : mapping'[s] < next'
    BY <2>1, <2>2, <2>4 DEF Journals, Mapped, TypeOK
  <2>6. ASSUME NEW n \in DOMAIN journal
        PROVE  /\ journal'[n] = journal[n] /\ mapping'[S(n)] = mapping[S(n)]
               /\ mapping[S(n)] # 0 /\ journal[n].operation = mapping[S(n)]
               /\ mapping[S(n)] <= n
    <3>1. mapping[S(n)] # 0 /\ journal[n].operation = mapping[S(n)] /\ mapping[S(n)] <= n
      BY <2>2 DEF Mapped, OneOperation
    <3>2. mapping'[S(n)] = mapping[S(n)]
      BY <2>1, <2>3, <2>4, <3>1 DEF Journals
    <3> QED BY <2>1, <3>1, <3>2 DEF Journals
  <2>7. /\ journal'[next].request = q /\ journal'[next].operation = mapping'[T]
    BY <2>1 DEF Journals
  <2>8. ASSUME NEW n \in DOMAIN journal'
        PROVE  n = next \/ n \in DOMAIN journal
    BY <2>1 DEF Journals
  <2>9. ASSUME NEW n \in DOMAIN journal'
        PROVE  LET p == journal'[n].request IN
               /\ mapping'[Source[p]] # 0
               /\ journal'[n].operation = mapping'[Source[p]] /\ mapping'[Source[p]] <= n
    <3>1. CASE n = next
      BY <2>4, <2>7, <3>1
    <3>2. CASE n \in DOMAIN journal
      BY <2>6, <3>2
    <3> QED BY <2>8, <3>1, <3>2
  <2>10. ASSUME NEW m \in DOMAIN journal', NEW n \in DOMAIN journal',
                Delivery[journal'[m].request] = Delivery[journal'[n].request]
         PROVE  m = n
    <3>1. CASE m \in DOMAIN journal /\ n \in DOMAIN journal
      BY <2>2, <2>6, <2>10, <3>1 DEF OneOperation
    <3>2. CASE m = next /\ n \in DOMAIN journal
      BY <2>1, <2>6, <2>7, <2>10, <3>2 DEF Journals
    <3>3. CASE m \in DOMAIN journal /\ n = next
      BY <2>1, <2>6, <2>7, <2>10, <3>3 DEF Journals
    <3> QED BY <2>8, <3>1, <3>2, <3>3
  <2>11. DOMAIN journal' = 1 .. (next' - 1)
    BY <2>1, <2>2 DEF Journals, OneOperation
  <2>12. Mapped'
    BY <2>5, <2>9 DEF Mapped
  <2>13. OneOperation'
    BY <2>9, <2>10, <2>11 DEF OneOperation
  <2> QED BY <2>12, <2>13
<1> QED BY <1>1, <1>2, StepFrame DEF vars

LEMMA AnswerStep == IInv /\ [Next]_vars => AnswerIsJournaled'
<1> SUFFICES ASSUME IInv, [Next]_vars PROVE AnswerIsJournaled'
  OBVIOUS
<1> USE DEF handlerVars, tableVars
<1>0. TypeOK /\ AnswerIsJournaled
  BY DEF IInv
<1>1. ASSUME NEW q \in Requests, Lookup(q) \/ ReadNumber(q) \/ RefuseDuplicate(q)
      PROVE  AnswerIsJournaled'
  BY <1>0, <1>1 DEF Lookup, ReadNumber, RefuseDuplicate, AnswerIsJournaled
<1>2. ASSUME NEW q \in Requests, Replay(q) PROVE AnswerIsJournaled'
  <2>1. answer'[q] = "accepted" /\ \A p \in Requests : p # q => answer'[p] = answer[p]
    BY <1>0, <1>2 DEF Replay, Answer, TypeOK
  <2>2. \E n \in DOMAIN journal : /\ Delivery[journal[n].request] = Delivery[q]
                                  /\ Source[journal[n].request] = Source[q]
                                  /\ Payload[journal[n].request] = Payload[q]
    BY <1>2 DEF Replay, Journaled, SameMaterial
  <2>3. journal' = journal
    BY <1>2 DEF Replay
  <2> QED BY <1>0, <2>1, <2>2, <2>3 DEF AnswerIsJournaled
<1>3. ASSUME NEW q \in Requests, Conflict(q) PROVE AnswerIsJournaled'
  <2>1. answer'[q] = "conflict" /\ \A p \in Requests : p # q => answer'[p] = answer[p]
    BY <1>0, <1>3 DEF Conflict, Answer, TypeOK
  <2>2. \E n \in DOMAIN journal : /\ Delivery[journal[n].request] = Delivery[q]
                                  /\ journal[n].request # q
    BY <1>3 DEF Conflict, Journaled, SameMaterial
  <2>3. journal' = journal
    BY <1>3 DEF Conflict
  <2> QED BY <1>0, <2>1, <2>2, <2>3 DEF AnswerIsJournaled
<1>4. ASSUME NEW q \in Requests, Journal(q) PROVE AnswerIsJournaled'
  <2>1. Journals(q)
    BY <1>4, JournalFacts
  <2>2. /\ \A p \in Requests : p # q => answer'[p] = answer[p]
        /\ answer'[q] = "accepted" \/ answer'[q] = answer[q]
    BY <1>0, <1>4 DEF Journal, Answer, TypeOK
  <2>3. ASSUME NEW n \in DOMAIN journal
        PROVE  n \in DOMAIN journal' /\ journal'[n] = journal[n]
    BY <2>1 DEF Journals
  <2>4. next \in DOMAIN journal' /\ journal'[next].request = q
    BY <2>1 DEF Journals
  <2>5. ASSUME NEW p \in Requests, answer'[p] = "accepted"
        PROVE  \E n \in DOMAIN journal' : /\ Delivery[journal'[n].request] = Delivery[p]
                                          /\ Source[journal'[n].request] = Source[p]
                                          /\ Payload[journal'[n].request] = Payload[p]
    <3>1. CASE p = q
      BY <2>4, <3>1
    <3>2. CASE p # q
      BY <1>0, <2>2, <2>3, <2>5, <3>2 DEF AnswerIsJournaled
    <3> QED BY <3>1, <3>2
  <2>6. ASSUME NEW p \in Requests, answer'[p] = "conflict"
        PROVE  \E n \in DOMAIN journal' : /\ Delivery[journal'[n].request] = Delivery[p]
                                          /\ journal'[n].request # p
    <3>1. answer[p] = "conflict"
      BY <2>2, <2>6
    <3> QED BY <1>0, <2>3, <3>1 DEF AnswerIsJournaled
  <2> QED BY <2>5, <2>6 DEF AnswerIsJournaled
<1>5. CASE ServerCrash
  BY <1>0, <1>5 DEF ServerCrash, AnswerIsJournaled
<1>6. CASE UNCHANGED <<handlerVars, tableVars>>
  BY <1>0, <1>6 DEF AnswerIsJournaled
<1> QED BY <1>1, <1>2, <1>3, <1>4, <1>5, <1>6, StepFrame DEF RequestStep, vars
-----------------------------------------------------------------------------
LEMMA OthersUntouched ==
    ASSUME IInv, NEW w \in Workers, Run(w) \/ Crash(w) \/ Start(w)
    PROVE  /\ journal' = journal /\ delivered \subseteq delivered'
           /\ \A v \in Workers : v # w => worker'[v] = worker[v]
           /\ \A k \in Kinds : k # Kind(w) => task'[k] = task[k]
<1> USE DEF tableVars, handlerVars
<1>0. TypeOK
  BY DEF IInv
<1>1. CASE Claim(w)
  <2>1. \A v \in Workers : v # w => worker'[v] = worker[v]
    BY <1>0, <1>1 DEF Claim, TypeOK
  <2>2. \A k \in Kinds : k # Kind(w) => task'[k] = task[k]
    BY <1>0, <1>1 DEF Claim, TypeOK
  <2> QED BY <1>1, <2>1, <2>2 DEF Claim
<1>2. CASE Succeed(w) \/ CallFails(w) \/ CompleteFails(w)
  BY <1>0, <1>2 DEF Succeed, CallFails, CompleteFails, Moves, Reaches, TypeOK
<1>3. CASE Complete(w) \/ CompleteUnseen(w)
  <2>1. \A v \in Workers : v # w => worker'[v] = worker[v]
    BY <1>0, <1>3 DEF Complete, CompleteUnseen, TypeOK
  <2>2. Record(w)
    BY <1>3 DEF Complete, CompleteUnseen
  <2> QED BY <1>0, <2>1, <2>2 DEF Record, TypeOK
<1>4. CASE Fail(w)
  BY <1>0, <1>4 DEF Fail, TypeOK
<1>5. CASE FailTwice(w) \/ Crash(w)
  BY <1>0, <1>5 DEF FailTwice, Crash, TypeOK
<1>6. CASE Start(w)
  BY <1>0, <1>6 DEF Start, TypeOK
<1> QED BY <1>1, <1>2, <1>3, <1>4, <1>5, <1>6 DEF Run

LEMMA LeaseStep == IInv /\ [Next]_vars => LeaseHeld'
<1> SUFFICES ASSUME IInv, [Next]_vars PROVE LeaseHeld'
  OBVIOUS
<1> USE DEF tableVars, handlerVars
<1>0. TypeOK /\ \A v \in Workers : LeaseOf(v)
  BY DEF IInv, LeaseHeld
<1>1. CASE UNCHANGED <<tableVars, task, worker, delivered>>
  BY <1>0, <1>1 DEF LeaseHeld, LeaseOf
<1>2. ASSUME NEW q \in Requests, Journal(q) PROVE LeaseHeld'
  <2>1. Journals(q)
    BY <1>2, JournalFacts
  <2>2. /\ DOMAIN journal \subseteq DOMAIN journal' /\ UNCHANGED <<worker, delivered>>
        /\ \A k \in Kinds, n \in DOMAIN journal : task'[k][n] = task[k][n]
    BY <2>1 DEF Journals
  <2> QED BY <1>0, <2>2, KindFacts DEF LeaseHeld, LeaseOf
<1>3. ASSUME NEW w \in Workers, Run(w) \/ Crash(w) \/ Start(w) PROVE LeaseHeld'
  <2>1. /\ journal' = journal /\ delivered \subseteq delivered'
        /\ \A v \in Workers : v # w => worker'[v] = worker[v]
        /\ \A k \in Kinds : k # Kind(w) => task'[k] = task[k]
    BY <1>3, OthersUntouched
  <2>2. ASSUME NEW v \in Workers, v # w PROVE LeaseOf(v)'
    <3>1. Alone(v) => task'[Kind(v)] = task[Kind(v)]
      BY <2>1, <2>2, KindFacts DEF Alone
    <3> QED BY <1>0, <2>1, <2>2, <3>1 DEF LeaseOf
  <2>3. LeaseOf(w)'
    <3> DEFINE r == worker[w].row
    <3>1. CASE worker'[w] = Ready \/ worker'[w] = Down
      BY <3>1, WorkerFacts DEF LeaseOf
    <3>2. CASE Claim(w)
      <4>1. PICK n \in DOMAIN journal :
               /\ task'[Kind(w)][n] = "processing"
               /\ worker'[w] = [stage |-> "working", row |-> n, recorded |-> FALSE]
        <5>1. PICK expired \in SUBSET In(Kind(w), "processing"), n \in DOMAIN journal :
                 /\ task' = [task EXCEPT ![Kind(w)] = [m \in DOMAIN journal |->
                       IF m = n THEN "processing"
                       ELSE IF m \in expired THEN "retryable_failed" ELSE @[m]]]
                 /\ worker' = [worker EXCEPT ![w] =
                       [stage |-> "working", row |-> n, recorded |-> FALSE]]
          BY <3>2 DEF Claim, In, Retryable
        <5> QED BY <1>0, <5>1, KindFacts DEF TypeOK
      <4> QED BY <2>1, <4>1 DEF LeaseOf
    <3>3. ASSUME NEW s \in {"answered", "failed"}, Moves(w, s), task' = task,
                 worker[w].stage \in {"working", "answered"},
                 s = "answered" /\ Kind(w) = "forwarding" => r \in delivered'
          PROVE  LeaseOf(w)'
      <4>1. /\ worker'[w].stage = s /\ worker'[w].row = r
            /\ worker'[w].recorded = worker[w].recorded
        BY <1>0, <3>3 DEF Moves, TypeOK, Worker
      <4>2. ~worker[w].recorded
        BY <1>0, <3>3 DEF LeaseOf
      <4> QED BY <1>0, <2>1, <3>3, <4>1, <4>2 DEF LeaseOf
    <3>4. CASE Succeed(w)
      BY <3>3, <3>4 DEF Succeed, Reaches
    <3>5. CASE CallFails(w) \/ CompleteFails(w)
      BY <3>3, <3>5 DEF CallFails, CompleteFails
    <3>6. CASE CompleteUnseen(w)
      <4>1. /\ worker'[w].stage = "failed" /\ worker'[w].row = r
            /\ worker'[w].recorded = TRUE
        BY <1>0, <3>6 DEF CompleteUnseen, TypeOK, Worker
      <4>2. r \in DOMAIN journal
        BY <1>0, <3>6 DEF CompleteUnseen, Record, LeaseOf
      <4>3. task'[Kind(w)][r] = "succeeded"
        BY <1>0, <3>6, <4>2, KindFacts DEF CompleteUnseen, Record, TypeOK
      <4> QED BY <2>1, <4>1, <4>2, <4>3 DEF LeaseOf
    <3>7. CASE Complete(w) \/ Fail(w) \/ FailTwice(w) \/ Crash(w) \/ Start(w)
      BY <1>0, <3>1, <3>7 DEF Complete, Fail, FailTwice, Crash, Start, TypeOK
    <3> QED BY <1>3, <3>2, <3>4, <3>5, <3>6, <3>7 DEF Run
  <2> QED BY <2>2, <2>3 DEF LeaseHeld
<1> QED BY <1>1, <1>2, <1>3, StepFrame DEF WorkerStep, vars

(* What is finished stays, if the worker at it is alone.                      *)
LEMMA FinishedStep ==
    ASSUME IInv, [Next]_vars, NEW k \in Kinds, NEW n \in DOMAIN journal,
           \A v, w \in Workers : Kind(v) = k /\ Kind(w) = k => v = w,
           task[k][n] = "succeeded"
    PROVE  task'[k][n] = "succeeded"
<1>1. CASE UNCHANGED task
  BY <1>1
<1>2. ASSUME NEW q \in Requests, Journal(q) PROVE task'[k][n] = "succeeded"
  <2>1. Journals(q)
    BY <1>2, JournalFacts
  <2>2. \A j \in Kinds, m \in DOMAIN journal : task'[j][m] = task[j][m]
    BY <2>1 DEF Journals
  <2> QED BY <2>2
<1>3. ASSUME NEW w \in Workers, Run(w) \/ Crash(w) \/ Start(w)
      PROVE task'[k][n] = "succeeded"
  <2>0. TypeOK /\ LeaseOf(w)
    BY DEF IInv, LeaseHeld
  <2>1. CASE Kind(w) # k
    BY <1>3, <2>1, OthersUntouched
  <2>2. CASE Kind(w) = k
    <3>1. Alone(w)
      BY <2>2 DEF Alone
    <3>2. CASE Claim(w)
      BY <2>0, <2>2, <3>2 DEF Claim, In, Retryable, TypeOK
    <3>3. CASE Complete(w) \/ CompleteUnseen(w)
      BY <2>0, <2>2, <3>3 DEF Complete, CompleteUnseen, Record, TypeOK
    <3>4. CASE Fail(w)
      <4>1. worker[w].row # n
        BY <2>0, <2>2, <3>1, <3>4 DEF Fail, NotRecorded, LeaseOf
      <4> QED BY <2>0, <2>2, <3>4, <4>1 DEF Fail, TypeOK
    <3>5. CASE Start(w)
      BY <2>0, <2>2, <3>5 DEF Start, Interrupted, TypeOK
    <3>6. Succeed(w) \/ CallFails(w) \/ CompleteFails(w) \/ FailTwice(w) \/ Crash(w)
            => UNCHANGED task
      BY DEF Succeed, CallFails, CompleteFails, FailTwice, Crash
    <3> QED BY <1>1, <1>3, <3>2, <3>3, <3>4, <3>5, <3>6 DEF Run
  <2> QED BY <2>1, <2>2
<1> QED BY <1>1, <1>2, <1>3, StepFrame DEF WorkerStep, vars

LEMMA PayloadStep ==
    ASSUME OneForwarder, IInv, PayloadUntilForwarded, [Next]_vars
    PROVE  PayloadUntilForwarded'
<1> DEFINE F == task["forwarding"]
<1>0. TypeOK /\ "forwarding" \in Kinds
  BY DEF IInv, Kinds
<1>1. ASSUME UNCHANGED <<journal, payload>>, delivered \subseteq delivered',
             \A n \in DOMAIN journal : task'["forwarding"][n] = "succeeded"
                                       <=> task["forwarding"][n] = "succeeded"
      PROVE  PayloadUntilForwarded'
  BY <1>1 DEF PayloadUntilForwarded
<1>2. ASSUME NEW q \in Requests, Journal(q) PROVE PayloadUntilForwarded'
  <2>1. Journals(q)
    BY <1>2, JournalFacts
  <2>2. task'["forwarding"] = [n \in DOMAIN journal \union {next} |->
                                  IF n = next THEN "pending" ELSE F[n]]
    BY <1>0, <2>1 DEF Journals
  <2>3. /\ DOMAIN journal' = DOMAIN journal \union {next} /\ next \notin DOMAIN journal
        /\ payload' = payload \union {next} /\ delivered' = delivered
    BY <2>1 DEF Journals
  <2>4. /\ task'["forwarding"][next] # "succeeded"
        /\ \A n \in DOMAIN journal : task'["forwarding"][n] = F[n]
    BY <2>2, <2>3
  <2> QED BY <2>3, <2>4 DEF PayloadUntilForwarded
<1>3. ASSUME NEW w \in Workers, Run(w) \/ Crash(w) \/ Start(w)
      PROVE  PayloadUntilForwarded'
  <2>1. /\ journal' = journal /\ delivered \subseteq delivered'
        /\ \A k \in Kinds : k # Kind(w) => task'[k] = task[k]
    BY <1>3, OthersUntouched
  <2>2. LeaseOf(w)
    BY DEF IInv, LeaseHeld
  <2>3. CASE Kind(w) # "forwarding"
    <3>1. payload' = payload
      BY <1>3, <2>3 DEF Run, Crash, Start, Claim, Succeed, CallFails, Complete,
            CompleteUnseen, Record, Retained, CompleteFails, Fail, FailTwice
    <3> QED BY <1>0, <1>1, <2>1, <2>3, <3>1
  <2>4. CASE Kind(w) = "forwarding"
    <3>1. Alone(w)
      BY <2>4, KindFacts DEF Alone, OneForwarder
    <3>2. CASE Record(w)
      <4> DEFINE r == worker[w].row
      <4>1. r \in DOMAIN journal /\ r \in delivered /\ payload' = payload \ {r}
        BY <2>2, <2>4, <3>2 DEF Record, Retained, LeaseOf
      <4>2. /\ task'["forwarding"][r] = "succeeded"
            /\ \A n \in DOMAIN journal : n # r => task'["forwarding"][n] = F[n]
        BY <1>0, <2>4, <3>2, <4>1 DEF Record, TypeOK
      <4> QED BY <2>1, <4>1, <4>2 DEF PayloadUntilForwarded
    <3>3. ASSUME ~Record(w) PROVE payload' = payload
      BY <1>3, <3>3 DEF Run, Crash, Start, Claim, Succeed, CallFails, Complete,
            CompleteUnseen, CompleteFails, Fail, FailTwice
    <3>4. ASSUME ~Record(w), NEW n \in DOMAIN journal, task["forwarding"][n] # "succeeded"
          PROVE  task'["forwarding"][n] # "succeeded"
      <4>1. CASE Claim(w)
        BY <1>0, <2>4, <3>4, <4>1 DEF Claim, TypeOK
      <4>2. CASE Fail(w)
        BY <1>0, <2>4, <3>4, <4>2 DEF Fail, TypeOK
      <4>3. CASE Start(w)
        BY <1>0, <2>4, <3>4, <4>3 DEF Start, TypeOK
      <4>4. Succeed(w) \/ CallFails(w) \/ CompleteFails(w) \/ FailTwice(w) \/ Crash(w)
              => UNCHANGED task
        BY DEF Succeed, CallFails, CompleteFails, FailTwice, Crash
      <4> QED BY <1>3, <3>4, <4>1, <4>2, <4>3, <4>4 DEF Run, Complete, CompleteUnseen
    <3>5. ASSUME NEW n \in DOMAIN journal, task["forwarding"][n] = "succeeded"
          PROVE  task'["forwarding"][n] = "succeeded"
      BY <1>0, <3>1, <3>5, <2>4, KindFacts, FinishedStep DEF Alone
    <3> QED BY <1>1, <2>1, <3>2, <3>3, <3>4, <3>5
  <2> QED BY <2>3, <2>4
<1>4. RequestStep /\ UNCHANGED <<tableVars, payload, task, worker, delivered>>
        => PayloadUntilForwarded'
  BY <1>1 DEF tableVars
<1>5. UNCHANGED vars => PayloadUntilForwarded'
  BY <1>1 DEF vars, tableVars
<1> QED BY <1>2, <1>3, <1>4, <1>5, StepFrame DEF WorkerStep
-----------------------------------------------------------------------------
(* The inductive invariant of the journal, its transactions and its leases, for  *)
(* any number of requests in flight and of workers of either kind.                 *)
THEOREM IngressInvariant == Spec => []IInv
<1>1. IInv /\ [Next]_vars => IInv'
  BY TypeStep, NumberStep, OperationStep, AnswerStep, LeaseStep DEF IInv
<1> QED BY <1>1, InitIInv, PTL DEF Spec

(* The journal, its work and its workers keep their types.                    *)
THEOREM IngressTypes == Spec => []TypeOK
BY IngressInvariant, PTL DEF IInv

(* However requests race, are repeated or lose their answers: one sequence a     *)
(* delivery, one operation a source, and no gap.                                   *)
THEOREM OneOperationEach == Spec => []OneOperation
BY IngressInvariant, PTL DEF IInv

(* Every answer the customer ever got can be looked up in the journal.         *)
THEOREM AnswersAreJournaled == Spec => []AnswerIsJournaled
BY IngressInvariant, PTL DEF IInv

(* With one forwarder, the payload of a delivery goes when its success is        *)
(* recorded and at no other moment, after the runtime got it.                     *)
THEOREM PayloadKept ==
    ASSUME OneForwarder PROVE Spec => []PayloadUntilForwarded
<1>1. Init => PayloadUntilForwarded
  BY DEF Init, PayloadUntilForwarded
<1>2. IInv /\ PayloadUntilForwarded /\ [Next]_vars => PayloadUntilForwarded'
  BY PayloadStep
<1> QED BY <1>1, <1>2, IngressInvariant, PTL DEF Spec

(* Work of a kind that one process does is never taken up again once finished.  *)
THEOREM FinishedForGood == Spec => FinishedStays
<1> DEFINE A == \A k \in Kinds, n \in DOMAIN journal :
                  (\A v, w \in Workers : Kind(v) = k /\ Kind(w) = k => v = w)
                     /\ task[k][n] = "succeeded"
                     => task'[k][n] = "succeeded"
<1>1. IInv /\ [Next]_vars => [A]_vars
  BY FinishedStep
<1> QED BY <1>1, IngressInvariant, PTL DEF Spec, FinishedStays
-----------------------------------------------------------------------------
(* Towards IngressPromise: only an answer ends the handling of a request, and  *)
(* what a mapping names is the sequence that began the source.                   *)
Unanswered == \A q \in Requests : phase[q] # "answered" => answer[q] = "none"

Begun ==
    \A s \in Sources : mapping[s] # 0 =>
        mapping[s] \in DOMAIN journal /\ Source[journal[mapping[s]].request] = s

LEMMA UnansweredStep == IInv /\ Unanswered /\ [Next]_vars => Unanswered'
<1> SUFFICES ASSUME IInv, Unanswered, [Next]_vars PROVE Unanswered'
  OBVIOUS
<1> USE DEF handlerVars
<1>0. TypeOK
  BY DEF IInv
<1>1. ASSUME NEW q \in Requests, Lookup(q) \/ ReadNumber(q) \/ RefuseDuplicate(q)
      PROVE  Unanswered'
  BY <1>0, <1>1 DEF Lookup, ReadNumber, RefuseDuplicate, Unanswered, TypeOK
<1>2. ASSUME NEW q \in Requests, Replay(q) \/ Conflict(q) \/ Journal(q) PROVE Unanswered'
  BY <1>0, <1>2 DEF Replay, Conflict, Journal, Answer, Unanswered, TypeOK
<1>3. CASE ServerCrash
  BY <1>0, <1>3 DEF ServerCrash, Unanswered, TypeOK
<1>4. CASE UNCHANGED handlerVars
  BY <1>4 DEF Unanswered
<1> QED BY <1>1, <1>2, <1>3, <1>4, StepFrame DEF RequestStep, vars

LEMMA BegunStep == IInv /\ Begun /\ [Next]_vars => Begun'
<1> SUFFICES ASSUME IInv, Begun, [Next]_vars PROVE Begun'
  OBVIOUS
<1>1. CASE UNCHANGED tableVars
  BY <1>1 DEF tableVars, Begun
<1>2. ASSUME NEW q \in Requests, Journal(q) PROVE Begun'
  <2>1. Journals(q)
    BY <1>2, JournalFacts
  <2>2. ASSUME NEW s \in Sources, mapping'[s] # 0
        PROVE  mapping'[s] \in DOMAIN journal' /\ Source[journal'[mapping'[s]].request] = s
    <3>1. CASE mapping[s] # 0
      <4>1. mapping'[s] = mapping[s]
        BY <2>1, <3>1 DEF Journals
      <4>2. mapping[s] \in DOMAIN journal /\ Source[journal[mapping[s]].request] = s
        BY <3>1 DEF Begun
      <4> QED BY <2>1, <4>1, <4>2 DEF Journals
    <3>2. CASE mapping[s] = 0
      <4>1. s = Source[q] /\ mapping'[s] = next
        BY <2>1, <2>2, <3>2 DEF Journals
      <4>2. next \in DOMAIN journal' /\ journal'[next].request = q
        BY <2>1 DEF Journals
      <4> QED BY <4>1, <4>2
    <3> QED BY <3>1, <3>2
  <2> QED BY <2>2 DEF Begun
<1> QED BY <1>1, <1>2, StepFrame DEF vars

LEMMA LogEntries ==
    /\ \A e \in Log : \E n \in DOMAIN journal :
          /\ e.position = n /\ e.request = journal[n].request
          /\ e.operation = journal[n].operation
    /\ \A n \in DOMAIN journal : \E e \in Log :
          /\ e.position = n /\ e.request = journal[n].request
          /\ e.operation = journal[n].operation
<1> DEFINE Entry(n) == [position |-> n, request |-> journal[n].request,
                        operation |-> journal[n].operation]
<1>1. Log = {Entry(n) : n \in DOMAIN journal}
  BY DEF Log
<1>2. \A n \in DOMAIN journal :
         /\ Entry(n).position = n /\ Entry(n).request = journal[n].request
         /\ Entry(n).operation = journal[n].operation
  OBVIOUS
<1> HIDE DEF Entry
<1>3. ASSUME NEW n \in DOMAIN journal PROVE Entry(n) \in Log
  BY <1>1
<1>4. ASSUME NEW e \in Log PROVE \E n \in DOMAIN journal : e = Entry(n)
  BY <1>1
<1> QED BY <1>2, <1>3, <1>4

LEMMA LogUntouched == UNCHANGED journal => UNCHANGED Log
  BY DEF Log

(* The operation a delivery is journaled under is the one its source has.       *)
LEMMA OperationPromised ==
    ASSUME IInv, Begun, NEW q \in Requests, Journals(q)
    PROVE  mapping'[Source[q]] \in Promise!Operations(q)
<1> DEFINE begun == {e \in Log : Source[e.request] = Source[q]}
<1>1. /\ next - 1 + 1 = next
      /\ \A n \in DOMAIN journal : /\ journal[n].operation = mapping[Source[journal[n].request]]
                                   /\ mapping[Source[journal[n].request]] # 0
  BY DEF IInv, TypeOK, OneOperation, Mapped
<1>2. \A e \in begun : e.operation = mapping[Source[q]] /\ mapping[Source[q]] # 0
  BY <1>1, LogEntries
<1>3. CASE begun # {}
  <2>1. PICK e \in begun : TRUE
    BY <1>3
  <2>2. mapping'[Source[q]] = e.operation
    BY <1>2 DEF Journals
  <2>3. Promise!Operations(q) = {f.operation : f \in begun}
    BY <1>3 DEF Promise!Operations
  <2> QED BY <2>2, <2>3
<1>4. CASE begun = {}
  <2>1. mapping[Source[q]] = 0
    BY <1>4, LogEntries, SourceFacts DEF Begun
  <2>2. mapping'[Source[q]] = next
    BY <2>1 DEF Journals
  <2>3. Promise!Operations(q) = {next}
    BY <1>1, <1>4 DEF Promise!Operations
  <2> QED BY <2>2, <2>3
<1> QED BY <1>3, <1>4

LEMMA EnterStep ==
    ASSUME IInv, Unanswered, Begun, NEW q \in Requests, Journal(q)
    PROVE  Promise!Enter(q)
<1> DEFINE entry == [position |-> next, request |-> q, operation |-> mapping'[Source[q]]]
<1>1. Journals(q) /\ next \in Nat /\ next - 1 + 1 = next /\ next' - 1 = next - 1 + 1
  <2>1. Journals(q)
    BY JournalFacts
  <2>2. next \in Nat /\ next' = next + 1
    BY <2>1 DEF Journals
  <2> QED BY <2>1, <2>2
<1>2. \A e \in Log : ~Promise!Same(e, q)
  BY <1>1, LogEntries DEF Journals, Promise!Same
<1>3. Log' = Log \union {entry}
  BY <1>1 DEF Log, Journals
<1>4. Promise!Tell(q, "accepted") \/ UNCHANGED answer
  BY DEF Journal, Answer, Promise!Tell, Unanswered
<1>5. payload' = payload \union {next} /\ delivered' = delivered
  BY <1>1 DEF Journals
<1>6. mapping'[Source[q]] \in Promise!Operations(q)
  BY <1>1, OperationPromised
<1> QED BY <1>1, <1>2, <1>3, <1>4, <1>5, <1>6 DEF Promise!Enter

LEMMA RequestsPromise ==
    ASSUME IInv, Unanswered, RequestStep,
           UNCHANGED <<tableVars, payload, task, worker, delivered>>
    PROVE  [Promise!PromiseNext]_(Promise!promiseVars)
<1> USE DEF tableVars
<1>1. UNCHANGED <<Log, next - 1, payload, delivered>>
  BY LogUntouched
<1>2. CASE UNCHANGED answer
  BY <1>1, <1>2 DEF Promise!promiseVars
<1>3. ASSUME NEW q \in Requests, Replay(q) PROVE Promise!TellAccepted(q)
  <2>1. PICK n \in DOMAIN journal : Delivery[journal[n].request] = Delivery[q]
                                    /\ SameMaterial(q, n)
    BY <1>3 DEF Replay, Journaled
  <2>2. \E e \in Log : Promise!Exactly(e, q)
    BY <2>1, LogEntries DEF Promise!Exactly, Promise!Same, SameMaterial
  <2>3. Promise!Tell(q, "accepted")
    BY <1>3 DEF Replay, Answer, Promise!Tell, Unanswered
  <2> QED BY <1>1, <2>2, <2>3 DEF Promise!TellAccepted, Promise!logVars
<1>4. ASSUME NEW q \in Requests, Conflict(q) PROVE Promise!TellConflict(q)
  <2>1. PICK n \in DOMAIN journal : Delivery[journal[n].request] = Delivery[q]
                                    /\ ~SameMaterial(q, n)
    BY <1>4 DEF Conflict, Journaled
  <2>2. \E e \in Log : Promise!Same(e, q) /\ ~Promise!Exactly(e, q)
    BY <2>1, LogEntries DEF Promise!Exactly, Promise!Same, SameMaterial
  <2>3. Promise!Tell(q, "conflict")
    BY <1>4 DEF Conflict, Answer, Promise!Tell, Unanswered
  <2> QED BY <1>1, <2>2, <2>3 DEF Promise!TellConflict, Promise!logVars
<1>5. \/ UNCHANGED answer
      \/ \E q \in Requests : Replay(q) \/ Conflict(q)
  BY DEF RequestStep, Lookup, ReadNumber, RefuseDuplicate, ServerCrash
<1> QED BY <1>2, <1>3, <1>4, <1>5 DEF Promise!PromiseNext

LEMMA WorkersPromise ==
    ASSUME IInv, NEW w \in Workers, Run(w) \/ Crash(w) \/ Start(w)
    PROVE  [Promise!PromiseNext]_(Promise!promiseVars)
<1> USE DEF handlerVars, tableVars
<1> DEFINE r == worker[w].row
<1>1. UNCHANGED <<journal, next, answer>> /\ UNCHANGED <<Log, next - 1>>
  <2>1. UNCHANGED <<journal, next, answer>>
    BY DEF Run, Crash, Start, Claim, Succeed, CallFails, Complete, CompleteUnseen, Record,
           CompleteFails, Fail, FailTwice
  <2> QED BY <2>1, LogUntouched
<1>2. TypeOK /\ LeaseOf(w) /\ DOMAIN journal = 1 .. (next - 1)
  BY DEF IInv, LeaseHeld, OneOperation
<1>3. CASE UNCHANGED <<payload, delivered>>
  BY <1>1, <1>3 DEF Promise!promiseVars
<1>4. ASSUME worker[w].stage = "working", Kind(w) = "forwarding", Sendable(w), Reaches(w),
             UNCHANGED payload
      PROVE  \E n \in 1 .. (next - 1) : Promise!Receive(n)
  <2>1. r \in payload /\ r \in 1 .. (next - 1) /\ delivered' = delivered \union {r}
    BY <1>2, <1>4 DEF Sendable, Reaches, LeaseOf
  <2> QED BY <1>1, <1>4, <2>1 DEF Promise!Receive, Promise!logVars
<1>5. ASSUME Record(w), Kind(w) = "forwarding"
      PROVE  \E n \in 1 .. (next - 1) : Promise!Drop(n)
  <2>1. r \in delivered /\ r \in 1 .. (next - 1) /\ payload' = payload \ {r}
        /\ delivered' = delivered
    BY <1>2, <1>5 DEF Record, Retained, LeaseOf
  <2> QED BY <1>1, <2>1 DEF Promise!Drop, Promise!logVars
<1>6. CASE Succeed(w) \/ CallFails(w)
  BY <1>3, <1>4, <1>6 DEF Succeed, CallFails, Reaches, Promise!PromiseNext
<1>7. CASE Complete(w) \/ CompleteUnseen(w)
  BY <1>3, <1>5, <1>7 DEF Complete, CompleteUnseen, Record, Retained, Promise!PromiseNext
<1>8. CASE Claim(w) \/ CompleteFails(w) \/ Fail(w) \/ FailTwice(w) \/ Crash(w) \/ Start(w)
  BY <1>3, <1>8 DEF Claim, CompleteFails, Fail, FailTwice, Crash, Start
<1> QED BY <1>6, <1>7, <1>8 DEF Run

LEMMA PromiseStep ==
    IInv /\ Unanswered /\ Begun /\ [Next]_vars
        => [Promise!PromiseNext]_(Promise!promiseVars)
<1> SUFFICES ASSUME IInv, Unanswered, Begun, [Next]_vars
             PROVE  [Promise!PromiseNext]_(Promise!promiseVars)
  OBVIOUS
<1>1. CASE RequestStep /\ UNCHANGED <<tableVars, payload, task, worker, delivered>>
  BY <1>1, RequestsPromise
<1>2. ASSUME NEW q \in Requests, Journal(q) PROVE Promise!PromiseNext
  BY <1>2, EnterStep DEF Promise!PromiseNext
<1>3. CASE WorkerStep
  BY <1>3, WorkersPromise DEF WorkerStep
<1>4. CASE UNCHANGED vars
  <2>1. UNCHANGED <<journal, next, answer, payload, delivered>>
    BY <1>4 DEF vars, handlerVars, tableVars
  <2> QED BY <2>1, LogUntouched DEF Promise!promiseVars
<1> QED BY <1>1, <1>2, <1>3, <1>4, StepFrame

LEMMA PromiseStart == Init => Promise!PromiseInit /\ Unanswered /\ Begun
<1> SUFFICES ASSUME Init PROVE Promise!PromiseInit /\ Unanswered /\ Begun
  OBVIOUS
<1>1. DOMAIN journal = {} /\ next - 1 = 0
  BY DEF Init
<1>2. Log = {}
  BY <1>1 DEF Log
<1>3. Promise!PromiseInit
  BY <1>1, <1>2 DEF Init, Promise!PromiseInit
<1> QED BY <1>3 DEF Init, Unanswered, Begun

(* The ingress does what IngressPromise says, for any number of requests, servers *)
(* that die, and workers of either kind: an answer is true at the instant it is    *)
(* given, and no payload is lost that the runtime has not received.                *)
THEOREM IngressKeepsPromise == Spec => ImplementsPromise
<1>1. IInv /\ Unanswered /\ Begun /\ [Next]_vars => Unanswered' /\ Begun'
  BY UnansweredStep, BegunStep
<1> QED
  BY <1>1, PromiseStart, PromiseStep, IngressInvariant, PTL
  DEF Spec, ImplementsPromise, Promise!PromiseSpec
=============================================================================
