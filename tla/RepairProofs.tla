---------------------------- MODULE RepairProofs ----------------------------
(***************************************************************************)
(* Repair Tasks, their candidates and the Promotions of one target, for any   *)
(* number of cases and attempts and any number of writes by anybody else.        *)
(***************************************************************************)
EXTENDS RepairPromotion, SequenceTheorems, TLAPS

USE DEF Calls, Writes

(* The tasks of a case are created in the order of their epochs, and only a    *)
(* submitted task has a candidate.                                                *)
InOrder ==
    /\ \A j, k \in Tasks :
          j[1] = k[1] /\ j[2] < k[2] /\ task[k].status # "none" => task[j].status # "none"
    /\ \A k \in Tasks : task[k].status # "submitted" => candidate[k] = "none"

TaskInv == InOrder /\ OneAttemptAtATime
-----------------------------------------------------------------------------
LEMMA TaskFacts ==
    ASSUME NEW k \in Tasks
    PROVE  /\ k[2] \in Nat \ {0}
           /\ k[2] # 1 => /\ Previous(k) \in Tasks
                          /\ Previous(k)[1] = k[1] /\ Previous(k)[2] = k[2] - 1
           /\ \A j \in Tasks : j[1] = k[1] /\ j[2] = k[2] - 1 => j = Previous(k)
<1>1. \A j \in Tasks : j \in {j[1]} \X (Nat \ {0})
  BY RepairAssumption
<1>2. ASSUME NEW j \in Tasks PROVE j = <<j[1], j[2]>> /\ j[2] \in Nat \ {0}
  <2>1. PICK a \in {j[1]}, b \in Nat \ {0} : j = <<a, b>>
    BY <1>1
  <2> QED BY <2>1
<1>3. k[2] # 1 => Previous(k) \in Tasks
  BY RepairAssumption DEF Previous
<1> QED BY <1>2, <1>3 DEF Previous

LEMMA RevisionFacts == TypeOK => Revision \in Nat
  BY DEF TypeOK, Revision

LEMMA InitTypes == Init => TypeOK
<1> SUFFICES ASSUME Init PROVE TypeOK
  OBVIOUS
<1> DEFINE w == [does |-> Original, of |-> Customer, kind |-> "edit"]
<1>1. w \in Writes
  BY RepairAssumption DEF Kinds
<1>2. target = <<w>>
  BY DEF Init
<1>3. target \in Seq(Writes)
  BY <1>1, <1>2
<1> QED BY <1>3 DEF Init, TypeOK, TaskStates, CandidateStates, PromotionStates, NoCall, Kinds

LEMMA TaskTypes ==
    ASSUME TypeOK, NEW k \in Tasks, NEW status \in TaskStates, NEW until \in Nat,
           TaskMoves(k, status, until),
           \/ UNCHANGED candidate
           \/ candidate' = [candidate EXCEPT ![k] = "proposed"]
    PROVE  TypeOK'
<1>1. task' \in [Tasks -> [status : TaskStates, until : Nat]]
  BY DEF TypeOK, TaskMoves
<1>2. candidate' \in [Tasks -> CandidateStates]
  BY DEF TypeOK, CandidateStates
<1> QED BY <1>1, <1>2 DEF TypeOK, TaskMoves

LEMMA CallTypes ==
    ASSUME TypeOK, NEW k \in Tasks, NEW kind \in Kinds,
           NEW stage \in {"none", "check", "sent", "doubt", "read", "record"}, NEW seen \in Nat,
           CallMoves(k, kind, stage, seen)
    PROVE  call' \in [Tasks -> Calls]
  BY DEF TypeOK, CallMoves

LEMMA PromotionTypes ==
    ASSUME TypeOK, NEW k \in Tasks, NEW state \in PromotionStates,
           NEW confirmed \in Nat, NEW restored \in Nat,
           PromotionMoves(k, state, confirmed, restored),
           call' \in [Tasks -> Calls]
    PROVE  TypeOK'
<1>1. promotion' \in [Tasks -> [state : PromotionStates, confirmed : Nat, restored : Nat]]
  BY DEF TypeOK, PromotionMoves
<1> QED BY <1>1 DEF TypeOK, PromotionMoves

LEMMA TargetTypes ==
    ASSUME TypeOK, NEW w, w \in Writes,
           target' = Append(target, w)
    PROVE  target' \in Seq(Writes)
  BY DEF TypeOK

LEMMA RevisionTypes ==
    ASSUME TypeOK, NEW i \in DOMAIN target
    PROVE  target[i] \in Writes
<1> DEFINE R == Writes
<1>1. target \in Seq(R)
  BY DEF TypeOK
<1>2. target[i] \in R
  <2> HIDE DEF R
  <2> QED BY <1>1
<1> QED BY <1>2

(* The behaviour a rollback puts back is one the target has had.               *)
LEMMA SnapshotTypes ==
    ASSUME TypeOK, NEW k \in Tasks, base[k] \in 1 .. Len(target)
    PROVE  Snapshot(k) \in Behaviours
<1>1. base[k] \in DOMAIN target
  BY DEF TypeOK
<1> QED BY <1>1, RevisionTypes DEF Snapshot

(* So is what a candidate does, if its patch supports the base.                *)
LEMMA RepairedTypes ==
    ASSUME TypeOK, NEW k \in Tasks, base[k] \in 1 .. Len(target),
           target[base[k]].does \in DOMAIN Patch[k], NEW kind
    PROVE  Intended(k, kind) \in Behaviours
<1>1. Snapshot(k) \in Behaviours
  BY SnapshotTypes
<1>2. Repaired(k) \in Behaviours
  BY RepairAssumption DEF Repaired, Snapshot
<1> QED BY <1>1, <1>2 DEF Intended
-----------------------------------------------------------------------------
(* Tasks.                                                                      *)
TaskStep ==
    \E k \in Tasks : \/ CreateTask(k) \/ ClaimTask(k) \/ Heartbeat(k) \/ SubmitCandidate(k)
                     \/ FinishTask(k) \/ CancelTask(k)

LEMMA TaskStepTypes == TypeOK /\ TaskStep => TypeOK'
<1> SUFFICES ASSUME TypeOK, NEW k \in Tasks,
                    \/ CreateTask(k) \/ ClaimTask(k) \/ Heartbeat(k) \/ SubmitCandidate(k)
                    \/ FinishTask(k) \/ CancelTask(k)
             PROVE  TypeOK'
  BY DEF TaskStep
<1>1. 0 \in Nat /\ LeaseEnd \in Nat
  BY RepairAssumption DEF TypeOK, LeaseEnd
<1> USE DEF TaskStates
<1>2. CASE CreateTask(k)
  BY <1>1, <1>2, TaskTypes DEF CreateTask
<1>3. CASE ClaimTask(k)
  BY <1>1, <1>3, TaskTypes DEF ClaimTask
<1>4. CASE Heartbeat(k)
  BY <1>1, <1>4, TaskTypes DEF Heartbeat
<1>5. CASE SubmitCandidate(k)
  BY <1>1, <1>5, TaskTypes DEF SubmitCandidate
<1>6. CASE FinishTask(k)
  BY <1>1, <1>6, TaskTypes DEF FinishTask
<1>7. CASE CancelTask(k)
  BY <1>1, <1>7, TaskTypes DEF CancelTask
<1> QED BY <1>2, <1>3, <1>4, <1>5, <1>6, <1>7

(* A task that is live has no successor, so that whatever its worker does      *)
(* concerns the last attempt.                                                     *)
LEMMA LiveIsLast ==
    ASSUME TypeOK, TaskInv, NEW j \in Tasks, NEW k \in Tasks, Live(j),
           j[1] = k[1], j[2] < k[2]
    PROVE  task[k].status = "none"
  BY DEF TaskInv, OneAttemptAtATime

LEMMA CreatedInOrder ==
    ASSUME TypeOK, TaskInv, NEW k \in Tasks, CreateTask(k)
    PROVE  TaskInv'
<1>1. /\ task' = [task EXCEPT ![k] = [status |-> "available", until |-> 0]]
      /\ UNCHANGED <<now, candidate>>
      /\ task[k].status = "none" /\ PreviousOver(k) /\ ~Occupied(k[1])
  BY DEF CreateTask, TaskMoves
<1>2. \A j \in Tasks : j # k => task'[j] = task[j]
  BY <1>1 DEF TypeOK
<1>3. task'[k].status = "available"
  BY <1>1 DEF TypeOK
<1>4. ASSUME NEW j \in Tasks, j[1] = k[1], j[2] < k[2]
      PROVE  /\ task[j].status # "none" /\ ~Live(j)
             /\ candidate[j] \notin {"proposed", "verification_pending"}
  <2>1. /\ j[2] \in Nat /\ k[2] \in Nat /\ k[2] # 1
        /\ Previous(k) \in Tasks /\ Previous(k)[1] = k[1] /\ Previous(k)[2] = k[2] - 1
        /\ j[2] = k[2] - 1 => j = Previous(k)
    <3>1. j[2] \in Nat \ {0} /\ k[2] \in Nat \ {0}
      BY TaskFacts
    <3>2. k[2] # 1
      BY <3>1, <1>4
    <3> QED BY <1>4, <3>1, <3>2, TaskFacts
  <2>2. task[Previous(k)].status # "none" /\ ~Live(Previous(k))
    BY <1>1, <2>1 DEF PreviousOver
  <2>3. CASE j[2] = k[2] - 1
    BY <1>1, <1>4, <2>1, <2>2, <2>3 DEF Occupied
  <2>4. CASE j[2] # k[2] - 1
    <3>1. j[2] < Previous(k)[2]
      BY <1>4, <2>1, <2>4
    <3> QED BY <1>4, <2>1, <2>2, <3>1 DEF TaskInv, InOrder, OneAttemptAtATime
  <2> QED BY <2>3, <2>4
<1>5. \A i \in Tasks : k[1] = i[1] /\ k[2] < i[2] => task[i].status = "none"
  BY <1>1 DEF TaskInv, InOrder
<1>6. \A j \in Tasks : j # k => Live(j)' = Live(j)
  BY <1>1, <1>2 DEF Live, Leased
<1>7. \A j \in Tasks : j[1] = k[1] /\ j[2] < k[2] => j # k
  BY TaskFacts
<1>8. InOrder'
  BY <1>1, <1>2, <1>3, <1>4, <1>5, <1>7 DEF TaskInv, InOrder
<1>9. OneAttemptAtATime'
  <2> SUFFICES ASSUME NEW j \in Tasks, NEW i \in Tasks, j[1] = i[1], j[2] < i[2],
                      task'[i].status # "none"
               PROVE  ~Live(j)' /\ candidate'[j] \notin {"proposed", "verification_pending"}
    BY DEF OneAttemptAtATime
  <2>1. CASE i = k
    BY <1>1, <1>4, <1>6, <1>7, <2>1
  <2>2. CASE i # k /\ j # k
    BY <1>1, <1>2, <1>6, <2>2 DEF TaskInv, OneAttemptAtATime
  <2>3. CASE i # k /\ j = k
    BY <1>2, <1>5, <2>3
  <2> QED BY <2>1, <2>2, <2>3
<1> QED BY <1>8, <1>9 DEF TaskInv

LEMMA LiveInOrder ==
    ASSUME TypeOK, TaskInv, NEW k \in Tasks,
           ClaimTask(k) \/ Heartbeat(k) \/ SubmitCandidate(k) \/ FinishTask(k) \/ CancelTask(k)
    PROVE  TaskInv'
<1>1. Live(k) /\ task[k].status \in {"available", "leased"}
  BY DEF ClaimTask, Heartbeat, SubmitCandidate, FinishTask, CancelTask, Live, Leased
<1>2. PICK status \in {"leased", "submitted", "ended"} :
          /\ \E until : task' = [task EXCEPT ![k] = [status |-> status, until |-> until]]
          /\ UNCHANGED now
          /\ \/ UNCHANGED candidate
             \/ status = "submitted" /\ candidate' = [candidate EXCEPT ![k] = "proposed"]
  BY DEF ClaimTask, Heartbeat, SubmitCandidate, FinishTask, CancelTask, TaskMoves
<1>3. /\ \A j \in Tasks : j # k => task'[j] = task[j] /\ candidate'[j] = candidate[j]
      /\ task'[k].status = status
      /\ candidate'[k] # candidate[k] => status = "submitted"
  BY <1>2 DEF TypeOK
<1>4. candidate[k] = "none"
  BY <1>1 DEF TaskInv, InOrder
<1>5. InOrder'
  BY <1>1, <1>3, <1>4 DEF TaskInv, InOrder
<1>6. OneAttemptAtATime'
  <2> SUFFICES ASSUME NEW j \in Tasks, NEW i \in Tasks, j[1] = i[1], j[2] < i[2],
                      task'[i].status # "none"
               PROVE  ~Live(j)' /\ candidate'[j] \notin {"proposed", "verification_pending"}
    BY DEF OneAttemptAtATime
  <2>1. task[i].status # "none"
    BY <1>1, <1>3
  <2>2. j # k
    BY <1>1, <2>1, LiveIsLast
  <2> QED BY <1>2, <1>3, <2>1, <2>2 DEF TaskInv, OneAttemptAtATime, Live, Leased
<1> QED BY <1>5, <1>6 DEF TaskInv

(* Every other step leaves the tasks as they are, and a candidate that moves   *)
(* was delivered.                                                                 *)
TasksStand ==
    /\ UNCHANGED task /\ now' >= now
    /\ \A k \in Tasks : candidate'[k] # candidate[k] =>
          candidate[k] # "none" /\
          (candidate'[k] \in {"verified", "rejected"} \/ candidate[k] = "proposed")

LEMMA StandInOrder == TypeOK /\ now' \in Nat /\ TaskInv /\ TasksStand => TaskInv'
<1> SUFFICES ASSUME TypeOK, now' \in Nat, TaskInv, TasksStand PROVE TaskInv'
  OBVIOUS
<1>1. InOrder'
  BY DEF TaskInv, InOrder, TasksStand
<1>2. \A j \in Tasks : Live(j)' => Live(j)
  BY DEF Live, Leased, TasksStand, TypeOK
<1>3. OneAttemptAtATime'
  BY <1>2 DEF TaskInv, OneAttemptAtATime, TasksStand
<1> QED BY <1>1, <1>3 DEF TaskInv
-----------------------------------------------------------------------------
(* Writes.  All of these take the values they relate as arguments, so that a   *)
(* step on one task says nothing new of another.                                  *)
IsWrite(w, k, kind) == w.of = k /\ w.kind = kind

Landed(k, kind, t) == \E i \in DOMAIN t : IsWrite(t[i], k, kind)

(* Nothing of this kind has been written or is on its way.                     *)
Unwritten(k, kind, pn, t) == pn[kind] = 0 /\ ~Landed(k, kind, t)

(* Revision n, later than the base, does what the candidate of k does.         *)
Stood(k, b, n, t) == n \in b + 1 .. Len(t) /\ t[n].does = Patch[k][t[b].does]

(* Revision m, later than n, does again what the base does.                    *)
Restored(b, n, m, t) == m \in n + 1 .. Len(t) /\ t[m].does = t[b].does

(* The writes of k are on record once each, after what they replace.           *)
OnceEach(k, b, p, pn, t) ==
    /\ \A kind \in Kinds : pn[kind] # 0 => pn[kind] = 1 /\ ~Landed(k, kind, t)
    /\ \A i \in 1 .. Len(t) :
          /\ IsWrite(t[i], k, "apply") => b < i
          /\ IsWrite(t[i], k, "rollback") => p.confirmed < i
    /\ \A kind \in Kinds : \A i, n \in 1 .. Len(t) :
          IsWrite(t[i], k, kind) /\ IsWrite(t[n], k, kind) => n = i

(* How far the delivery, the order and the writes of one attempt have got.     *)
Order(k, cd, b, passed, p, pn, t) ==
    /\ cd \in {"none", "proposed"} => p.state = "none"
    /\ cd \notin {"none", "proposed"} => b \in 1 .. Len(t) /\ t[b].does \in DOMAIN Patch[k]
    /\ p.state # "none" => passed
    /\ p.state \in {"none", "authorized"} => Unwritten(k, "apply", pn, t)
    /\ p.state \notin {"rolling_back", "rolled_back"} => Unwritten(k, "rollback", pn, t)
    /\ p.state \in {"confirmed", "rolling_back", "rolled_back"} => Stood(k, b, p.confirmed, t)
    /\ p.state = "rolled_back" => Restored(b, p.confirmed, p.restored, t)

(* What the handler that makes the call has seen so far.                       *)
Progress(k, b, p, c, pn, t) ==
    /\ c.stage # "none" =>
          p.state = IF c.kind = "apply" THEN "applying" ELSE "rolling_back"
    /\ c.stage = "check" => Unwritten(k, c.kind, pn, t)
    /\ c.stage \in {"sent", "doubt"} => pn[c.kind] # 0 \/ Landed(k, c.kind, t)
    /\ c.stage \in {"read", "record"} => Landed(k, c.kind, t)
    /\ c.stage = "record" => IF c.kind = "apply" THEN Stood(k, b, c.seen, t)
                             ELSE Restored(b, p.confirmed, c.seen, t)

Chain(k, cd, b, passed, p, c, pn, t) ==
    /\ OnceEach(k, b, p, pn, t) /\ Order(k, cd, b, passed, p, pn, t)
    /\ Progress(k, b, p, c, pn, t)

ChainInv ==
    \A k \in Tasks : Chain(k, candidate[k], base[k], Passed(k), promotion[k], call[k],
                           pending[k], target)

(* The target has a revision, and only tasks make writes that are no edits.    *)
History(t) ==
    /\ Len(t) # 0
    /\ \A i \in 1 .. Len(t) : t[i].kind # "edit" => t[i].of \in Tasks

IInv == TypeOK /\ TaskInv /\ ChainInv /\ History(target)
-----------------------------------------------------------------------------
LEMMA ChainImplies ==
    ASSUME IInv PROVE OnlyOrderedWrites /\ RecordsTrue
<1>1. DOMAIN target = 1 .. Len(target) /\ Len(target) \in Nat
  BY DEF IInv, TypeOK
<1>2. \A k \in Tasks : base[k] \in Nat /\ promotion[k].confirmed \in Nat
  BY DEF IInv, TypeOK
<1>3. OnlyOrderedWrites
  <2> SUFFICES ASSUME NEW i \in DOMAIN target, target[i].kind # "edit",
                      NEW k, k = target[i].of
               PROVE  /\ Passed(k) /\ base[k] \in 1 .. i - 1
                      /\ promotion[k].state \notin {"none", "authorized"}
                      /\ target[i].kind = "rollback" =>
                            /\ promotion[k].confirmed \in 1 .. i - 1
                            /\ promotion[k].state \in {"rolling_back", "rolled_back"}
                      /\ \A n \in DOMAIN target :
                            (target[n].of = k /\ target[n].kind = target[i].kind) => n = i
    BY DEF OnlyOrderedWrites
  <2>1. k \in Tasks /\ target[i].kind \in Kinds
    <3>1. target[i] \in Writes
      BY RevisionTypes DEF IInv
    <3> QED BY <1>1, <3>1 DEF IInv, History
  <2>2. /\ OnceEach(k, base[k], promotion[k], pending[k], target)
        /\ Order(k, candidate[k], base[k], Passed(k), promotion[k], pending[k], target)
    BY <2>1 DEF IInv, ChainInv, Chain
  <2>3. IsWrite(target[i], k, target[i].kind) /\ Landed(k, target[i].kind, target)
    BY DEF IsWrite, Landed
  <2>4. \A n \in DOMAIN target : (target[n].of = k /\ target[n].kind = target[i].kind) => n = i
    BY <1>1, <2>1, <2>2, <2>3 DEF OnceEach, IsWrite
  <2>5. CASE target[i].kind = "apply"
    <3>1. promotion[k].state \notin {"none", "authorized"}
      BY <2>2, <2>3, <2>5 DEF Order, Unwritten
    <3>2. Passed(k) /\ base[k] \in 1 .. Len(target)
      BY <2>2, <3>1 DEF Order
    <3>3. base[k] < i
      BY <1>1, <2>2, <2>3, <2>5 DEF OnceEach
    <3> QED BY <1>1, <2>4, <2>5, <3>1, <3>2, <3>3
  <2>6. CASE target[i].kind = "rollback"
    <3>1. promotion[k].state \in {"rolling_back", "rolled_back"}
      BY <2>2, <2>3, <2>6 DEF Order, Unwritten
    <3>2. /\ Passed(k) /\ base[k] \in 1 .. Len(target)
          /\ Stood(k, base[k], promotion[k].confirmed, target)
      BY <2>2, <3>1 DEF Order
    <3>3. promotion[k].confirmed < i
      BY <1>1, <2>2, <2>3, <2>6 DEF OnceEach
    <3>4. promotion[k].confirmed \in 1 .. Len(target) /\ base[k] < promotion[k].confirmed
      BY <1>1, <1>2, <2>1, <3>2 DEF Stood
    <3> QED BY <1>1, <1>2, <2>1, <2>4, <2>6, <3>1, <3>2, <3>3, <3>4
  <2> QED BY <2>1, <2>5, <2>6 DEF Kinds
<1>4. RecordsTrue
  <2> SUFFICES ASSUME NEW k \in Tasks
               PROVE  LET p == promotion[k]
                      IN  /\ p.state \in {"confirmed", "rolling_back", "rolled_back"} =>
                                /\ p.confirmed \in base[k] + 1 .. Len(target)
                                /\ target[p.confirmed].does = Repaired(k)
                          /\ p.state = "rolled_back" =>
                                /\ p.restored \in p.confirmed + 1 .. Len(target)
                                /\ target[p.restored].does = Snapshot(k)
    BY DEF RecordsTrue
  <2>1. Order(k, candidate[k], base[k], Passed(k), promotion[k], pending[k], target)
    BY DEF IInv, ChainInv, Chain
  <2> QED BY <1>1, <2>1 DEF Order, Stood, Restored, Snapshot, Repaired
<1> QED BY <1>3, <1>4
-----------------------------------------------------------------------------
(* A write to the target.                                                      *)
LEMMA Grown ==
    ASSUME NEW R, NEW t \in Seq(R), NEW w \in R, NEW u, u = Append(t, w)
    PROVE  /\ Len(t) \in Nat /\ Len(u) = Len(t) + 1 /\ u[Len(t) + 1] = w
           /\ DOMAIN t = 1 .. Len(t) /\ DOMAIN u = 1 .. Len(t) + 1
           /\ \A i \in 1 .. Len(t) : u[i] = t[i]
  OBVIOUS

LEMMA StoodGrows ==
    ASSUME NEW R, NEW t \in Seq(R), NEW w \in R, NEW u, u = Append(t, w),
           NEW k, NEW b \in 1 .. Len(t)
    PROVE  /\ b \in 1 .. Len(u) /\ u[b] = t[b]
           /\ \A n : Stood(k, b, n, t) => Stood(k, b, n, u)
           /\ \A n \in Nat : \A m : Restored(b, n, m, t) => Restored(b, n, m, u)
<1>1. /\ Len(t) \in Nat /\ Len(u) = Len(t) + 1 /\ \A i \in 1 .. Len(t) : u[i] = t[i]
  BY Grown
<1>2. ASSUME NEW n, Stood(k, b, n, t) PROVE Stood(k, b, n, u)
  <2>1. n \in 1 .. Len(t) /\ n \in b + 1 .. Len(u) /\ u[n] = t[n] /\ u[b] = t[b]
    BY <1>1, <1>2 DEF Stood
  <2> QED BY <1>2, <2>1 DEF Stood
<1>3. ASSUME NEW n \in Nat, NEW m, Restored(b, n, m, t)
      PROVE  Restored(b, n, m, u)
  BY <1>1, <1>3 DEF Restored
<1> QED BY <1>1, <1>2, <1>3

LEMMA GrownByOther ==
    ASSUME NEW R, NEW t \in Seq(R), NEW w \in R, NEW u, u = Append(t, w), NEW k, w.of # k,
           NEW cd, NEW b \in Nat, NEW passed, NEW pn,
           NEW p \in [state : PromotionStates, confirmed : Nat, restored : Nat],
           NEW c \in Calls,
           Chain(k, cd, b, passed, p, c, pn, t)
    PROVE  Chain(k, cd, b, passed, p, c, pn, u)
<1>1. /\ Len(t) \in Nat /\ Len(u) = Len(t) + 1 /\ u[Len(t) + 1] = w
      /\ DOMAIN t = 1 .. Len(t) /\ DOMAIN u = 1 .. Len(t) + 1
      /\ \A i \in 1 .. Len(t) : u[i] = t[i]
  BY Grown
<1>2. \A i \in 1 .. Len(u) : i \in 1 .. Len(t) \/ i = Len(t) + 1
  BY <1>1
<1>3. \A kind : \A i \in 1 .. Len(u) : IsWrite(u[i], k, kind) =>
          i \in 1 .. Len(t) /\ IsWrite(t[i], k, kind)
  BY <1>1, <1>2 DEF IsWrite
<1>4. \A kind : Landed(k, kind, u) <=> Landed(k, kind, t)
  <2> TAKE kind
  <2>1. ASSUME Landed(k, kind, u) PROVE Landed(k, kind, t)
    <3>1. PICK i \in 1 .. Len(u) : IsWrite(u[i], k, kind)
      BY <1>1, <2>1 DEF Landed
    <3>2. i \in DOMAIN t /\ IsWrite(t[i], k, kind)
      BY <1>1, <1>3, <3>1
    <3> QED BY <3>2 DEF Landed
  <2>2. ASSUME Landed(k, kind, t) PROVE Landed(k, kind, u)
    <3>1. PICK i \in 1 .. Len(t) : IsWrite(t[i], k, kind)
      BY <1>1, <2>2 DEF Landed
    <3>2. i \in DOMAIN u /\ IsWrite(u[i], k, kind)
      BY <1>1, <3>1 DEF IsWrite
    <3> QED BY <3>2 DEF Landed
  <2> QED BY <2>1, <2>2
<1>5. OnceEach(k, b, p, pn, u)
  <2>0. OnceEach(k, b, p, pn, t)
    BY DEF Chain
  <2>1. \A kind \in Kinds : pn[kind] # 0 => pn[kind] = 1 /\ ~Landed(k, kind, u)
    BY <1>4, <2>0 DEF OnceEach
  <2>2. \A i \in 1 .. Len(u) : /\ IsWrite(u[i], k, "apply") => b < i
                               /\ IsWrite(u[i], k, "rollback") => p.confirmed < i
    BY <1>3, <2>0 DEF OnceEach
  <2>3. \A kind \in Kinds : \A i, n \in 1 .. Len(u) :
            IsWrite(u[i], k, kind) /\ IsWrite(u[n], k, kind) => n = i
    BY <1>3, <2>0 DEF OnceEach
  <2> QED BY <2>1, <2>2, <2>3 DEF OnceEach
<1>6. Order(k, cd, b, passed, p, pn, u)
  <2>1. p.state # "none" => b \in 1 .. Len(t)
    BY DEF Chain, Order
  <2>2. b \in 1 .. Len(t) => b \in 1 .. Len(u) /\ u[b] = t[b]
    BY <1>1
  <2>3. p.state \in {"confirmed", "rolling_back", "rolled_back"} => Stood(k, b, p.confirmed, u)
    BY <2>1, StoodGrows DEF Chain, Order
  <2>4. p.state = "rolled_back" => Restored(b, p.confirmed, p.restored, u)
    BY <2>1, StoodGrows DEF Chain, Order
  <2> QED BY <1>4, <2>2, <2>3, <2>4 DEF Chain, Order, Unwritten
<1>7. Progress(k, b, p, c, pn, u)
  <2>1. c.stage = "record" => b \in 1 .. Len(t)
    BY DEF Chain, Progress, Order
  <2> QED BY <1>4, <2>1, StoodGrows DEF Chain, Progress, Unwritten
<1> QED BY <1>5, <1>6, <1>7 DEF Chain

LEMMA GrownByOwn ==
    ASSUME NEW R, NEW t \in Seq(R), NEW w \in R, NEW u, u = Append(t, w), NEW k,
           NEW kind \in Kinds, IsWrite(w, k, kind),
           NEW pn \in [Kinds -> Nat], NEW qn, pn[kind] = 1, qn[kind] = 0,
           \A a \in Kinds \ {kind} : qn[a] = pn[a],
           NEW cd, NEW b \in Nat, NEW passed,
           NEW p \in [state : PromotionStates, confirmed : Nat, restored : Nat],
           NEW c \in Calls,
           Chain(k, cd, b, passed, p, c, pn, t)
    PROVE  Chain(k, cd, b, passed, p, c, qn, u)
<1>1. /\ Len(t) \in Nat /\ Len(u) = Len(t) + 1 /\ u[Len(t) + 1] = w
      /\ DOMAIN t = 1 .. Len(t) /\ DOMAIN u = 1 .. Len(t) + 1
      /\ \A i \in 1 .. Len(t) : u[i] = t[i]
  BY Grown
<1>2. \A i \in 1 .. Len(u) : i \in 1 .. Len(t) \/ i = Len(t) + 1
  BY <1>1
<1>3. OnceEach(k, b, p, pn, t) /\ Order(k, cd, b, passed, p, pn, t) /\ Progress(k, b, p, c, pn, t)
  BY DEF Chain
<1>4. /\ pn[kind] = 1 /\ ~Landed(k, kind, t) /\ qn[kind] = 0
      /\ \A a \in Kinds \ {kind} : qn[a] = pn[a]
  BY <1>3 DEF OnceEach
<1>5. Landed(k, kind, u)
  <2>1. Len(t) + 1 \in DOMAIN u
    BY <1>1
  <2> QED BY <1>1, <2>1 DEF Landed
<1>6. \A a : Landed(k, a, t) => Landed(k, a, u)
  BY <1>1 DEF Landed
<1>7. \A a \in Kinds \ {kind} : Landed(k, a, u) => Landed(k, a, t)
  <2> SUFFICES ASSUME NEW a \in Kinds \ {kind}, Landed(k, a, u) PROVE Landed(k, a, t)
    OBVIOUS
  <2>1. PICK i \in 1 .. Len(u) : IsWrite(u[i], k, a)
    BY <1>1 DEF Landed
  <2>2. i \in DOMAIN t /\ IsWrite(t[i], k, a)
    BY <1>1, <1>2, <2>1 DEF IsWrite
  <2> QED BY <2>2 DEF Landed
<1>8. /\ kind = "apply" => p.state \notin {"none", "authorized"}
      /\ kind = "rollback" => p.state \in {"rolling_back", "rolled_back"}
  BY <1>3, <1>4 DEF Order, Unwritten
<1>9. /\ b \in 1 .. Len(t)
      /\ t[b].does \in DOMAIN Patch[k]
      /\ kind = "rollback" => p.confirmed \in 1 .. Len(t)
  BY <1>1, <1>3, <1>8 DEF Order, Stood, Kinds
<1>10. OnceEach(k, b, p, qn, u)
  <2>1. \A a \in Kinds : qn[a] # 0 => qn[a] = 1 /\ ~Landed(k, a, u)
    BY <1>3, <1>4, <1>7 DEF OnceEach
  <2>2. \A i \in 1 .. Len(u) : /\ IsWrite(u[i], k, "apply") => b < i
                               /\ IsWrite(u[i], k, "rollback") => p.confirmed < i
    <3> SUFFICES ASSUME NEW i \in 1 .. Len(u)
                 PROVE  /\ IsWrite(u[i], k, "apply") => b < i
                        /\ IsWrite(u[i], k, "rollback") => p.confirmed < i
      OBVIOUS
    <3>1. CASE i \in 1 .. Len(t)
      BY <1>1, <1>3, <3>1 DEF OnceEach
    <3>2. CASE i = Len(t) + 1
      BY <1>1, <1>9, <3>2 DEF IsWrite
    <3> QED BY <1>2, <3>1, <3>2
  <2>3. ASSUME NEW a \in Kinds, NEW i \in 1 .. Len(u), NEW n \in 1 .. Len(u),
               IsWrite(u[i], k, a), IsWrite(u[n], k, a)
        PROVE  n = i
    <3>1. \A m \in 1 .. Len(t) : ~IsWrite(t[m], k, kind)
      BY <1>1, <1>4 DEF Landed
    <3>2. CASE a = kind
      BY <1>1, <1>2, <2>3, <3>1, <3>2
    <3>3. CASE a # kind
      <4>1. i \in 1 .. Len(t) /\ n \in 1 .. Len(t)
        BY <1>1, <1>2, <2>3, <3>3 DEF IsWrite
      <4> QED BY <1>1, <1>3, <2>3, <4>1 DEF OnceEach
    <3> QED BY <3>2, <3>3
  <2> QED BY <2>1, <2>2, <2>3 DEF OnceEach
<1>11. Order(k, cd, b, passed, p, qn, u)
  <2>1. b \in 1 .. Len(u) /\ u[b].does \in DOMAIN Patch[k]
    BY <1>1, <1>9
  <2>2. /\ p.state \in {"none", "authorized"} => Unwritten(k, "apply", qn, u)
        /\ p.state \notin {"rolling_back", "rolled_back"} => Unwritten(k, "rollback", qn, u)
    BY <1>3, <1>4, <1>7, <1>8 DEF Order, Unwritten, Kinds
  <2> QED BY <1>3, <1>9, <2>1, <2>2, StoodGrows DEF Order
<1>12. Progress(k, b, p, c, qn, u)
  <2>1. c.stage = "check" => Unwritten(k, c.kind, qn, u)
    BY <1>3, <1>4, <1>7 DEF Progress, Unwritten
  <2>2. c.stage \in {"sent", "doubt"} => qn[c.kind] # 0 \/ Landed(k, c.kind, u)
    BY <1>3, <1>4, <1>5, <1>6 DEF Progress
  <2>3. c.stage = "record" => IF c.kind = "apply" THEN Stood(k, b, c.seen, u)
                              ELSE Restored(b, p.confirmed, c.seen, u)
    BY <1>3, <1>9, StoodGrows DEF Progress
  <2> QED BY <1>3, <1>6, <2>1, <2>2, <2>3 DEF Progress
<1> QED BY <1>10, <1>11, <1>12 DEF Chain

LEMMA HistoryGrows ==
    ASSUME NEW R, NEW t \in Seq(R), NEW w \in R, NEW u, u = Append(t, w), History(t),
           w.kind # "edit" => w.of \in Tasks
    PROVE  History(u)
<1>1. /\ Len(t) \in Nat /\ Len(u) = Len(t) + 1 /\ u[Len(t) + 1] = w
      /\ \A i \in 1 .. Len(t) : u[i] = t[i]
  BY Grown
<1>2. \A i \in 1 .. Len(u) : i \in 1 .. Len(t) \/ i = Len(t) + 1
  BY <1>1
<1> QED BY <1>1, <1>2 DEF History
-----------------------------------------------------------------------------
(* The chain of an attempt with the values it has now.                         *)
ChainOf(k) == Chain(k, candidate[k], base[k], Passed(k), promotion[k], call[k], pending[k], target)

LEMMA OthersStay ==
    ASSUME ChainInv, UNCHANGED target, NEW k \in Tasks, ChainOf(k)',
           \A j \in Tasks \ {k} : /\ candidate'[j] = candidate[j] /\ base'[j] = base[j]
                                  /\ promotion'[j] = promotion[j] /\ call'[j] = call[j]
                                  /\ pending'[j] = pending[j],
           receipts \subseteq receipts'
    PROVE  ChainInv'
<1>1. \A j \in Tasks : Passed(j) => Passed(j)'
  BY DEF Passed
<1>2. ASSUME NEW j \in Tasks \ {k} PROVE ChainOf(j)'
  <2>1. ChainOf(j)
    BY DEF ChainInv, ChainOf
  <2>2. /\ Passed(j) => Passed(j)'
        /\ candidate'[j] = candidate[j] /\ base'[j] = base[j] /\ promotion'[j] = promotion[j]
        /\ call'[j] = call[j] /\ pending'[j] = pending[j] /\ target' = target
    BY <1>1
  <2>3. /\ OnceEach(j, base[j], promotion[j], pending[j], target)
        /\ Order(j, candidate[j], base[j], Passed(j), promotion[j], pending[j], target)
        /\ Progress(j, base[j], promotion[j], call[j], pending[j], target)
    BY <2>1 DEF ChainOf, Chain
  <2>4. Order(j, candidate[j], base[j], Passed(j)', promotion[j], pending[j], target)
    BY <2>2, <2>3 DEF Order
  <2> QED BY <2>2, <2>3, <2>4 DEF ChainOf, Chain
<1> QED BY <1>2 DEF ChainInv, ChainOf

LEMMA ChainParts ==
    ASSUME IInv, NEW k \in Tasks
    PROVE  /\ OnceEach(k, base[k], promotion[k], pending[k], target)
           /\ Order(k, candidate[k], base[k], Passed(k), promotion[k], pending[k], target)
           /\ Progress(k, base[k], promotion[k], call[k], pending[k], target)
           /\ base[k] \in Nat /\ Len(target) \in Nat
           /\ pending[k] \in [Kinds -> Nat]
           /\ promotion[k] \in [state : PromotionStates, confirmed : Nat, restored : Nat]
           /\ call[k] \in Calls
  BY DEF IInv, TypeOK, ChainInv, Chain

(* Tasks, deliveries and verifications.                                        *)
LEMMA TaskStepChains ==
    ASSUME IInv, TaskStep PROVE ChainInv' /\ History(target)'
<1>1. PICK k \in Tasks : \/ CreateTask(k) \/ ClaimTask(k) \/ Heartbeat(k) \/ SubmitCandidate(k)
                         \/ FinishTask(k) \/ CancelTask(k)
  BY DEF TaskStep
<1>2. /\ UNCHANGED <<base, receipts, promotion, call, pending, target>>
      /\ \/ UNCHANGED candidate
         \/ Leased(k) /\ candidate' = [candidate EXCEPT ![k] = "proposed"]
  <2>1. CASE SubmitCandidate(k)
    BY <2>1 DEF SubmitCandidate, TaskMoves
  <2>2. CASE CreateTask(k) \/ ClaimTask(k)
    BY <2>2 DEF CreateTask, ClaimTask, TaskMoves
  <2>3. CASE Heartbeat(k)
    BY <2>3 DEF Heartbeat, TaskMoves
  <2>4. CASE FinishTask(k) \/ CancelTask(k)
    BY <2>4 DEF FinishTask, CancelTask, TaskMoves
  <2> QED BY <1>1, <2>1, <2>2, <2>3, <2>4
<1>3. CASE UNCHANGED candidate
  <2>1. \A j \in Tasks : Passed(j)' = Passed(j)
    BY <1>2 DEF Passed
  <2>2. ChainInv'
    BY <1>2, <1>3, <2>1 DEF IInv, ChainInv
  <2> QED BY <1>2, <2>2 DEF IInv
<1>4. CASE Leased(k) /\ candidate' = [candidate EXCEPT ![k] = "proposed"]
  <2>1. candidate[k] = "none" /\ candidate'[k] = "proposed"
    BY <1>4 DEF IInv, TypeOK, TaskInv, InOrder, Leased
  <2>2. ChainOf(k)'
    BY <1>2, <2>1, ChainParts DEF ChainOf, Chain, Order, Passed
  <2> QED BY <1>2, <1>4, <2>2, OthersStay DEF IInv, TypeOK
<1> QED BY <1>2, <1>3, <1>4 DEF IInv

LEMMA DeliveryChains ==
    ASSUME IInv, NEW k \in Tasks, MaterializeCandidate(k)
    PROVE  TypeOK' /\ TaskInv' /\ ChainInv'
<1>1. /\ candidate[k] = "proposed" /\ candidate'[k] = "verification_pending"
      /\ base'[k] = Revision
      /\ UNCHANGED <<now, task, receipts, promotion, call, pending, target>>
      /\ \A j \in Tasks \ {k} : candidate'[j] = candidate[j] /\ base'[j] = base[j]
  BY DEF MaterializeCandidate, IInv, TypeOK
<1>2. Revision \in 1 .. Len(target) /\ target[Revision].does \in DOMAIN Patch[k]
  BY ChainParts DEF MaterializeCandidate, Does, Revision, IInv, History
<1>3. TypeOK'
  BY RevisionFacts DEF MaterializeCandidate, IInv, TypeOK, CandidateStates
<1>4. TasksStand /\ now' \in Nat
  BY <1>1, <1>3 DEF TasksStand, IInv, TypeOK
<1>5. promotion[k].state = "none"
  BY <1>1, ChainParts DEF Order
<1>6. Unwritten(k, "apply", pending[k], target) /\ Unwritten(k, "rollback", pending[k], target)
  BY <1>5, ChainParts DEF Order
<1>7. ChainOf(k)'
  <2>1. OnceEach(k, Revision, promotion[k], pending[k], target)
    BY <1>6, ChainParts DEF OnceEach, Unwritten, Kinds, Landed, IInv, TypeOK
  <2>2. Order(k, "verification_pending", Revision, Passed(k)', promotion[k], pending[k], target)
    BY <1>2, <1>5, <1>6 DEF Order
  <2>3. Progress(k, Revision, promotion[k], call[k], pending[k], target)
    BY <1>5, ChainParts DEF Progress
  <2> QED BY <1>1, <2>1, <2>2, <2>3 DEF ChainOf, Chain
<1>8. ChainInv'
  BY <1>1, <1>7, OthersStay DEF IInv
<1> QED BY <1>3, <1>4, <1>8, StandInOrder DEF IInv

LEMMA VerificationChains ==
    ASSUME IInv, NEW k \in Tasks, CreateVerification(k)
    PROVE  TypeOK' /\ TaskInv' /\ ChainInv'
<1>1. PICK passed \in BOOLEAN :
          /\ receipts' = receipts \union {[of |-> k, with |-> Retained(k), passed |-> passed]}
          /\ candidate' = [candidate EXCEPT ![k] = IF passed THEN "verified" ELSE "rejected"]
  BY DEF CreateVerification
<1>2. /\ candidate[k] \in {"verification_pending", "verified", "rejected"}
      /\ candidate'[k] \in {"verified", "rejected"} /\ receipts \subseteq receipts'
      /\ UNCHANGED <<now, task, base, promotion, call, pending, target>>
      /\ \A j \in Tasks \ {k} : candidate'[j] = candidate[j]
  BY <1>1 DEF CreateVerification, IInv, TypeOK
<1>3. TypeOK'
  <2>1. Retained(k) \subseteq Tasks
    BY DEF Retained, IInv, TypeOK
  <2>2. receipts' \subseteq [of : Tasks, with : SUBSET Tasks, passed : BOOLEAN]
    BY <1>1, <2>1 DEF IInv, TypeOK
  <2>3. candidate' \in [Tasks -> CandidateStates]
    BY <1>1 DEF IInv, TypeOK, CandidateStates
  <2> QED BY <1>2, <2>2, <2>3 DEF IInv, TypeOK
<1>4. TasksStand /\ now' \in Nat
  BY <1>2, <1>3 DEF TasksStand, IInv, TypeOK
<1>5. ChainOf(k)'
  <2>1. Passed(k) => Passed(k)'
    BY <1>2 DEF Passed
  <2>2. Order(k, candidate'[k], base[k], Passed(k)', promotion[k], pending[k], target)
    BY <1>2, <2>1, ChainParts DEF Order
  <2> QED BY <1>2, <2>2, ChainParts DEF ChainOf, Chain
<1>6. ChainInv'
  BY <1>2, <1>5, OthersStay DEF IInv
<1> QED BY <1>3, <1>4, <1>6, StandInOrder DEF IInv
-----------------------------------------------------------------------------
(* The steps of a handler between its two commands.                            *)
CallStep(k) ==
    SendWrite(k) \/ AnswerWrite(k) \/ MissAnswer(k) \/ ReadBack(k) \/ FailCall(k)

LEMMA CallStepTypes == ASSUME TypeOK, NEW k \in Tasks, CallStep(k) PROVE TypeOK'
<1>1. call[k].kind \in Kinds
  BY DEF TypeOK
<1>2. call' \in [Tasks -> Calls]
  <2>1. PICK kind \in Kinds, stage \in {"none", "check", "sent", "doubt", "read", "record"},
             seen \in Nat : CallMoves(k, kind, stage, seen)
    <3>1. "apply" \in Kinds /\ 0 \in Nat /\ Revision \in Nat
      BY RevisionFacts DEF Kinds
    <3>2. CASE SendWrite(k)
      BY <1>1, <3>1, <3>2 DEF SendWrite, Proceed
    <3>3. CASE AnswerWrite(k)
      BY <1>1, <3>1, <3>3 DEF AnswerWrite, Proceed
    <3>4. CASE MissAnswer(k)
      BY <1>1, <3>1, <3>4 DEF MissAnswer, Proceed, Return
    <3>5. CASE ReadBack(k)
      BY <1>1, <3>1, <3>5 DEF ReadBack, Proceed
    <3>6. CASE FailCall(k)
      BY <1>1, <3>1, <3>6 DEF FailCall, Return
    <3> QED BY <3>2, <3>3, <3>4, <3>5, <3>6 DEF CallStep
  <2> QED BY <2>1, CallTypes
<1>3. pending' \in [Tasks -> [Kinds -> Nat]]
  <2>1. \/ UNCHANGED pending
        \/ pending' = [pending EXCEPT ![k][call[k].kind] = @ + 1]
    BY DEF CallStep, SendWrite, AnswerWrite, MissAnswer, ReadBack, FailCall
  <2> DEFINE q == [pending[k] EXCEPT ![call[k].kind] = @ + 1]
  <2>2. q \in [Kinds -> Nat]
    BY <1>1 DEF TypeOK
  <2>3. \/ UNCHANGED pending
        \/ pending' = [pending EXCEPT ![k] = q]
    BY <2>1 DEF TypeOK
  <2> HIDE DEF q
  <2> QED BY <2>2, <2>3 DEF TypeOK
<1>4. UNCHANGED <<now, task, candidate, base, receipts, promotion, target>>
  BY DEF CallStep, SendWrite, AnswerWrite, MissAnswer, ReadBack, FailCall
<1> QED BY <1>2, <1>3, <1>4 DEF TypeOK

LEMMA CallStepChains ==
    ASSUME IInv, NEW k \in Tasks, CallStep(k)
    PROVE  TypeOK' /\ TaskInv' /\ ChainInv'
<1> USE ChainParts
<1>1. /\ UNCHANGED <<now, task, candidate, base, receipts, promotion, target>>
      /\ \A j \in Tasks \ {k} : call'[j] = call[j] /\ pending'[j] = pending[j]
  BY DEF CallStep, SendWrite, AnswerWrite, MissAnswer, ReadBack, FailCall, Proceed, Return,
         CallMoves, IInv, TypeOK
<1>2. Passed(k)' = Passed(k)
  BY <1>1 DEF Passed
<1>3. DOMAIN target = 1 .. Len(target) /\ Len(target) # 0 /\ Revision = Len(target)
  BY DEF IInv, TypeOK, History, Revision
<1>4. ASSUME SendWrite(k) PROVE ChainOf(k)'
  <2> DEFINE kind == call[k].kind
  <2>1. /\ call[k].stage = "check" /\ kind \in Kinds
        /\ call'[k] = [kind |-> kind, stage |-> "sent", seen |-> 0]
        /\ pending'[k] = [pending[k] EXCEPT ![kind] = @ + 1]
    BY <1>4 DEF SendWrite, Proceed, CallMoves, IInv, TypeOK
  <2>2. Unwritten(k, kind, pending[k], target)
        /\ promotion[k].state = IF kind = "apply" THEN "applying" ELSE "rolling_back"
    BY <2>1 DEF Progress
  <2>3. /\ pending'[k][kind] = 1
        /\ \A a \in Kinds \ {kind} : pending'[k][a] = pending[k][a]
    BY <2>1, <2>2 DEF Unwritten
  <2>4. OnceEach(k, base[k], promotion[k], pending'[k], target)
    BY <2>1, <2>2, <2>3 DEF OnceEach, Unwritten
  <2>5. Order(k, candidate[k], base[k], Passed(k), promotion[k], pending'[k], target)
    BY <2>1, <2>2, <2>3 DEF Order, Unwritten, Kinds
  <2>6. Progress(k, base[k], promotion[k], call'[k], pending'[k], target)
    BY <2>1, <2>2, <2>3 DEF Progress
  <2> QED BY <1>1, <1>2, <2>4, <2>5, <2>6 DEF ChainOf, Chain
<1>5. ASSUME ~SendWrite(k) PROVE ChainOf(k)'
  <2>1. UNCHANGED pending
    BY <1>5 DEF CallStep, AnswerWrite, MissAnswer, ReadBack, FailCall
  <2>2. Progress(k, base[k], promotion[k], call'[k], pending[k], target)
    <3>1. CASE AnswerWrite(k)
      <4>1. /\ call[k].stage = "sent" /\ pending[k][call[k].kind] = 0
            /\ call'[k] = [kind |-> call[k].kind, stage |-> "read", seen |-> 0]
        BY <3>1 DEF AnswerWrite, Proceed, CallMoves, IInv, TypeOK
      <4> QED BY <4>1 DEF Progress
    <3>2. CASE MissAnswer(k) \/ FailCall(k)
      <4>1. \/ call'[k] = NoCall
            \/ /\ call[k].stage = "sent" /\ call[k].kind = "apply"
               /\ call'[k] = [kind |-> "apply", stage |-> "doubt", seen |-> 0]
        BY <3>2 DEF MissAnswer, FailCall, Proceed, Return, CallMoves, NoCall, IInv, TypeOK
      <4>2. CASE call'[k] = NoCall
        BY <4>2 DEF Progress, NoCall
      <4> QED BY <4>1, <4>2 DEF Progress
    <3>3. CASE ReadBack(k)
      <4>1. /\ call[k].stage = "read" /\ target[Len(target)].does = Intended(k, call[k].kind)
            /\ call'[k] = [kind |-> call[k].kind, stage |-> "record", seen |-> Len(target)]
        BY <3>3 DEF ReadBack, Proceed, CallMoves, IInv, TypeOK, Does, Revision
      <4>2. Landed(k, call[k].kind, target)
            /\ promotion[k].state = IF call[k].kind = "apply" THEN "applying" ELSE "rolling_back"
        BY <4>1 DEF Progress
      <4>3. PICK i \in 1 .. Len(target) : IsWrite(target[i], k, call[k].kind)
        BY <1>3, <4>2 DEF Landed
      <4>4. CASE call[k].kind = "apply"
        <5>1. base[k] < i
          BY <4>3, <4>4 DEF OnceEach
        <5>2. Stood(k, base[k], Len(target), target)
          BY <1>3, <4>1, <4>3, <4>4, <5>1 DEF Stood, Intended, Repaired, Snapshot
        <5> QED BY <4>1, <4>2, <4>4, <5>2 DEF Progress
      <4>5. CASE call[k].kind = "rollback"
        <5>1. promotion[k].confirmed < i
          BY <4>3, <4>5 DEF OnceEach
        <5>2. Restored(base[k], promotion[k].confirmed, Len(target), target)
          BY <1>3, <4>1, <4>3, <4>5, <5>1 DEF Restored, Intended, Snapshot
        <5> QED BY <4>1, <4>2, <4>5, <5>2 DEF Progress
      <4> QED BY <4>4, <4>5 DEF Kinds
    <3> QED BY <1>5, <3>1, <3>2, <3>3 DEF CallStep
  <2> QED BY <1>1, <1>2, <2>1, <2>2 DEF ChainOf, Chain
<1>6. ChainOf(k)'
  BY <1>4, <1>5
<1>7. ChainInv'
  BY <1>1, <1>6, OthersStay DEF IInv
<1>8. TypeOK' /\ TasksStand
  <2>1. TypeOK'
    BY CallStepTypes DEF IInv
  <2>2. now \in Nat
    BY DEF IInv, TypeOK
  <2> QED BY <1>1, <2>1, <2>2 DEF TasksStand
<1> QED BY <1>7, <1>8, StandInOrder DEF IInv, TypeOK
-----------------------------------------------------------------------------
(* The commands on a Promotion.                                                *)
OrderStep(k) ==
    \/ AuthorizePromotion(k) \/ RequestApply(k) \/ RequestRollback(k) \/ RecordUncertain(k)
    \/ RecordConfirmed(k) \/ RecordRolledBack(k) \/ ReconcilePromotion(k)

(* What such a command makes of the Promotion and of the call.                 *)
Ordered(k, p, c) ==
    /\ promotion' = [promotion EXCEPT ![k] = p] /\ call' = [call EXCEPT ![k] = c]
    /\ p \in [state : PromotionStates, confirmed : Nat, restored : Nat]
    /\ c \in Calls
    /\ UNCHANGED <<now, task, candidate, base, receipts, pending, target>>

LEMMA OrderedKeeps ==
    ASSUME IInv, NEW k \in Tasks, NEW p, NEW c, Ordered(k, p, c),
           Chain(k, candidate[k], base[k], Passed(k), p, c, pending[k], target)
    PROVE  TypeOK' /\ TaskInv' /\ ChainInv'
<1>1. /\ promotion'[k] = p /\ call'[k] = c
      /\ \A j \in Tasks \ {k} : promotion'[j] = promotion[j] /\ call'[j] = call[j]
      /\ UNCHANGED <<now, task, candidate, base, receipts, pending, target>>
  BY DEF Ordered, IInv, TypeOK
<1>2. TypeOK'
  BY DEF Ordered, IInv, TypeOK
<1>3. Passed(k)' = Passed(k)
  BY <1>1 DEF Passed
<1>4. ChainOf(k)'
  BY <1>1, <1>3 DEF ChainOf
<1>5. ChainInv'
  BY <1>1, <1>4, OthersStay DEF IInv
<1>6. now \in Nat
  BY DEF IInv, TypeOK
<1>7. TasksStand
  BY <1>1, <1>6 DEF TasksStand
<1> QED BY <1>1, <1>2, <1>5, <1>6, <1>7, StandInOrder DEF IInv

LEMMA OrderStepChains ==
    ASSUME IInv, NEW k \in Tasks, OrderStep(k)
    PROVE  TypeOK' /\ TaskInv' /\ ChainInv'
<1> USE ChainParts
<1>1. DOMAIN target = 1 .. Len(target) /\ Len(target) # 0 /\ Revision = Len(target)
  BY DEF IInv, TypeOK, History, Revision
<1>2. /\ 0 \in Nat /\ Revision \in Nat /\ NoCall.stage = "none"
      /\ promotion[k].confirmed \in Nat /\ call[k].seen \in Nat
      /\ \A kind \in Kinds, stage \in {"none", "check"} :
            [kind |-> kind, stage |-> stage, seen |-> 0] \in Calls
      /\ \A state \in PromotionStates, n, m \in Nat :
            [state |-> state, confirmed |-> n, restored |-> m] \in
                [state : PromotionStates, confirmed : Nat, restored : Nat]
  BY <1>1 DEF NoCall
<1> DEFINE C == Chain(k, candidate[k], base[k], Passed(k), promotion'[k], call'[k], pending[k],
                      target)
<1>3. ASSUME AuthorizePromotion(k) PROVE Ordered(k, promotion'[k], call'[k]) /\ C
  <2>1. /\ promotion[k].state = "none" /\ candidate[k] = "verified" /\ Passed(k)
        /\ promotion'[k] = [state |-> "authorized", confirmed |-> 0, restored |-> 0]
        /\ promotion' = [promotion EXCEPT ![k] = promotion'[k]]
        /\ UNCHANGED <<now, task, candidate, base, receipts, call, pending, target>>
    BY <1>3 DEF AuthorizePromotion, PromotionMoves, IInv, TypeOK
  <2>2. Unwritten(k, "apply", pending[k], target) /\ Unwritten(k, "rollback", pending[k], target)
        /\ call[k].stage = "none" /\ base[k] \in 1 .. Len(target)
    BY <2>1 DEF Order, Progress
  <2>3. OnceEach(k, base[k], promotion'[k], pending[k], target)
    BY <1>1, <2>1, <2>2 DEF OnceEach, Unwritten, Landed
  <2>4. Order(k, candidate[k], base[k], Passed(k), promotion'[k], pending[k], target)
    BY <2>1, <2>2 DEF Order
  <2>5. Progress(k, base[k], promotion'[k], call'[k], pending[k], target)
    BY <2>1, <2>2 DEF Progress
  <2>6. call' = [call EXCEPT ![k] = call'[k]]
    BY <2>1 DEF IInv, TypeOK
  <2>7. Ordered(k, promotion'[k], call'[k])
    BY <1>2, <2>1, <2>6 DEF Ordered, PromotionStates
  <2> QED BY <2>3, <2>4, <2>5, <2>7 DEF Chain
<1>4. ASSUME RequestApply(k) PROVE Ordered(k, promotion'[k], call'[k]) /\ C
  <2>1. /\ promotion[k].state = "authorized"
        /\ promotion'[k] = [state |-> "applying", confirmed |-> 0, restored |-> 0]
        /\ promotion' = [promotion EXCEPT ![k] = promotion'[k]]
        /\ call'[k] = [kind |-> "apply", stage |-> "check", seen |-> 0]
        /\ call' = [call EXCEPT ![k] = call'[k]]
        /\ UNCHANGED <<now, task, candidate, base, receipts, pending, target>>
    BY <1>4 DEF RequestApply, MayApply, PromotionMoves, Begin, CallMoves, IInv, TypeOK
  <2>2. /\ Unwritten(k, "apply", pending[k], target) /\ Unwritten(k, "rollback", pending[k], target)
        /\ base[k] \in 1 .. Len(target) /\ Passed(k)
        /\ candidate[k] \notin {"none", "proposed"}
    BY <2>1 DEF Order
  <2>3. OnceEach(k, base[k], promotion'[k], pending[k], target)
    BY <1>1, <2>1, <2>2 DEF OnceEach, Unwritten, Landed
  <2>4. Order(k, candidate[k], base[k], Passed(k), promotion'[k], pending[k], target)
    BY <2>1, <2>2 DEF Order
  <2>5. Progress(k, base[k], promotion'[k], call'[k], pending[k], target)
    BY <2>1, <2>2 DEF Progress
  <2>6. Ordered(k, promotion'[k], call'[k])
    BY <1>2, <2>1 DEF Ordered, PromotionStates, Kinds
  <2> QED BY <2>3, <2>4, <2>5, <2>6 DEF Chain
<1>5. ASSUME RequestRollback(k) PROVE Ordered(k, promotion'[k], call'[k]) /\ C
  <2>1. /\ promotion[k].state = "confirmed"
        /\ promotion'[k] = [state |-> "rolling_back", confirmed |-> promotion[k].confirmed,
                            restored |-> 0]
        /\ promotion' = [promotion EXCEPT ![k] = promotion'[k]]
        /\ call'[k] = [kind |-> "rollback", stage |-> "check", seen |-> 0]
        /\ call' = [call EXCEPT ![k] = call'[k]]
        /\ UNCHANGED <<now, task, candidate, base, receipts, pending, target>>
    BY <1>5 DEF RequestRollback, PromotionMoves, Begin, CallMoves, IInv, TypeOK
  <2>2. /\ Unwritten(k, "rollback", pending[k], target)
        /\ Stood(k, base[k], promotion[k].confirmed, target)
        /\ base[k] \in 1 .. Len(target) /\ Passed(k)
        /\ candidate[k] \notin {"none", "proposed"}
    BY <2>1 DEF Order
  <2>3. OnceEach(k, base[k], promotion'[k], pending[k], target)
    <3>1. promotion'[k].confirmed = promotion[k].confirmed
      BY <2>1
    <3>2. OnceEach(k, base[k], promotion[k], pending[k], target)
      BY ChainParts
    <3> QED BY ONLY <3>1, <3>2 DEF OnceEach
  <2>4. Order(k, candidate[k], base[k], Passed(k), promotion'[k], pending[k], target)
    BY <2>1, <2>2 DEF Order
  <2>5. Progress(k, base[k], promotion'[k], call'[k], pending[k], target)
    BY <2>1, <2>2 DEF Progress
  <2>6. Ordered(k, promotion'[k], call'[k])
    BY <1>2, <2>1 DEF Ordered, PromotionStates, Kinds
  <2> QED BY <2>3, <2>4, <2>5, <2>6 DEF Chain
(* A command that ends the call moves the Promotion from a state in which its  *)
(* application, at least, was asked for.                                          *)
<1>6. ASSUME NEW p, promotion' = [promotion EXCEPT ![k] = p], p = promotion'[k],
             p \in [state : PromotionStates, confirmed : Nat, restored : Nat],
             call'[k].stage = "none", call' = [call EXCEPT ![k] = call'[k]],
             call'[k] \in Calls,
             UNCHANGED <<now, task, candidate, base, receipts, pending, target>>,
             promotion[k].state \notin {"none", "authorized"},
             p.state \notin {"none", "authorized"},
             \/ /\ promotion[k].state \notin {"rolling_back", "rolled_back"}
                /\ p.state \in {"uncertain", "failed", "target_mismatch"}
             \/ /\ promotion[k].state \notin {"rolling_back", "rolled_back"}
                /\ p.state = "confirmed" /\ Stood(k, base[k], p.confirmed, target)
             \/ /\ promotion[k].state = "rolling_back" /\ p.state = "rolled_back"
                /\ p.confirmed = promotion[k].confirmed
                /\ Restored(base[k], p.confirmed, p.restored, target)
      PROVE  Ordered(k, promotion'[k], call'[k]) /\ C
  <2>1. /\ base[k] \in 1 .. Len(target) /\ Passed(k)
        /\ candidate[k] \notin {"none", "proposed"}
    BY <1>6 DEF Order
  <2>2. /\ promotion[k].state \notin {"rolling_back", "rolled_back"} =>
              Unwritten(k, "rollback", pending[k], target)
        /\ promotion[k].state = "rolling_back" =>
              Stood(k, base[k], promotion[k].confirmed, target)
    BY DEF Order
  <2>3. OnceEach(k, base[k], p, pending[k], target)
    <3>1. CASE promotion[k].state \notin {"rolling_back", "rolled_back"}
      BY <1>1, <2>2, <3>1 DEF OnceEach, Unwritten, Landed
    <3>2. CASE p.confirmed = promotion[k].confirmed
      BY <3>2 DEF OnceEach
    <3> QED BY <1>6, <3>1, <3>2
  <2>4. Order(k, candidate[k], base[k], Passed(k), p, pending[k], target)
    BY <1>6, <2>1, <2>2 DEF Order
  <2>5. Progress(k, base[k], p, call'[k], pending[k], target)
    BY <1>6 DEF Progress
  <2> QED BY <1>6, <2>3, <2>4, <2>5 DEF Ordered, Chain
<1>7. ASSUME RecordUncertain(k) PROVE Ordered(k, promotion'[k], call'[k]) /\ C
  <2>1. /\ promotion[k].state = "applying"
        /\ promotion'[k] = [state |-> "uncertain", confirmed |-> 0, restored |-> 0]
        /\ promotion' = [promotion EXCEPT ![k] = promotion'[k]]
        /\ call'[k] = NoCall /\ call' = [call EXCEPT ![k] = call'[k]]
        /\ UNCHANGED <<now, task, candidate, base, receipts, pending, target>>
    BY <1>7 DEF RecordUncertain, PromotionMoves, Return, CallMoves, NoCall, IInv, TypeOK
  <2> HIDE DEF C
  <2> QED BY <1>2, <1>6, <2>1 DEF PromotionStates, NoCall, Kinds
<1>8. ASSUME RecordConfirmed(k) PROVE Ordered(k, promotion'[k], call'[k]) /\ C
  <2>1. /\ promotion[k].state = "applying" /\ call[k].stage = "record" /\ call[k].kind = "apply"
        /\ promotion'[k] = [state |-> "confirmed", confirmed |-> call[k].seen, restored |-> 0]
        /\ promotion' = [promotion EXCEPT ![k] = promotion'[k]]
        /\ call'[k] = NoCall /\ call' = [call EXCEPT ![k] = call'[k]]
        /\ UNCHANGED <<now, task, candidate, base, receipts, pending, target>>
    BY <1>8 DEF RecordConfirmed, PromotionMoves, Return, CallMoves, NoCall, IInv, TypeOK
  <2>2. Stood(k, base[k], call[k].seen, target)
    BY <2>1 DEF Progress
  <2> HIDE DEF C
  <2> QED BY <1>2, <1>6, <2>1, <2>2 DEF PromotionStates, NoCall, Kinds
<1>9. ASSUME RecordRolledBack(k) PROVE Ordered(k, promotion'[k], call'[k]) /\ C
  <2>1. /\ promotion[k].state = "rolling_back" /\ call[k].stage = "record"
        /\ call[k].kind = "rollback"
        /\ promotion'[k] = [state |-> "rolled_back", confirmed |-> promotion[k].confirmed,
                            restored |-> call[k].seen]
        /\ promotion' = [promotion EXCEPT ![k] = promotion'[k]]
        /\ call'[k] = NoCall /\ call' = [call EXCEPT ![k] = call'[k]]
        /\ UNCHANGED <<now, task, candidate, base, receipts, pending, target>>
    BY <1>9 DEF RecordRolledBack, PromotionMoves, Return, CallMoves, NoCall, IInv, TypeOK
  <2>2. Restored(base[k], promotion[k].confirmed, call[k].seen, target)
    BY <2>1 DEF Progress
  <2> HIDE DEF C
  <2> QED BY <1>2, <1>6, <2>1, <2>2 DEF PromotionStates, NoCall, Kinds
<1>10. ASSUME ReconcilePromotion(k) PROVE Ordered(k, promotion'[k], call'[k]) /\ C
  <2>1. /\ promotion[k].state = "uncertain"
        /\ \/ promotion'[k] = [state |-> "failed", confirmed |-> 0, restored |-> 0]
           \/ promotion'[k] = [state |-> "target_mismatch", confirmed |-> 0, restored |-> 0]
           \/ /\ base[k] # Len(target) /\ target[Len(target)].does = Repaired(k)
              /\ promotion'[k] = [state |-> "confirmed", confirmed |-> Len(target), restored |-> 0]
        /\ promotion' = [promotion EXCEPT ![k] = promotion'[k]]
        /\ UNCHANGED <<now, task, candidate, base, receipts, call, pending, target>>
    BY <1>1, <1>10 DEF ReconcilePromotion, PromotionMoves, Applied, Does, IInv, TypeOK
  <2>2. call[k].stage = "none" /\ call' = [call EXCEPT ![k] = call'[k]] /\ call'[k] = call[k]
    BY <2>1 DEF Progress, IInv, TypeOK
  <2>3. base[k] # Len(target) /\ target[Len(target)].does = Repaired(k)
            => Stood(k, base[k], Len(target), target)
    BY <1>1, <2>1 DEF Order, Stood, Repaired, Snapshot
  <2> HIDE DEF C
  <2> QED BY <1>1, <1>2, <1>6, <2>1, <2>2, <2>3 DEF PromotionStates, Kinds
<1> HIDE DEF C
<1>11. Ordered(k, promotion'[k], call'[k]) /\ C
  BY <1>3, <1>4, <1>5, <1>7, <1>8, <1>9, <1>10 DEF OrderStep
<1> QED BY <1>11, OrderedKeeps DEF C
-----------------------------------------------------------------------------
(* The target, the clock and a crash of the Node.                              *)
LEMMA LandChains ==
    ASSUME IInv, NEW k \in Tasks, NEW kind \in Kinds, LandWrite(k, kind)
    PROVE  TypeOK' /\ TaskInv' /\ ChainInv' /\ History(target)'
<1> DEFINE R == Writes
           w == Written(k, kind)
           q == [pending[k] EXCEPT ![kind] = @ - 1]
<1>1. /\ pending[k][kind] # 0 /\ target' = Append(target, w)
      /\ pending' = [pending EXCEPT ![k] = q]
      /\ UNCHANGED <<now, task, candidate, base, receipts, promotion, call>>
  BY DEF LandWrite, IInv, TypeOK
<1>2. target \in Seq(R) /\ DOMAIN target = 1 .. Len(target)
  BY DEF IInv, TypeOK
<1>3. base[k] \in 1 .. Len(target) /\ target[base[k]].does \in DOMAIN Patch[k]
  <2>1. promotion[k].state # "none"
    BY <1>1, ChainParts DEF Order, Unwritten, Kinds
  <2> QED BY <2>1, ChainParts DEF Order
<1>4. w \in R /\ IsWrite(w, k, kind)
  <2>1. w.does \in Behaviours
    BY <1>3, RepairedTypes DEF Written, IInv
  <2> QED BY <2>1 DEF Written, IsWrite
<1>5. q \in [Kinds -> Nat]
  BY <1>1, ChainParts
<1>6. TypeOK'
  <2>1. target' \in Seq(R)
    <3> HIDE DEF R, w
    <3> QED BY <1>1, <1>2, <1>4
  <2>2. pending' \in [Tasks -> [Kinds -> Nat]]
    <3> HIDE DEF q
    <3> QED BY <1>1, <1>5 DEF IInv, TypeOK
  <2> QED BY <1>1, <2>1, <2>2 DEF IInv, TypeOK
<1>7. \A j \in Tasks : Passed(j)' = Passed(j)
  BY <1>1 DEF Passed
<1>8. ASSUME NEW j \in Tasks PROVE ChainOf(j)'
  <2>1. Chain(j, candidate[j], base[j], Passed(j), promotion[j], call[j], pending[j], target)
    BY DEF IInv, ChainInv
  <2>2. CASE j = k
    <3>1. pending'[k] = q
      BY <1>1 DEF IInv, TypeOK
    <3>2. Chain(k, candidate[k], base[k], Passed(k), promotion[k], call[k], q, target')
      <4>1. /\ base[k] \in Nat /\ pending[k] \in [Kinds -> Nat]
            /\ promotion[k] \in [state : PromotionStates, confirmed : Nat, restored : Nat]
            /\ call[k] \in Calls
        BY ChainParts
      <4>2. Chain(k, candidate[k], base[k], Passed(k), promotion[k], call[k], pending[k], target)
        BY <2>1, <2>2
      <4>3. /\ pending[k][kind] = 1 /\ q[kind] = 0
            /\ \A a \in Kinds \ {kind} : q[a] = pending[k][a]
        BY <1>1, <4>1, ChainParts DEF OnceEach
      <4> HIDE DEF R, w, q
      <4>4. target \in Seq(R) /\ w \in R /\ target' = Append(target, w) /\ IsWrite(w, k, kind)
        BY <1>1, <1>2, <1>4
      <4> QED BY <4>1, <4>2, <4>3, <4>4, GrownByOwn
    <3> QED BY <1>1, <1>7, <2>2, <3>1, <3>2 DEF ChainOf
  <2>3. CASE j # k
    <3>1. pending'[j] = pending[j] /\ w.of # j
      BY <1>1, <2>3 DEF IInv, TypeOK, Written
    <3>2. Chain(j, candidate[j], base[j], Passed(j), promotion[j], call[j], pending[j], target')
      <4> HIDE DEF R, w
      <4> QED BY <1>1, <1>2, <1>4, <2>1, <3>1, ChainParts, GrownByOther
    <3> QED BY <1>1, <1>7, <3>1, <3>2 DEF ChainOf
  <2> QED BY <2>2, <2>3
<1>9. ChainInv'
  BY <1>8 DEF ChainInv, ChainOf
<1>10. History(target')
  <2>2. w.kind # "edit" => w.of \in Tasks
    BY DEF Written
  <2>3. History(target)
    BY DEF IInv
  <2> HIDE DEF R, w
  <2> QED BY <1>1, <1>2, <1>4, <2>2, <2>3, HistoryGrows
<1>11. TasksStand /\ now' \in Nat
  BY <1>1 DEF TasksStand, IInv, TypeOK
<1> QED BY <1>6, <1>9, <1>10, <1>11, StandInOrder DEF IInv

LEMMA EditChains ==
    ASSUME IInv, NEW b \in Behaviours, Edit(b)
    PROVE  TypeOK' /\ TaskInv' /\ ChainInv' /\ History(target)'
<1> USE ChainParts
<1> DEFINE R == Writes
           w == [does |-> b, of |-> Customer, kind |-> "edit"]
<1>1. /\ target' = Append(target, w)
      /\ UNCHANGED <<now, task, candidate, base, receipts, promotion, call, pending>>
  BY DEF Edit
<1>2. target \in Seq(R) /\ DOMAIN target = 1 .. Len(target) /\ w \in R
  BY DEF IInv, TypeOK
<1>3. TypeOK'
  <2>1. target' \in Seq(R)
    <3> HIDE DEF R, w
    <3> QED BY <1>1, <1>2
  <2> QED BY <1>1, <2>1 DEF IInv, TypeOK
<1>4. \A j \in Tasks : Passed(j)' = Passed(j)
  BY <1>1 DEF Passed
<1>5. ASSUME NEW j \in Tasks PROVE ChainOf(j)'
  <2>1. Chain(j, candidate[j], base[j], Passed(j), promotion[j], call[j], pending[j], target)
    BY DEF IInv, ChainInv
  <2>2. w.of # j
    BY RepairAssumption
  <2>3. Chain(j, candidate[j], base[j], Passed(j), promotion[j], call[j], pending[j], target')
    <3> HIDE DEF R, w
    <3> QED BY <1>1, <1>2, <2>1, <2>2, GrownByOther
  <2> QED BY <1>1, <1>4, <2>3 DEF ChainOf
<1>6. ChainInv'
  BY <1>5 DEF ChainInv, ChainOf
<1>7. History(target')
  <2>1. w.kind = "edit"
    OBVIOUS
  <2> HIDE DEF R, w
  <2> QED BY <1>1, <1>2, <2>1, HistoryGrows DEF IInv
<1>8. TasksStand /\ now' \in Nat
  BY <1>1 DEF TasksStand, IInv, TypeOK
<1> QED BY <1>3, <1>6, <1>7, <1>8, StandInOrder DEF IInv

LEMMA RestChains ==
    ASSUME IInv, Crash \/ Tick \/ UNCHANGED vars
    PROVE  TypeOK' /\ TaskInv' /\ ChainInv' /\ History(target)'
<1>1. /\ UNCHANGED <<task, candidate, base, receipts, promotion, pending, target>>
      /\ now' \in Nat /\ now' >= now
      /\ call' = call \/ call' = [k \in Tasks |-> NoCall]
  BY DEF Crash, Tick, vars, IInv, TypeOK
<1>2. TypeOK'
  <2>1. NoCall \in Calls
    BY DEF NoCall, Kinds
  <2> QED BY <1>1, <2>1 DEF IInv, TypeOK
<1>3. \A j \in Tasks : Passed(j)' = Passed(j)
  BY <1>1 DEF Passed
<1>4. ASSUME NEW j \in Tasks PROVE ChainOf(j)'
  <2>1. /\ OnceEach(j, base[j], promotion[j], pending[j], target)
        /\ Order(j, candidate[j], base[j], Passed(j), promotion[j], pending[j], target)
        /\ Progress(j, base[j], promotion[j], call[j], pending[j], target)
    BY ChainParts
  <2>2. call'[j] = call[j] \/ call'[j].stage = "none"
    BY <1>1 DEF NoCall
  <2>3. Progress(j, base[j], promotion[j], call'[j], pending[j], target)
    BY <2>1, <2>2 DEF Progress
  <2> QED BY <1>1, <1>3, <2>1, <2>3 DEF ChainOf, Chain
<1>5. ChainInv'
  BY <1>4 DEF ChainInv, ChainOf
<1>6. TasksStand
  BY <1>1 DEF TasksStand
<1> QED BY <1>1, <1>2, <1>5, <1>6, StandInOrder DEF IInv
-----------------------------------------------------------------------------
LEMMA InitInv == Init => IInv
<1> SUFFICES ASSUME Init PROVE IInv
  OBVIOUS
<1>1. target = <<[does |-> Original, of |-> Customer, kind |-> "edit"]>>
  BY DEF Init
<1>2. /\ Len(target) = 1 /\ DOMAIN target = 1 .. 1
      /\ \A i \in 1 .. 1 : target[i] = [does |-> Original, of |-> Customer, kind |-> "edit"]
  BY <1>1
<1>3. TaskInv
  BY DEF Init, TaskInv, InOrder, OneAttemptAtATime, Live, Leased
<1>4. History(target)
  BY <1>2, RepairAssumption DEF History
<1>5. ASSUME NEW k \in Tasks PROVE ChainOf(k)
  <2>1. \A kind \in Kinds : pending[k][kind] = 0 /\ ~Landed(k, kind, target)
    BY <1>2, RepairAssumption DEF Init, Landed, IsWrite
  <2>2. candidate[k] = "none" /\ promotion[k].state = "none" /\ call[k].stage = "none"
    BY DEF Init, NoCall
  <2>3. OnceEach(k, base[k], promotion[k], pending[k], target)
    BY <1>2, <2>1, RepairAssumption DEF OnceEach, IsWrite
  <2> QED BY <2>1, <2>2, <2>3 DEF ChainOf, Chain, Order, Progress, Unwritten, Kinds
<1> QED BY <1>3, <1>4, <1>5, InitTypes DEF IInv, ChainInv, ChainOf

LEMMA StepInv == IInv /\ [Next]_vars => IInv'
<1> SUFFICES ASSUME IInv, [Next]_vars
             PROVE  TypeOK' /\ TaskInv' /\ ChainInv' /\ History(target)'
  BY DEF IInv
<1>1. CASE TaskStep
  <2>1. TypeOK'
    BY <1>1, TaskStepTypes DEF IInv
  <2>2. TaskInv'
    BY <1>1, CreatedInOrder, LiveInOrder DEF TaskStep, IInv
  <2> QED BY <1>1, <2>1, <2>2, TaskStepChains
<1>2. ASSUME NEW k \in Tasks, MaterializeCandidate(k)
      PROVE  TypeOK' /\ TaskInv' /\ ChainInv' /\ History(target)'
  <2>1. UNCHANGED target
    BY <1>2 DEF MaterializeCandidate
  <2> QED BY <1>2, <2>1, DeliveryChains DEF IInv
<1>3. ASSUME NEW k \in Tasks, CreateVerification(k)
      PROVE  TypeOK' /\ TaskInv' /\ ChainInv' /\ History(target)'
  <2>1. UNCHANGED target
    BY <1>3 DEF CreateVerification
  <2> QED BY <1>3, <2>1, VerificationChains DEF IInv
<1>4. ASSUME NEW k \in Tasks, CallStep(k)
      PROVE  TypeOK' /\ TaskInv' /\ ChainInv' /\ History(target)'
  <2>1. UNCHANGED target
    BY <1>4 DEF CallStep, SendWrite, AnswerWrite, MissAnswer, ReadBack, FailCall
  <2> QED BY <1>4, <2>1, CallStepChains DEF IInv
<1>5. ASSUME NEW k \in Tasks, OrderStep(k)
      PROVE  TypeOK' /\ TaskInv' /\ ChainInv' /\ History(target)'
  <2>1. UNCHANGED target
    BY <1>5 DEF OrderStep, AuthorizePromotion, RequestApply, RequestRollback, RecordUncertain,
                RecordConfirmed, RecordRolledBack, ReconcilePromotion, PromotionMoves
  <2> QED BY <1>5, <2>1, OrderStepChains DEF IInv
<1>6. ASSUME NEW k \in Tasks, NEW kind \in Kinds, LandWrite(k, kind)
      PROVE  TypeOK' /\ TaskInv' /\ ChainInv' /\ History(target)'
  BY <1>6, LandChains
<1>7. ASSUME NEW b \in Behaviours, Edit(b)
      PROVE  TypeOK' /\ TaskInv' /\ ChainInv' /\ History(target)'
  BY <1>7, EditChains
<1>8. CASE Crash \/ Tick \/ UNCHANGED vars
  BY <1>8, RestChains
<1> QED BY <1>1, <1>2, <1>3, <1>4, <1>5, <1>6, <1>7, <1>8 DEF Next, TaskStep, CallStep, OrderStep

(* The inductive invariant of tasks, orders, calls and writes holds always.     *)
THEOREM RepairInvariant == Spec => []IInv
  BY InitInv, StepInv, PTL DEF Spec

(* Every reachable state of the repair protocol is typed.                       *)
THEOREM RepairTypes == Spec => []TypeOK
<1>1. IInv => TypeOK
  BY DEF IInv
<1> QED BY <1>1, RepairInvariant, PTL

(* A case is worked on by one attempt at a time, for any number of attempts and *)
(* however late their workers are (requireLiveLease, createTask).                  *)
THEOREM OneAttempt == Spec => []OneAttemptAtATime
<1>1. IInv => OneAttemptAtATime
  BY DEF IInv, TaskInv
<1> QED BY <1>1, RepairInvariant, PTL

(* No retry, crash or reconciliation writes the target without a fresh order of *)
(* the Owner, for any number of Promotions and of edits by anybody else.           *)
THEOREM OrderedWrites == Spec => []OnlyOrderedWrites
<1>1. IInv => OnlyOrderedWrites
  BY ChainImplies
<1> QED BY <1>1, RepairInvariant, PTL

(* What a Promotion records of the target has been true of it.                  *)
THEOREM TrueRecords == Spec => []RecordsTrue
<1>1. IInv => RecordsTrue
  BY ChainImplies
<1> QED BY <1>1, RepairInvariant, PTL
-----------------------------------------------------------------------------
(* Towards RepairPromise.                                                       *)
promised == <<Begun, Open, PassedTasks, Orders, target, Verdicts>>

LEMMA PromisedIsAll == UNCHANGED promised => UNCHANGED Promise!promiseVars
  BY DEF promised, Promise!promiseVars

LEMMA PassedStay == UNCHANGED receipts => UNCHANGED PassedTasks
  BY DEF PassedTasks, Passed

LEMMA OrdersStay == UNCHANGED <<promotion, base>> => UNCHANGED <<Orders, Verdicts>>
  BY DEF Orders, Verdicts, OrderedFor, VerdictOn

LEMMA AttemptsStay == UNCHANGED <<now, task, candidate>> => UNCHANGED <<Begun, Open>>
  BY DEF Begun, Open, Live, Leased

LEMMA VerdictChanges ==
    ASSUME NEW k \in Tasks, NEW v, VerdictOn(k)' = v,
           \A j \in Tasks \ {k} : VerdictOn(j)' = VerdictOn(j)
    PROVE  Verdicts' = [Verdicts EXCEPT ![k] = v]
  BY DEF Verdicts

LEMMA OthersOrders ==
    ASSUME NEW k \in Tasks, \A j \in Tasks \ {k} : promotion'[j] = promotion[j],
           UNCHANGED base
    PROVE  \A j \in Tasks \ {k} : OrderedFor(j)' = OrderedFor(j) /\ VerdictOn(j)' = VerdictOn(j)
  BY DEF OrderedFor, VerdictOn

LEMMA OnlyEnds ==
    ASSUME UNCHANGED <<Begun, PassedTasks, Orders, target, Verdicts>>, Open' \subseteq Open
    PROVE  Promise!PromiseNext
<1>1. Open' = Open \ (Open \ Open') /\ Open \ Open' \in SUBSET Open
  OBVIOUS
<1>2. Promise!EndAttempts(Open \ Open')
  BY <1>1 DEF Promise!EndAttempts
<1> QED BY <1>1, <1>2 DEF Promise!PromiseNext

LEMMA TasksPromise ==
    ASSUME IInv, TaskStep
    PROVE  Promise!PromiseNext
<1>1. PICK k \in Tasks : \/ CreateTask(k) \/ ClaimTask(k) \/ Heartbeat(k) \/ SubmitCandidate(k)
                         \/ FinishTask(k) \/ CancelTask(k)
  BY DEF TaskStep
<1>2. PICK status, until :
         /\ TaskMoves(k, status, until)
         /\ status # "none"
         /\ \/ CreateTask(k) /\ status = "available" /\ UNCHANGED candidate
            \/ Live(k) /\ UNCHANGED candidate
            \/ Live(k) /\ status = "submitted" /\ candidate' = [candidate EXCEPT ![k] = "proposed"]
  <2>1. CASE CreateTask(k)
    BY <2>1 DEF CreateTask
  <2>2. CASE ClaimTask(k) \/ Heartbeat(k) \/ FinishTask(k) \/ CancelTask(k)
    BY <2>2 DEF ClaimTask, Heartbeat, FinishTask, CancelTask, Live
  <2>3. CASE SubmitCandidate(k)
    BY <2>3 DEF SubmitCandidate, Live
  <2> QED BY <1>1, <2>1, <2>2, <2>3
<1>3. UNCHANGED <<PassedTasks, Orders, target, Verdicts>>
  BY <1>2, PassedStay, OrdersStay DEF TaskMoves
<1>4. /\ \A j \in Tasks \ {k} : task'[j] = task[j] /\ candidate'[j] = candidate[j]
      /\ task'[k] = [status |-> status, until |-> until] /\ UNCHANGED now
  BY <1>2 DEF TaskMoves, IInv, TypeOK
<1>5. \A j \in Tasks \ {k} : (j \in Open' <=> j \in Open) /\ (j \in Begun' <=> j \in Begun)
  BY <1>4 DEF Open, Begun, Live, Leased
<1>6. k \in Begun' /\ Begun \subseteq Tasks /\ Begun' \subseteq Tasks
      /\ Open \subseteq Tasks /\ Open' \subseteq Tasks
  BY <1>2, <1>4 DEF Begun, Open
<1>7. CASE Live(k)
  <2>1. k \in Begun /\ k \in Open
    BY <1>7 DEF Begun, Open, Live, Leased
  <2>2. Begun' = Begun /\ Open' \subseteq Open
    BY <1>5, <1>6, <2>1
  <2> QED BY <1>3, <2>2, OnlyEnds
<1>8. CASE CreateTask(k) /\ status = "available"
  <2>1. task[k].status = "none" /\ k \notin Begun
    BY <1>8 DEF CreateTask, Begun
  <2>2. k \in Open'
    BY <1>4, <1>8 DEF Open, Live
  <2>3. Begun' = Begun \union {k} /\ Open' = Open \union {k}
    BY <1>5, <1>6, <2>2
  <2>4. ASSUME NEW j \in Begun, j[1] = k[1] PROVE j \notin Open /\ j[2] < k[2]
    <3>1. j \in Tasks /\ task[j].status # "none" /\ j # k
      BY <2>1, <2>4 DEF Begun
    <3>2. j[2] \in Nat /\ k[2] \in Nat
      BY <3>1, TaskFacts
    <3>3. ~(k[2] < j[2])
      BY <2>1, <2>4, <3>1 DEF IInv, TaskInv, InOrder
    <3>4. j[2] # k[2]
      <4>1. j \in {j[1]} \X (Nat \ {0}) /\ k \in {k[1]} \X (Nat \ {0})
        BY <3>1, RepairAssumption
      <4> QED BY <2>4, <3>1, <4>1
    <3>5. j[2] < k[2]
      BY <3>2, <3>3, <3>4
    <3>6. TaskInv'
      BY <1>8, CreatedInOrder DEF IInv
    <3>7. ~Live(j)' /\ candidate'[j] \notin {"proposed", "verification_pending"}
      BY <1>4, <1>6, <2>4, <3>1, <3>5, <3>6 DEF TaskInv, OneAttemptAtATime, Begun
    <3>8. j \notin Open'
      BY <3>7 DEF Open
    <3> QED BY <1>5, <3>1, <3>5, <3>8
  <2>5. Promise!BeginAttempt(k)
    BY <1>3, <2>1, <2>3, <2>4 DEF Promise!BeginAttempt
  <2> QED BY <2>5 DEF Promise!PromiseNext
<1> QED BY <1>2, <1>7, <1>8

LEMMA DeliveryPromise ==
    ASSUME IInv, NEW k \in Tasks, MaterializeCandidate(k)
    PROVE  UNCHANGED promised
<1>1. /\ candidate[k] = "proposed" /\ candidate'[k] = "verification_pending"
      /\ UNCHANGED <<now, task, receipts, promotion, target>>
      /\ \A j \in Tasks \ {k} : candidate'[j] = candidate[j] /\ base'[j] = base[j]
  BY DEF MaterializeCandidate, IInv, TypeOK
<1>2. promotion[k].state = "none"
  BY <1>1, ChainParts DEF Order
<1>3. \A j \in Tasks : OrderedFor(j)' = OrderedFor(j) /\ VerdictOn(j)' = VerdictOn(j)
  BY <1>1, <1>2 DEF OrderedFor, VerdictOn
<1>4. UNCHANGED <<Orders, Verdicts>>
  BY <1>3 DEF Orders, Verdicts
<1>5. UNCHANGED <<Begun, Open>>
  BY <1>1 DEF Begun, Open, Live, Leased
<1> QED BY <1>1, <1>4, <1>5, PassedStay DEF promised

LEMMA VerificationPromise ==
    ASSUME IInv, NEW k \in Tasks, CreateVerification(k)
    PROVE  Promise!PromiseNext
<1>1. PICK ok \in BOOLEAN :
          /\ receipts' = receipts \union {[of |-> k, with |-> Retained(k), passed |-> ok]}
          /\ candidate' = [candidate EXCEPT ![k] = IF ok THEN "verified" ELSE "rejected"]
  BY DEF CreateVerification
<1>2. /\ candidate[k] \in {"verification_pending", "verified", "rejected"}
      /\ candidate'[k] \in {"verified", "rejected"}
      /\ UNCHANGED <<now, task, base, promotion, target>>
      /\ \A j \in Tasks \ {k} : candidate'[j] = candidate[j]
  BY <1>1 DEF CreateVerification, IInv, TypeOK
<1>3. UNCHANGED <<Orders, Verdicts, Begun, target>>
  BY <1>2, OrdersStay DEF Begun
<1>4. task[k].status = "submitted"
  BY <1>2 DEF IInv, TaskInv, InOrder
<1>5. k \in Begun /\ Open' = Open \ {k}
  BY <1>2, <1>4 DEF Begun, Open, Live, Leased
<1>6. CASE ok
  <2>1. \A j \in Tasks : Passed(j)' <=> Passed(j) \/ j = k
    <3> DEFINE receipt == [of |-> k, with |-> Retained(k), passed |-> ok]
    <3>1. receipts' = receipts \union {receipt} /\ receipt.of = k /\ receipt.passed
      BY <1>1, <1>6
    <3> HIDE DEF receipt
    <3> QED BY <3>1 DEF Passed
  <2>2. PassedTasks' = PassedTasks \union {k}
    BY <2>1 DEF PassedTasks
  <2> QED BY <1>3, <1>5, <2>2 DEF Promise!Pass, Promise!PromiseNext
<1>7. CASE ~ok
  <2>1. \A j \in Tasks : Passed(j)' <=> Passed(j)
    BY <1>1, <1>7 DEF Passed
  <2>2. PassedTasks' = PassedTasks
    BY <2>1 DEF PassedTasks
  <2> QED BY <1>3, <1>5, <2>2, OnlyEnds
<1> QED BY <1>6, <1>7

(* Nothing the calls do between the commands is the Owner's concern, but for     *)
(* the write itself.                                                               *)
LEMMA CallsPromise ==
    ASSUME NEW k \in Tasks, CallStep(k)
    PROVE  UNCHANGED promised
<1>1. UNCHANGED <<now, task, candidate, base, receipts, promotion, target>>
  BY DEF CallStep, SendWrite, AnswerWrite, MissAnswer, ReadBack, FailCall
<1> QED BY <1>1, PassedStay, OrdersStay, AttemptsStay DEF promised

(* Orders and what is said of them, one promotion at a time.                   *)
LEMMA OrderFrame ==
    ASSUME IInv, NEW k \in Tasks, NEW state, NEW confirmed, NEW restored,
           PromotionMoves(k, state, confirmed, restored)
    PROVE  /\ UNCHANGED <<Begun, Open, PassedTasks, target, base>>
           /\ promotion'[k].state = state /\ promotion'[k].confirmed = confirmed
           /\ promotion'[k].restored = restored
           /\ \A j \in Tasks \ {k} : OrderedFor(j)' = OrderedFor(j) /\ VerdictOn(j)' = VerdictOn(j)
<1>1. /\ UNCHANGED <<now, task, candidate, base, receipts, target>>
      /\ promotion'[k] = [state |-> state, confirmed |-> confirmed, restored |-> restored]
      /\ \A j \in Tasks \ {k} : promotion'[j] = promotion[j]
  BY DEF PromotionMoves, IInv, TypeOK
<1> QED BY <1>1, PassedStay, AttemptsStay, OthersOrders

LEMMA OrdersPromise ==
    ASSUME IInv, NEW k \in Tasks, \/ AuthorizePromotion(k) \/ RequestApply(k)
                                   \/ RequestRollback(k) \/ RecordUncertain(k)
    PROVE  [Promise!PromiseNext]_(Promise!promiseVars)
<1>0. /\ Order(k, candidate[k], base[k], Passed(k), promotion[k], pending[k], target)
      /\ base[k] \in Nat
  BY ChainParts
<1>1. CASE AuthorizePromotion(k) \/ RecordUncertain(k)
  <2>1. PICK state \in {"authorized", "uncertain"} :
           /\ PromotionMoves(k, state, 0, 0)
           /\ \/ state = "authorized" /\ promotion[k].state = "none"
              \/ state = "uncertain" /\ promotion[k].state = "applying"
    <3>1. AuthorizePromotion(k) =>
              PromotionMoves(k, "authorized", 0, 0) /\ promotion[k].state = "none"
      BY DEF AuthorizePromotion
    <3>2. RecordUncertain(k) =>
              PromotionMoves(k, "uncertain", 0, 0) /\ promotion[k].state = "applying"
      BY DEF RecordUncertain
    <3> QED BY <1>1, <3>1, <3>2
  <2>moved. promotion'[k].state = state /\ UNCHANGED base
    BY <2>1, OrderFrame
  <2>2. OrderedFor(k)' = OrderedFor(k) /\ VerdictOn(k)' = VerdictOn(k)
    BY <2>1, <2>moved DEF OrderedFor, VerdictOn
  <2>3. UNCHANGED <<Orders, Verdicts>>
    BY <2>1, <2>2, OrderFrame DEF Orders, Verdicts
  <2> QED BY <2>1, <2>3, OrderFrame, PromisedIsAll DEF promised
<1>2. CASE RequestApply(k)
  <2>1. /\ PromotionMoves(k, "applying", 0, 0)
        /\ promotion[k].state = "authorized" /\ base[k] = Len(target)
    BY <1>2 DEF RequestApply, MayApply, Revision
  <2>2. /\ OrderedFor(k)' = [OrderedFor(k) EXCEPT !["apply"] = Len(target)]
        /\ OrderedFor(k)["apply"] = 0 /\ VerdictOn(k)' = VerdictOn(k)
    <3>1. promotion'[k].state = "applying" /\ UNCHANGED base
      BY <2>1, OrderFrame
    <3> QED BY <2>1, <3>1 DEF OrderedFor, VerdictOn, Kinds
  <2>3. /\ Orders' = [Orders EXCEPT ![k]["apply"] = Len(target)]
        /\ UNCHANGED Verdicts
    <3>1. \A j \in Tasks \ {k} : OrderedFor(j)' = OrderedFor(j) /\ VerdictOn(j)' = VerdictOn(j)
      BY <2>1, OrderFrame
    <3>2. OrderedFor(k)' = [OrderedFor(k) EXCEPT !["apply"] = Len(target)]
      BY <2>2
    <3>3. Orders' = [Orders EXCEPT ![k]["apply"] = Len(target)]
      BY <3>1, <3>2 DEF Orders
    <3>4. VerdictOn(k)' = VerdictOn(k)
      BY <2>2
    <3> QED BY <3>1, <3>3, <3>4 DEF Verdicts
  <2>4. k \in PassedTasks
    BY <1>0, <2>1 DEF Order, PassedTasks
  <2>5. Orders[k]["apply"] = 0
    BY <2>2 DEF Orders
  <2>frame. UNCHANGED <<Begun, Open, PassedTasks, target>>
    BY <2>1, OrderFrame
  <2>6. Promise!GiveOrder(k, "apply")
    BY <2>3, <2>4, <2>5, <2>frame
    DEF Promise!GiveOrder, Promise!Revisions, Promise!attemptVars
  <2> QED BY <2>6 DEF Promise!PromiseNext, Promise!OrderKinds
<1>3. CASE RequestRollback(k)
  <2> DEFINE n == promotion[k].confirmed
  <2>1. /\ PromotionMoves(k, "rolling_back", n, 0)
        /\ promotion[k].state = "confirmed"
    BY <1>3 DEF RequestRollback
  <2>2. /\ OrderedFor(k)' = [OrderedFor(k) EXCEPT !["rollback"] = n]
        /\ OrderedFor(k)["rollback"] = 0
        /\ VerdictOn(k) = [says |-> "confirmed", at |-> n] /\ VerdictOn(k)' = VerdictOn(k)
    <3>1. promotion'[k].state = "rolling_back" /\ promotion'[k].confirmed = n /\ UNCHANGED base
      BY <2>1, OrderFrame
    <3> QED BY <2>1, <3>1 DEF OrderedFor, VerdictOn, Kinds
  <2>3. /\ Orders' = [Orders EXCEPT ![k]["rollback"] = n]
        /\ UNCHANGED Verdicts
    <3>1. \A j \in Tasks \ {k} : OrderedFor(j)' = OrderedFor(j) /\ VerdictOn(j)' = VerdictOn(j)
      BY <2>1, OrderFrame
    <3>2. OrderedFor(k)' = [OrderedFor(k) EXCEPT !["rollback"] = n]
      BY <2>2
    <3>3. Orders' = [Orders EXCEPT ![k]["rollback"] = n]
      BY <3>1, <3>2 DEF Orders
    <3>4. VerdictOn(k)' = VerdictOn(k)
      BY <2>2
    <3> QED BY <3>1, <3>3, <3>4 DEF Verdicts
  <2>4. Orders[k]["rollback"] = 0 /\ Verdicts[k] = [says |-> "confirmed", at |-> n]
    BY <2>2 DEF Orders, Verdicts
  <2>frame. UNCHANGED <<Begun, Open, PassedTasks, target>>
    BY <2>1, OrderFrame
  <2>5. Promise!GiveOrder(k, "rollback")
    BY <2>3, <2>4, <2>frame
    DEF Promise!GiveOrder, Promise!Revisions, Promise!attemptVars
  <2> QED BY <2>5 DEF Promise!PromiseNext, Promise!OrderKinds
<1> QED BY <1>1, <1>2, <1>3

(* What a verdict is about, in the values of the promotion.                    *)
LEMMA SaidOf ==
    ASSUME IInv, NEW k \in Tasks, NEW from, NEW what, NEW n, NEW state, NEW confirmed, NEW restored,
           PromotionMoves(k, state, confirmed, restored),
           OrderedFor(k)' = OrderedFor(k), OrderedFor(k)["apply"] # 0,
           VerdictOn(k).says = from, VerdictOn(k)' = [says |-> what, at |-> n]
    PROVE  Promise!Say(k, from, what, n)
<1>1. UNCHANGED Orders
  BY OrderFrame DEF Orders
<1>2. Verdicts' = [Verdicts EXCEPT ![k] = [says |-> what, at |-> n]]
  BY OrderFrame, VerdictChanges
<1>3. Verdicts[k].says = from /\ Orders[k]["apply"] # 0
  BY DEF Verdicts, Orders
<1> QED BY <1>1, <1>2, <1>3, OrderFrame DEF Promise!Say, Promise!attemptVars

LEMMA ByOrderIsWrite ==
    \A i, k, kind : Promise!ByOrder(i, k, kind) <=> IsWrite(target[i], k, kind)
  BY DEF Promise!ByOrder, IsWrite

LEMMA ConfirmedPromise ==
    ASSUME IInv, NEW k \in Tasks, promotion[k].state \in {"applying", "uncertain"},
           NEW n, Stood(k, base[k], n, target), PromotionMoves(k, "confirmed", n, 0)
    PROVE  Promise!SayConfirmed(k)
<1>1. base[k] \in 1 .. Len(target) /\ base[k] # 0
  BY ChainParts DEF Order
<1>moved. promotion'[k].state = "confirmed" /\ promotion'[k].confirmed = n /\ UNCHANGED base
  BY OrderFrame
<1>2. OrderedFor(k)["apply"] = base[k] /\ Orders[k]["apply"] = base[k]
      /\ OrderedFor(k)' = OrderedFor(k)
  BY <1>moved DEF OrderedFor, Orders, Kinds
<1>3. VerdictOn(k).says = "none"  /\ VerdictOn(k)' = [says |-> "confirmed", at |-> n]
  BY <1>moved DEF VerdictOn
<1>4. Promise!Say(k, "none", "confirmed", n)
  BY <1>1, <1>2, <1>3, SaidOf
<1> QED BY <1>2, <1>4
  DEF Stood, Promise!SayConfirmed, Promise!Wanted, Promise!Found, Promise!Revisions

LEMMA UnconfirmedPromise ==
    ASSUME IInv, NEW k \in Tasks, promotion[k].state = "uncertain",
           NEW state \in {"failed", "target_mismatch"}, PromotionMoves(k, state, 0, 0),
           IF state = "failed" THEN Revision = base[k] ELSE Revision # base[k] /\ ~Applied(k)
    PROVE  Promise!SayFailed(k) \/ Promise!SayMismatch(k)
<1>1. base[k] \in 1 .. Len(target) /\ base[k] # 0
  BY ChainParts DEF Order
<1>moved. promotion'[k].state = state /\ UNCHANGED base
  BY OrderFrame
<1>2. OrderedFor(k)["apply"] = base[k] /\ Orders[k]["apply"] = base[k]
      /\ OrderedFor(k)' = OrderedFor(k)
  BY <1>moved DEF OrderedFor, Orders, Kinds
<1>3. VerdictOn(k).says = "none"  /\ VerdictOn(k)' = [says |-> state, at |-> 0]
  BY <1>moved DEF VerdictOn
<1>4. Promise!Say(k, "none", state, 0)
  BY <1>1, <1>2, <1>3, SaidOf
<1> QED BY <1>2, <1>4 DEF Promise!SayFailed, Promise!SayMismatch, Promise!Wanted,
     Promise!Found, Promise!Revisions, Applied, Repaired, Snapshot, Revision, Does

LEMMA RolledBackPromise ==
    ASSUME IInv, NEW k \in Tasks, RecordRolledBack(k)
    PROVE  Promise!SayRolledBack(k)
<1> DEFINE n == promotion[k].confirmed
           m == call[k].seen
<1>1. /\ promotion[k].state = "rolling_back" /\ call[k].stage = "record"
      /\ call[k].kind = "rollback" /\ PromotionMoves(k, "rolled_back", n, m)
  BY DEF RecordRolledBack
<1>2. base[k] \in 1 .. Len(target) /\ base[k] # 0 /\ Restored(base[k], n, m, target)
  BY <1>1, ChainParts DEF Order, Progress
<1>3. Stood(k, base[k], n, target)
  BY <1>1, ChainParts DEF Order
<1>4. n \in Nat /\ n # 0
  BY <1>3, ChainParts DEF Stood
<1>moved. promotion'[k].state = "rolled_back" /\ promotion'[k].confirmed = n
      /\ promotion'[k].restored = m /\ UNCHANGED base
  BY <1>1, OrderFrame
<1>5. /\ OrderedFor(k)["apply"] = base[k] /\ OrderedFor(k)["rollback"] = n
      /\ OrderedFor(k)' = OrderedFor(k)
  BY <1>1, <1>moved DEF OrderedFor, Kinds
<1>6. Orders[k]["apply"] = base[k] /\ Orders[k]["rollback"] = n
  BY <1>5 DEF Orders
<1>7. /\ VerdictOn(k) = [says |-> "confirmed", at |-> n] /\ Verdicts[k].at = n
      /\ VerdictOn(k)' = [says |-> "rolled_back", at |-> m]
  BY <1>1, <1>moved DEF VerdictOn, Verdicts
<1>8. Promise!Say(k, "confirmed", "rolled_back", m)
  BY <1>1, <1>2, <1>5, <1>7, SaidOf
<1>9. m \in n + 1 .. Len(target) /\ target[m].does = target[base[k]].does
  BY <1>2 DEF Restored
<1>10. Promise!Wanted(k, "rollback") = target[base[k]].does
  BY <1>6 DEF Promise!Wanted, Promise!Found
<1> QED BY <1>4, <1>6, <1>7, <1>8, <1>9, <1>10 DEF Promise!SayRolledBack, Promise!Revisions

LEMMA VerdictsPromise ==
    ASSUME IInv, NEW k \in Tasks,
           RecordConfirmed(k) \/ RecordRolledBack(k) \/ ReconcilePromotion(k)
    PROVE  Promise!PromiseNext
<1>1. CASE RecordConfirmed(k)
  <2>1. Stood(k, base[k], call[k].seen, target)
    BY <1>1, ChainParts DEF RecordConfirmed, Progress
  <2> QED BY <1>1, <2>1, ConfirmedPromise DEF RecordConfirmed, Promise!PromiseNext
<1>2. CASE RecordRolledBack(k)
  BY <1>2, RolledBackPromise DEF Promise!PromiseNext
<1>3. CASE ReconcilePromotion(k)
  <2>0. promotion[k].state = "uncertain"
    BY <1>3 DEF ReconcilePromotion
  <2>1. CASE Revision # base[k] /\ Applied(k) /\ PromotionMoves(k, "confirmed", Revision, 0)
    <3>1. Stood(k, base[k], Revision, target)
      <4>1. /\ Revision = Len(target) /\ Len(target) \in Nat /\ Len(target) # 0
            /\ base[k] \in 1 .. Len(target) /\ target[Len(target)].does = Repaired(k)
        BY <2>0, <2>1, ChainParts DEF Revision, Applied, Does, IInv, History, Order
      <4> QED BY <2>1, <4>1 DEF Stood, Repaired, Snapshot
    <3> QED BY <2>0, <2>1, <3>1, ConfirmedPromise DEF Promise!PromiseNext
  <2>2. ASSUME Revision = base[k], PromotionMoves(k, "failed", 0, 0)
        PROVE  Promise!PromiseNext
    BY <2>0, <2>2, UnconfirmedPromise DEF Promise!PromiseNext
  <2>3. ASSUME Revision # base[k], ~Applied(k), PromotionMoves(k, "target_mismatch", 0, 0)
        PROVE  Promise!PromiseNext
    BY <2>0, <2>3, UnconfirmedPromise DEF Promise!PromiseNext
  <2> QED BY <1>3, <2>1, <2>2, <2>3 DEF ReconcilePromotion
<1> QED BY <1>1, <1>2, <1>3

(* A write lands: there is an order for it, and it is the first.               *)
LEMMA LandPromise ==
    ASSUME IInv, NEW k \in Tasks, NEW kind \in Kinds, LandWrite(k, kind)
    PROVE  Promise!PromiseNext
<1>1. /\ pending[k][kind] # 0 /\ target' = Append(target, Written(k, kind))
      /\ UNCHANGED <<now, task, candidate, base, receipts, promotion>>
  BY DEF LandWrite, IInv, TypeOK
<1>2. ~Landed(k, kind, target)
  BY <1>1, ChainParts DEF OnceEach
<1>3. \A i \in 1 .. Len(target) : ~Promise!ByOrder(i, k, kind)
  <2>1. DOMAIN target = 1 .. Len(target)
    BY DEF IInv, TypeOK
  <2> QED BY <1>2, <2>1, ByOrderIsWrite DEF Landed
<1>4. /\ kind = "apply" => promotion[k].state \notin {"none", "authorized"}
      /\ kind = "rollback" => promotion[k].state \in {"rolling_back", "rolled_back"}
  BY <1>1, ChainParts DEF Order, Unwritten
<1>5. base[k] \in 1 .. Len(target) /\ base[k] # 0
  BY <1>4, ChainParts DEF Order, Kinds
<1>6. kind = "rollback" => promotion[k].confirmed \in 1 .. Len(target)
  BY <1>4, ChainParts DEF Order, Stood
<1>7. Orders[k]["apply"] = base[k]
  BY <1>4 DEF Orders, OrderedFor, Kinds
<1>8. kind = "rollback" => Orders[k]["rollback"] = promotion[k].confirmed
  BY <1>4 DEF Orders, OrderedFor, Kinds
<1>9. Orders[k][kind] # 0
  BY <1>5, <1>6, <1>7, <1>8 DEF Kinds
<1>10. Written(k, kind) = [does |-> Promise!Wanted(k, kind), of |-> k, kind |-> kind]
  BY <1>7 DEF Written, Intended, Repaired, Snapshot, Promise!Wanted, Promise!Found
<1>11. UNCHANGED <<Begun, Open, PassedTasks, Orders, Verdicts>>
  BY <1>1, PassedStay, OrdersStay, AttemptsStay
<1>12. Promise!WriteTarget(k, kind)
  BY <1>1, <1>3, <1>9, <1>10, <1>11
  DEF Promise!WriteTarget, Promise!Revisions, Promise!attemptVars
<1> QED BY <1>12 DEF Promise!PromiseNext, Promise!OrderKinds, Kinds

LEMMA RestPromise ==
    ASSUME IInv, (\E b \in Behaviours : Edit(b)) \/ Crash \/ Tick \/ UNCHANGED vars
    PROVE  [Promise!PromiseNext]_(Promise!promiseVars)
<1>1. ASSUME NEW b \in Behaviours, Edit(b)
      PROVE  [Promise!PromiseNext]_(Promise!promiseVars)
  <2>1. UNCHANGED <<Begun, Open, PassedTasks, Orders, Verdicts>>
    BY <1>1, PassedStay, OrdersStay, AttemptsStay DEF Edit
  <2>2. Promise!EditTarget(b)
    BY <1>1, <2>1 DEF Edit, Promise!EditTarget, Promise!attemptVars
  <2> QED BY <2>2 DEF Promise!PromiseNext
<1>2. CASE Crash \/ UNCHANGED vars
  <2>1. UNCHANGED <<now, task, candidate, base, receipts, promotion, target>>
    BY <1>2 DEF Crash, vars
  <2> QED BY <2>1, PassedStay, OrdersStay, AttemptsStay, PromisedIsAll DEF promised
<1>3. CASE Tick
  <2>1. UNCHANGED <<Begun, PassedTasks, Orders, target, Verdicts>>
    BY <1>3, PassedStay, OrdersStay DEF Tick, Begun
  <2>2. Open' \subseteq Open
    <3>1. now \in Nat /\ now' = now + 1 /\ UNCHANGED <<task, candidate>>
          /\ \A k \in Tasks : task[k].until \in Nat
      BY <1>3 DEF Tick, IInv, TypeOK
    <3> QED BY <3>1 DEF Open, Live, Leased
  <2> QED BY <2>1, <2>2, OnlyEnds
<1> QED BY <1>1, <1>2, <1>3

LEMMA StepPromise == IInv /\ [Next]_vars => [Promise!PromiseNext]_(Promise!promiseVars)
<1> SUFFICES ASSUME IInv, [Next]_vars PROVE [Promise!PromiseNext]_(Promise!promiseVars)
  OBVIOUS
<1>1. CASE TaskStep
  BY <1>1, TasksPromise
<1>2. ASSUME NEW k \in Tasks, MaterializeCandidate(k) \/ CallStep(k)
      PROVE  [Promise!PromiseNext]_(Promise!promiseVars)
  BY <1>2, DeliveryPromise, CallsPromise, PromisedIsAll
<1>3. ASSUME NEW k \in Tasks, CreateVerification(k) PROVE Promise!PromiseNext
  BY <1>3, VerificationPromise
<1>4. ASSUME NEW k \in Tasks, OrderStep(k) PROVE [Promise!PromiseNext]_(Promise!promiseVars)
  BY <1>4, OrdersPromise, VerdictsPromise DEF OrderStep
<1>5. ASSUME NEW k \in Tasks, NEW kind \in Kinds, LandWrite(k, kind) PROVE Promise!PromiseNext
  BY <1>5, LandPromise
<1>6. CASE (\E b \in Behaviours : Edit(b)) \/ Crash \/ Tick \/ UNCHANGED vars
  BY <1>6, RestPromise
<1> QED BY <1>1, <1>2, <1>3, <1>4, <1>5, <1>6 DEF Next, TaskStep, CallStep, OrderStep

LEMMA StartPromise == Init => Promise!PromiseInit
<1> SUFFICES ASSUME Init PROVE Promise!PromiseInit
  OBVIOUS
<1>1. \A k \in Tasks : /\ task[k].status = "none" /\ candidate[k] = "none" /\ ~Passed(k)
                       /\ promotion[k].state = "none"
  BY DEF Init, Passed
<1>2. Begun = {} /\ Open = {} /\ PassedTasks = {}
  BY <1>1 DEF Begun, Open, PassedTasks, Live, Leased
<1>3. \A k \in Tasks : /\ OrderedFor(k) = [kind \in Kinds |-> 0]
                       /\ VerdictOn(k) = [says |-> "none", at |-> 0]
  BY <1>1 DEF OrderedFor, VerdictOn
<1>4. Orders = [k \in Tasks |-> [kind \in Kinds |-> 0]]
      /\ Verdicts = [k \in Tasks |-> [says |-> "none", at |-> 0]]
  BY <1>3 DEF Orders, Verdicts
<1> QED BY <1>2, <1>4 DEF Init, Promise!PromiseInit, Promise!OrderKinds, Kinds

(* The repair of a workflow does what RepairPromise says, for any number of cases, *)
(* attempts, lost answers, crashes and edits: one attempt at a time, one write for   *)
(* each order, and verdicts that are true when they are given and stay.               *)
THEOREM RepairKeepsPromise == Spec => ImplementsPromise
  BY RepairInvariant, StartPromise, StepPromise, PTL
  DEF Spec, ImplementsPromise, Promise!PromiseSpec
=============================================================================
