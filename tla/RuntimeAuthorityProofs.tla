----------------------- MODULE RuntimeAuthorityProofs -----------------------
(***************************************************************************)
(* The authority of runtimes, for any number of tasks, passports, hand-offs,  *)
(* Runs and callers of the gate.                                               *)
(***************************************************************************)
EXTENDS RuntimeAuthority, FiniteSetTheorems, TLAPS

(* Every Run hangs on an accepted hand-off, and so does every call of the     *)
(* gate, which began in an epoch that is not to come.                          *)
RunsDelegated == \A k \in Keys : run[k].via # NoHandoff => Accepted(run[k].via)

ChecksGranted ==
    \A c \in Checks : check[c].stage # "idle" =>
        /\ check[c].grant \in Handoffs /\ Accepted(check[c].grant)
        /\ check[c].since <= epoch

(* A grant found current was not fenced when the call began.                 *)
CurrentIsFresh ==
    \A c \in Checks : check[c].stage \in {"current", "admitted"} =>
        grant[check[c].grant].epoch >= check[c].since

(* An accepted hand-off to another passport is the one that holds the task.   *)
MovedOnce ==
    \A h \in Handoffs : Accepted(h) =>
        \/ handoff[h].target = Source(h)
        \/ /\ resp[handoff[h].intent].holder = handoff[h].target
           /\ resp[handoff[h].intent].via = h

(* The hand-offs that moved a task: they are finitely many, and counted.      *)
Moved(i) == {h \in Handoffs : Accepted(h) /\ handoff[h].intent = i}

MovesTraced ==
    \A i \in Intents :
        /\ IsFiniteSet(Moved(i)) /\ resp[i].revision = Cardinality(Moved(i))
        /\ Moved(i) # {} =>
              resp[i].via \in Moved(i) /\ resp[i].holder = handoff[resp[i].via].target
        /\ \A h \in Moved(i) : h = resp[i].via \/ handoff[h].target = Owner[i]

IInv == /\ TypeOK /\ RunsDelegated /\ ChecksGranted /\ CurrentIsFresh
        /\ MovedOnce /\ MovesTraced /\ AuthorityNested /\ RecordedIsPrefix
-----------------------------------------------------------------------------
LEMMA EarlierBounds ==
    ASSUME NEW a \in Nat, NEW b \in Nat
    PROVE  Earlier(a, b) \in Nat /\ Earlier(a, b) <= a /\ Earlier(a, b) <= b
  BY DEF Earlier

LEMMA GrantEndBounds ==
    ASSUME TypeOK, NEW h \in Handoffs
    PROVE  GrantEnd(h) \in Nat /\ GrantEnd(h) <= handoff[h].delegated
<1>1. /\ now + Lease \in Nat /\ handoff[h].delegated \in Nat
      /\ handoff[h].expires \in Nat /\ PassportEnd[handoff[h].target] \in Nat
  BY AuthorityAssumption DEF TypeOK, Handoff
<1>2. /\ Earlier(now + Lease, handoff[h].delegated) \in Nat
      /\ Earlier(now + Lease, handoff[h].delegated) <= handoff[h].delegated
      /\ Earlier(handoff[h].expires, PassportEnd[handoff[h].target]) \in Nat
  BY <1>1, EarlierBounds
<1> DEFINE a == Earlier(now + Lease, handoff[h].delegated)
           b == Earlier(handoff[h].expires, PassportEnd[handoff[h].target])
<1>3. a \in Nat /\ b \in Nat /\ a <= handoff[h].delegated
  BY <1>2
<1>4. Earlier(a, b) \in Nat /\ Earlier(a, b) <= a
  <2> HIDE DEF a, b
  <2> QED BY <1>3, EarlierBounds
<1>5. GrantEnd(h) = Earlier(a, b)
  BY DEF GrantEnd
<1> HIDE DEF a, b
<1> QED BY <1>1, <1>3, <1>4, <1>5

LEMMA InitIInv == Init => IInv
<1> SUFFICES ASSUME Init PROVE IInv
  OBVIOUS
<1>1. Absent \in Handoff
  <2>1. PICK i \in Intents : TRUE
    BY AuthorityAssumption
  <2>2. Owner[i] \in Passports
    BY <2>1, AuthorityAssumption
  <2> QED BY <2>1, <2>2 DEF Absent, Handoff
<1>2. TypeOK
  BY <1>1 DEF Init, TypeOK, Grant, Responsibility, Run, Check
<1>3. RunsDelegated /\ ChecksGranted /\ CurrentIsFresh
  BY DEF Init, RunsDelegated, ChecksGranted, CurrentIsFresh
<1>4. MovedOnce /\ AuthorityNested
  BY DEF Init, MovedOnce, AuthorityNested, Accepted, Absent
<1>5. RecordedIsPrefix
  <2>1. 0 \in 0 .. MaxSequence /\ 1 .. 0 = {}
    BY AuthorityAssumption
  <2> QED BY <2>1 DEF Init, RecordedIsPrefix
<1>6. MovesTraced
  <2>1. \A i \in Intents : Moved(i) = {} /\ resp[i].revision = 0
    BY DEF Init, Moved, Accepted, Absent
  <2> QED BY <2>1, FS_EmptySet DEF MovesTraced
<1> QED BY <1>2, <1>3, <1>4, <1>5, <1>6 DEF IInv
-----------------------------------------------------------------------------
LEMMA TypeStep == TypeOK /\ [Next]_vars => TypeOK'
<1> SUFFICES ASSUME TypeOK, [Next]_vars PROVE TypeOK'
  OBVIOUS
<1> USE AuthorityAssumption
<1>1. ASSUME NEW h \in Handoffs, NEW i \in Intents, NEW p \in Passports,
             NEW e \in Expiries, NEW d \in Expiries, Propose(h, i, p, e, d)
      PROVE  TypeOK'
  <2>1. [state |-> "pending", intent |-> i, target |-> p,
         expires |-> e, delegated |-> d] \in Handoff
    BY DEF Handoff
  <2>2. ResponsibilityRow(i) \in Responsibility
    BY DEF TypeOK, ResponsibilityRow, Responsibility
  <2> QED BY <1>1, <2>1, <2>2 DEF Propose, TypeOK
<1>2. ASSUME NEW h \in Handoffs, Reject(h) PROVE TypeOK'
  BY <1>2 DEF Reject, TypeOK, Handoff
<1>3. ASSUME NEW h \in Handoffs, Accept(h) PROVE TypeOK'
  <2>1. [epoch |-> epoch, ends |-> GrantEnd(h)] \in Grant
    BY GrantEndBounds DEF TypeOK, Grant
  <2>2. /\ handoff[h].intent \in Intents
        /\ handoff[h].target \in Passports
        /\ resp[handoff[h].intent].revision + 1 \in Nat
    BY DEF TypeOK, Handoff, Responsibility
  <2>3. resp' \in [Intents -> Responsibility]
    BY <1>3, <2>2 DEF Accept, TypeOK, Responsibility
  <2>4. handoff' \in [Handoffs -> Handoff]
    BY <1>3 DEF Accept, TypeOK, Handoff
  <2> QED BY <1>3, <2>1, <2>3, <2>4 DEF Accept, TypeOK
<1>4. ASSUME NEW k \in Keys, NEW h \in Handoffs, NEW u \in Expiries, Admit(k, h, u)
      PROVE  TypeOK'
  BY <1>4 DEF Admit, TypeOK, Run
<1>5. ASSUME NEW k \in Keys, Complete(k) PROVE TypeOK'
  BY <1>5 DEF Complete, TypeOK, Run
<1>6. ASSUME AdvanceEpoch \/ Tick \/ \E x \in Hosts : QuarantineHost(x) PROVE TypeOK'
  BY <1>6 DEF AdvanceEpoch, Tick, QuarantineHost, TypeOK
<1>7. ASSUME NEW c \in Checks, NEW h \in Handoffs, BeginCheck(c, h) PROVE TypeOK'
  BY <1>7 DEF BeginCheck, TypeOK, Check
<1>8. ASSUME NEW c \in Checks, ReadEpoch(c) \/ Decide(c) PROVE TypeOK'
  BY <1>8 DEF ReadEpoch, Decide, TypeOK, Check
<1>9. ASSUME NEW h \in Handoffs, NEW n \in 1 .. MaxSequence, RecordObservation(h, n)
      PROVE  TypeOK'
  BY <1>9 DEF RecordObservation, TypeOK
<1>10. CASE UNCHANGED vars
  BY <1>10 DEF vars, TypeOK
<1> QED BY <1>1, <1>2, <1>3, <1>4, <1>5, <1>6, <1>7, <1>8, <1>9, <1>10 DEF Next
-----------------------------------------------------------------------------
(* What has been accepted is final: the hand-off and its grant stay as they   *)
(* are, and epochs only rise.                                                  *)
LEMMA AcceptedStays ==
    ASSUME TypeOK, [Next]_vars, NEW g \in Handoffs, Accepted(g)
    PROVE  handoff'[g] = handoff[g] /\ grant'[g] = grant[g] /\ epoch' >= epoch
<1>1. epoch \in Nat
  BY DEF TypeOK
<1>2. ASSUME NEW h \in Handoffs, NEW i \in Intents, NEW p \in Passports,
             NEW e \in Expiries, NEW d \in Expiries, Propose(h, i, p, e, d)
      PROVE  handoff'[g] = handoff[g] /\ grant'[g] = grant[g] /\ epoch' >= epoch
  BY <1>1, <1>2 DEF Propose, TypeOK, Accepted
<1>3. ASSUME NEW h \in Handoffs, Reject(h) \/ Accept(h)
      PROVE  handoff'[g] = handoff[g] /\ grant'[g] = grant[g] /\ epoch' >= epoch
  BY <1>1, <1>3 DEF Reject, Accept, Pending, TypeOK, Accepted
<1>4. ASSUME \/ \E k \in Keys, h \in Handoffs, u \in Expiries : Admit(k, h, u)
             \/ \E k \in Keys : Complete(k)
             \/ AdvanceEpoch \/ Tick \/ \E x \in Hosts : QuarantineHost(x)
             \/ \E c \in Checks, h \in Handoffs : BeginCheck(c, h)
             \/ \E c \in Checks : ReadEpoch(c) \/ Decide(c)
             \/ \E h \in Handoffs, n \in 1 .. MaxSequence : RecordObservation(h, n)
             \/ UNCHANGED vars
      PROVE  handoff'[g] = handoff[g] /\ grant'[g] = grant[g] /\ epoch' >= epoch
  BY <1>1, <1>4 DEF Admit, Complete, AdvanceEpoch, Tick, QuarantineHost, BeginCheck,
                    ReadEpoch, Decide, RecordObservation, vars
<1> QED BY <1>2, <1>3, <1>4 DEF Next

LEMMA RunsStep == TypeOK /\ RunsDelegated /\ [Next]_vars => RunsDelegated'
<1> SUFFICES ASSUME TypeOK, RunsDelegated, [Next]_vars,
                    NEW k \in Keys, run'[k].via # NoHandoff
             PROVE  handoff'[run'[k].via].state = "accepted"
  BY DEF RunsDelegated, Accepted
<1>1. run[k].via \in Handoffs \union {NoHandoff}
  BY DEF TypeOK, Run
<1>2. ASSUME run'[k].via = run[k].via PROVE handoff'[run'[k].via].state = "accepted"
  BY <1>1, <1>2, AcceptedStays DEF RunsDelegated, Accepted
<1>3. ASSUME NEW l \in Keys, NEW h \in Handoffs, NEW u \in Expiries, Admit(l, h, u)
      PROVE  handoff'[run'[k].via].state = "accepted"
  BY <1>2, <1>3 DEF Admit, Accepted, TypeOK
<1>4. ASSUME NEW l \in Keys, Complete(l) PROVE run'[k].via = run[k].via
  BY <1>4 DEF Complete, TypeOK, Run
<1>5. CASE run' = run
  BY <1>2, <1>5
<1> QED BY <1>2, <1>3, <1>4, <1>5
     DEF Next, Propose, Reject, Accept, AdvanceEpoch, Tick, QuarantineHost, BeginCheck,
         ReadEpoch, Decide, RecordObservation, vars

LEMMA ChecksStep ==
    TypeOK /\ ChecksGranted /\ CurrentIsFresh /\ [Next]_vars
        => ChecksGranted' /\ CurrentIsFresh'
<1> SUFFICES ASSUME TypeOK, ChecksGranted, CurrentIsFresh, [Next]_vars, NEW c \in Checks
             PROVE  /\ check'[c].stage # "idle" =>
                        /\ check'[c].grant \in Handoffs
                        /\ handoff'[check'[c].grant].state = "accepted"
                        /\ check'[c].since <= epoch'
                    /\ check'[c].stage \in {"current", "admitted"} =>
                        grant'[check'[c].grant].epoch >= check'[c].since
  BY DEF ChecksGranted, CurrentIsFresh, Accepted
<1> DEFINE Good ==
        /\ check'[c].stage # "idle" =>
            /\ check'[c].grant \in Handoffs
            /\ handoff'[check'[c].grant].state = "accepted"
            /\ check'[c].since <= epoch'
        /\ check'[c].stage \in {"current", "admitted"} =>
            grant'[check'[c].grant].epoch >= check'[c].since
<1>1. /\ check[c].since \in Nat /\ epoch \in Nat /\ epoch' \in Nat
      /\ check[c] \in Check
      /\ \A h \in Handoffs : grant[h].epoch \in Nat
  BY TypeStep DEF TypeOK, Check, Grant
<1>2. check[c].stage # "idle" =>
        /\ check[c].grant \in Handoffs /\ Accepted(check[c].grant)
        /\ check[c].since <= epoch
  BY DEF ChecksGranted
<1>3. check[c].stage # "idle" =>
        /\ handoff'[check[c].grant].state = "accepted"
        /\ grant'[check[c].grant] = grant[check[c].grant]
        /\ check[c].since <= epoch'
  BY <1>1, <1>2, AcceptedStays DEF Accepted
<1>4. ASSUME check'[c] = check[c] PROVE Good
  BY <1>2, <1>3, <1>4 DEF CurrentIsFresh, Accepted
<1>5. ASSUME NEW h \in Handoffs, BeginCheck(c, h) PROVE Good
  <2>1. /\ check'[c] = [stage |-> "granted", grant |-> h, since |-> epoch]
        /\ epoch' = epoch /\ handoff'[h].state = "accepted"
    BY <1>5 DEF BeginCheck, TypeOK
  <2> QED BY <1>1, <2>1
<1>6. ASSUME ReadEpoch(c) PROVE Good
  <2>1. /\ check[c].stage = "granted" /\ check'[c].grant = check[c].grant
        /\ check'[c].since = check[c].since
        /\ check'[c].stage = IF SameEpoch(c) THEN "current" ELSE "refused"
    BY <1>1, <1>6 DEF ReadEpoch, TypeOK, Check
  <2>2. SameEpoch(c) => grant[check[c].grant].epoch >= check[c].since
    BY <1>1, <1>2, <2>1 DEF SameEpoch
  <2> QED BY <1>2, <1>3, <2>1, <2>2 DEF Accepted
<1>7. ASSUME Decide(c) PROVE Good
  <2>1. /\ check[c].stage = "current" /\ check'[c].grant = check[c].grant
        /\ check'[c].since = check[c].since
    BY <1>1, <1>7 DEF Decide, TypeOK, Check
  <2> QED BY <1>2, <1>3, <2>1 DEF Accepted, CurrentIsFresh
<1>8. ASSUME NEW d \in Checks, d # c,
             (\E h \in Handoffs : BeginCheck(d, h)) \/ ReadEpoch(d) \/ Decide(d)
      PROVE  check'[c] = check[c]
  BY <1>8 DEF BeginCheck, ReadEpoch, Decide, TypeOK
<1>9. CASE check' = check
  BY <1>4, <1>9
<1>10. CASE \E d \in Checks :
               (\E h \in Handoffs : BeginCheck(d, h)) \/ ReadEpoch(d) \/ Decide(d)
  BY <1>4, <1>5, <1>6, <1>7, <1>8, <1>10
<1> QED BY <1>9, <1>10
     DEF Next, Propose, Reject, Accept, Admit, Complete, AdvanceEpoch, Tick,
         QuarantineHost, RecordObservation, vars

LEMMA MovedStep == TypeOK /\ MovedOnce /\ [Next]_vars => MovedOnce'
<1> SUFFICES ASSUME TypeOK, MovedOnce, [Next]_vars, NEW g \in Handoffs, Accepted(g)'
             PROVE  \/ handoff'[g].target = Source(g)'
                    \/ /\ resp'[handoff'[g].intent].holder = handoff'[g].target
                       /\ resp'[handoff'[g].intent].via = g
  BY DEF MovedOnce
<1>1. /\ handoff[g].intent \in Intents /\ handoff[g].target \in Passports
      /\ Nobody \notin Passports
  BY AuthorityAssumption DEF TypeOK, Handoff
<1>2. Accepted(g) => handoff'[g] = handoff[g] /\ Source(g)' = Source(g)
  BY AcceptedStays DEF Source
<1>3. ASSUME resp' = resp, Accepted(g)
      PROVE  \/ handoff'[g].target = Source(g)'
             \/ /\ resp'[handoff'[g].intent].holder = handoff'[g].target
                /\ resp'[handoff'[g].intent].via = g
  BY <1>2, <1>3 DEF MovedOnce
<1>4. ASSUME NEW h \in Handoffs, NEW i \in Intents, NEW p \in Passports,
             NEW e \in Expiries, NEW d \in Expiries, Propose(h, i, p, e, d)
      PROVE  \/ handoff'[g].target = Source(g)'
             \/ /\ resp'[handoff'[g].intent].holder = handoff'[g].target
                /\ resp'[handoff'[g].intent].via = g
  <2>1. Accepted(g)
    BY <1>4 DEF Propose, Accepted, TypeOK
  <2>2. \A j \in Intents : resp[j].holder # Nobody => resp'[j] = resp[j]
    BY <1>4 DEF Propose, ResponsibilityRow, TypeOK
  <2> QED BY <1>1, <1>2, <2>1, <2>2 DEF MovedOnce
<1>5. ASSUME NEW h \in Handoffs, Reject(h) PROVE Accepted(g) /\ resp' = resp
  BY <1>5 DEF Reject, Accepted, TypeOK, Handoff
<1>6. ASSUME NEW h \in Handoffs, Accept(h)
      PROVE  \/ handoff'[g].target = Source(g)'
             \/ /\ resp'[handoff'[g].intent].holder = handoff'[g].target
                /\ resp'[handoff'[g].intent].via = g
  <2>1. CASE g = h
    BY <1>1, <1>6, <2>1 DEF Accept, TypeOK, Handoff, Responsibility
  <2>2. CASE g # h
    <3>1. Accepted(g)
      BY <1>6, <2>2 DEF Accept, Accepted, TypeOK
    <3>2. CASE handoff[g].intent = handoff[h].intent
      BY <1>2, <1>6, <3>1, <3>2 DEF Accept, SourceResponsible, Source, MovedOnce
    <3>3. CASE handoff[g].intent # handoff[h].intent
      BY <1>1, <1>2, <1>6, <3>1, <3>3 DEF Accept, MovedOnce, TypeOK
    <3> QED BY <3>2, <3>3
  <2> QED BY <2>1, <2>2
<1>7. ASSUME handoff' = handoff, resp' = resp
      PROVE  \/ handoff'[g].target = Source(g)'
             \/ /\ resp'[handoff'[g].intent].holder = handoff'[g].target
                /\ resp'[handoff'[g].intent].via = g
  BY <1>3, <1>7 DEF Accepted
<1> QED BY <1>3, <1>4, <1>5, <1>6, <1>7
     DEF Next, Admit, Complete, AdvanceEpoch, Tick, QuarantineHost, BeginCheck,
         ReadEpoch, Decide, RecordObservation, vars
-----------------------------------------------------------------------------
(* A hand-off is counted when it is accepted, and at no other step.           *)
LEMMA MovedByAccept ==
    ASSUME TypeOK, NEW h \in Handoffs, Accept(h), NEW i \in Intents
    PROVE  Moved(i)' = IF handoff[h].intent = i THEN Moved(i) \union {h} ELSE Moved(i)
<1>1. \A g \in Handoffs :
        /\ handoff'[g].intent = handoff[g].intent
        /\ handoff'[g].state = IF g = h THEN "accepted" ELSE handoff[g].state
  BY DEF Accept, TypeOK, Handoff
<1>2. handoff[h].state = "pending"
  BY DEF Accept, Pending
<1> QED BY <1>1, <1>2 DEF Moved, Accepted

LEMMA MovedByOthers ==
    ASSUME TypeOK, [Next]_vars, ~ \E h \in Handoffs : Accept(h), NEW i \in Intents
    PROVE  Moved(i)' = Moved(i)
<1>1. ASSUME NEW g \in Handoffs, Accepted(g)' PROVE Accepted(g)
  <2>1. ASSUME NEW h \in Handoffs, NEW j \in Intents, NEW p \in Passports,
               NEW e \in Expiries, NEW d \in Expiries, Propose(h, j, p, e, d)
        PROVE  Accepted(g)
    BY <1>1, <2>1 DEF Propose, Accepted, TypeOK
  <2>2. ASSUME NEW h \in Handoffs, Reject(h) PROVE Accepted(g)
    BY <1>1, <2>2 DEF Reject, Accepted, TypeOK, Handoff
  <2>3. CASE handoff' = handoff
    BY <1>1, <2>3 DEF Accepted
  <2> QED BY <2>1, <2>2, <2>3
       DEF Next, Admit, Complete, AdvanceEpoch, Tick, QuarantineHost, BeginCheck,
           ReadEpoch, Decide, RecordObservation, vars
<1>2. ASSUME NEW g \in Handoffs, Accepted(g)
      PROVE  Accepted(g)' /\ handoff'[g].intent = handoff[g].intent
  BY <1>2, AcceptedStays DEF Accepted
<1> QED BY <1>1, <1>2 DEF Moved

LEMMA TracedStep == TypeOK /\ MovesTraced /\ [Next]_vars => MovesTraced'
<1> SUFFICES ASSUME TypeOK, MovesTraced, [Next]_vars, NEW i \in Intents
             PROVE  /\ IsFiniteSet(Moved(i)') /\ resp'[i].revision = Cardinality(Moved(i)')
                    /\ Moved(i)' # {} =>
                          /\ resp'[i].via \in Moved(i)'
                          /\ resp'[i].holder = handoff'[resp'[i].via].target
                    /\ \A h \in Moved(i)' : h = resp'[i].via \/ handoff'[h].target = Owner[i]
  BY DEF MovesTraced
<1> DEFINE Traced ==
        /\ IsFiniteSet(Moved(i)') /\ resp'[i].revision = Cardinality(Moved(i)')
        /\ Moved(i)' # {} =>
              /\ resp'[i].via \in Moved(i)'
              /\ resp'[i].holder = handoff'[resp'[i].via].target
        /\ \A h \in Moved(i)' : h = resp'[i].via \/ handoff'[h].target = Owner[i]
<1>1. /\ IsFiniteSet(Moved(i)) /\ resp[i].revision = Cardinality(Moved(i))
      /\ Moved(i) # {} =>
            resp[i].via \in Moved(i) /\ resp[i].holder = handoff[resp[i].via].target
      /\ \A h \in Moved(i) : h = resp[i].via \/ handoff[h].target = Owner[i]
  BY DEF MovesTraced
<1>2. \A h \in Moved(i) : /\ h \in Handoffs /\ handoff'[h] = handoff[h]
                          /\ handoff[h].target \in Passports
  BY AcceptedStays DEF Moved, TypeOK, Handoff
<1>3. ASSUME Moved(i)' = Moved(i), resp'[i] = resp[i] PROVE Traced
  BY <1>1, <1>2, <1>3
<1>4. ASSUME NEW h \in Handoffs, Accept(h) PROVE Traced
  <2>1. CASE handoff[h].intent # i
    BY <1>3, <1>4, <2>1, MovedByAccept DEF Accept, TypeOK
  <2>2. CASE handoff[h].intent = i
    <3>1. Moved(i)' = Moved(i) \union {h} /\ h \notin Moved(i)
      BY <1>4, <2>2, MovedByAccept DEF Moved, Accepted, Accept, Pending
    <3>2. /\ resp'[i].holder = handoff[h].target /\ resp'[i].via = h
          /\ resp'[i].revision = resp[i].revision + 1
          /\ handoff'[h].target = handoff[h].target
      BY <1>4, <2>2 DEF Accept, TypeOK, Handoff, Responsibility
    <3>3. \A g \in Moved(i) : handoff[g].target = Owner[i]
      BY <1>1, <1>4, <2>2 DEF Accept, SourceResponsible, Source
    <3>4. IsFiniteSet(Moved(i)') /\ Cardinality(Moved(i)') = Cardinality(Moved(i)) + 1
      BY <1>1, <3>1, FS_AddElement
    <3> QED BY <1>1, <1>2, <3>1, <3>2, <3>3, <3>4
  <2> QED BY <2>1, <2>2
<1>5. ASSUME ~ \E h \in Handoffs : Accept(h) PROVE Moved(i)' = Moved(i)
  BY <1>5, MovedByOthers
<1>6. ASSUME NEW h \in Handoffs, NEW j \in Intents, NEW p \in Passports,
             NEW e \in Expiries, NEW d \in Expiries, Propose(h, j, p, e, d),
             Moved(i)' = Moved(i)
      PROVE  Traced
  <2>1. CASE resp[i].holder = Nobody
    <3>1. Moved(i) = {}
      BY <1>1, <1>2, <2>1, AuthorityAssumption
    <3>2. resp'[i].revision = 0 \/ resp'[i] = resp[i]
      BY <1>6, <2>1 DEF Propose, ResponsibilityRow, TypeOK
    <3> QED BY <1>1, <1>6, <3>1, <3>2, FS_EmptySet
  <2>2. CASE resp[i].holder # Nobody
    BY <1>3, <1>6, <2>2 DEF Propose, ResponsibilityRow, TypeOK
  <2> QED BY <2>1, <2>2
<1>7. CASE resp' = resp
  BY <1>3, <1>4, <1>5, <1>7
<1> HIDE DEF Traced
<1> QED BY <1>4, <1>5, <1>6, <1>7
     DEF Next, Reject, Admit, Complete, AdvanceEpoch, Tick, QuarantineHost, BeginCheck,
         ReadEpoch, Decide, RecordObservation, vars, Traced

LEMMA NestedStep ==
    TypeOK /\ RunsDelegated /\ AuthorityNested /\ [Next]_vars => AuthorityNested'
<1> SUFFICES ASSUME TypeOK, RunsDelegated, AuthorityNested, [Next]_vars,
                    NEW g \in Handoffs, handoff'[g].state # "absent"
             PROVE  /\ handoff'[g].delegated <= handoff'[g].expires
                    /\ handoff'[g].expires <= PassportEnd[Source(g)']
                    /\ handoff'[g].expires <= PassportEnd[handoff'[g].target]
                    /\ handoff'[g].state = "accepted" => grant'[g].ends <= handoff'[g].delegated
                    /\ \A k \in Keys : run'[k].via = g =>
                          /\ handoff'[g].state = "accepted"
                          /\ run'[k].until <= handoff'[g].delegated
  BY DEF AuthorityNested, Accepted
<1> DEFINE Bounded ==
        /\ handoff'[g].delegated <= handoff'[g].expires
        /\ handoff'[g].expires <= PassportEnd[Source(g)']
        /\ handoff'[g].expires <= PassportEnd[handoff'[g].target]
    Narrowed ==
        /\ handoff'[g].state = "accepted" => grant'[g].ends <= handoff'[g].delegated
        /\ \A k \in Keys : run'[k].via = g =>
              /\ handoff'[g].state = "accepted"
              /\ run'[k].until <= handoff'[g].delegated
<1>1. handoff[g] \in Handoff
  BY DEF TypeOK
<1>2. \A k \in Keys : run[k].via = g => Accepted(g)
  BY AuthorityAssumption DEF RunsDelegated
<1>3. ASSUME handoff'[g] = handoff[g], grant'[g] = grant[g], run' = run
      PROVE  Bounded /\ Narrowed
  BY <1>3 DEF AuthorityNested, Accepted, Source
<1>4. ASSUME NEW h \in Handoffs, NEW i \in Intents, NEW p \in Passports,
             NEW e \in Expiries, NEW d \in Expiries, Propose(h, i, p, e, d)
      PROVE  Bounded /\ Narrowed
  <2>1. CASE g = h
    <3>1. handoff'[g] = [state |-> "pending", intent |-> i, target |-> p,
                         expires |-> e, delegated |-> d]
      BY <1>4, <2>1 DEF Propose, TypeOK
    <3>2. run' = run /\ ~Accepted(g)
      BY <1>4, <2>1 DEF Propose, Accepted
    <3> QED BY <1>2, <1>4, <3>1, <3>2 DEF Propose, FitsPassports, Source
  <2>2. CASE g # h
    BY <1>3, <1>4, <2>2 DEF Propose, TypeOK
  <2> QED BY <2>1, <2>2
<1>5. ASSUME NEW h \in Handoffs, Reject(h) PROVE Bounded /\ Narrowed
  <2>1. CASE g = h
    <3>1. /\ handoff'[g].state = "rejected" /\ handoff'[g].intent = handoff[g].intent
          /\ handoff'[g].target = handoff[g].target
          /\ handoff'[g].expires = handoff[g].expires
          /\ handoff'[g].delegated = handoff[g].delegated
          /\ handoff[g].state = "pending" /\ run' = run
      BY <1>1, <1>5, <2>1 DEF Reject, Pending, TypeOK, Handoff
    <3> QED BY <1>2, <3>1 DEF AuthorityNested, Accepted, Source
  <2>2. CASE g # h
    BY <1>3, <1>5, <2>2 DEF Reject, TypeOK
  <2> QED BY <2>1, <2>2
<1>6. ASSUME NEW h \in Handoffs, Accept(h) PROVE Bounded /\ Narrowed
  <2>1. CASE g = h
    <3>1. /\ handoff'[g].intent = handoff[g].intent
          /\ handoff'[g].target = handoff[g].target
          /\ handoff'[g].expires = handoff[g].expires
          /\ handoff'[g].delegated = handoff[g].delegated
          /\ grant'[g].ends = GrantEnd(g)
          /\ handoff[g].state = "pending" /\ run' = run
      BY <1>1, <1>6, <2>1 DEF Accept, Pending, TypeOK, Handoff, Grant
    <3> QED BY <1>2, <3>1, GrantEndBounds DEF AuthorityNested, Accepted, Source
  <2>2. CASE g # h
    BY <1>3, <1>6, <2>2 DEF Accept, TypeOK
  <2> QED BY <2>1, <2>2
<1>7. ASSUME NEW l \in Keys, NEW h \in Handoffs, NEW u \in Expiries, Admit(l, h, u)
      PROVE  Bounded /\ Narrowed
  <2>1. PassportEnd[handoff[h].target] \in Nat /\ handoff[h].delegated \in Nat
    BY AuthorityAssumption DEF TypeOK, Handoff
  <2>2. u \in Nat /\ u <= handoff[h].delegated
    BY <1>7, <2>1, AuthorityAssumption, EarlierBounds DEF Admit, AdmissionCeiling, Earlier
  <2>3. /\ handoff' = handoff /\ grant' = grant /\ Accepted(h)
        /\ run' = [run EXCEPT ![l] = [status |-> "admitted", via |-> h, until |-> u]]
    BY <1>7 DEF Admit, Accepted
  <2>4. ASSUME NEW k \in Keys, run'[k].via = g
        PROVE  Accepted(g) /\ run'[k].until <= handoff[g].delegated
    BY <1>2, <2>2, <2>3, <2>4 DEF AuthorityNested, TypeOK
  <2> QED BY <2>3, <2>4 DEF AuthorityNested, Accepted, Source
<1>8. ASSUME NEW l \in Keys, Complete(l) PROVE Bounded /\ Narrowed
  <2>1. /\ handoff' = handoff /\ grant' = grant
        /\ \A k \in Keys : run'[k].via = run[k].via /\ run'[k].until = run[k].until
    BY <1>8 DEF Complete, TypeOK, Run
  <2> QED BY <2>1 DEF AuthorityNested, Accepted, Source
<1> QED BY <1>3, <1>4, <1>5, <1>6, <1>7, <1>8
     DEF Next, AdvanceEpoch, Tick, QuarantineHost, BeginCheck, ReadEpoch, Decide,
         RecordObservation, vars

LEMMA PrefixStep == RecordedIsPrefix /\ TypeOK /\ [Next]_vars => RecordedIsPrefix'
<1> SUFFICES ASSUME RecordedIsPrefix, TypeOK, [Next]_vars, NEW g \in Handoffs
             PROVE  \E n \in 0 .. MaxSequence : recorded'[g] = 1 .. n
  BY DEF RecordedIsPrefix
<1>1. PICK n \in 0 .. MaxSequence : recorded[g] = 1 .. n
  BY DEF RecordedIsPrefix
<1>2. CASE recorded'[g] = recorded[g]
  BY <1>1, <1>2
<1>3. ASSUME NEW m \in 1 .. MaxSequence, RecordObservation(g, m)
      PROVE  recorded'[g] = 1 .. m
  <2>1. m = n + 1
    <3>1. CASE m - 1 = 0
      BY <1>1, <1>3, <3>1, AuthorityAssumption DEF RecordObservation, Latest
    <3>2. CASE m - 1 # 0
      <4>1. m - 1 \in 1 .. n /\ \A l \in 1 .. n : l <= m - 1
        BY <1>1, <1>3, <3>2 DEF RecordObservation, Latest
      <4>2. n \in 1 .. n
        BY <4>1, AuthorityAssumption
      <4> QED BY <4>1, <4>2, AuthorityAssumption
    <3> QED BY <3>1, <3>2
  <2>2. recorded'[g] = (1 .. n) \union {m}
    BY <1>1, <1>3 DEF RecordObservation, TypeOK
  <2> QED BY <2>1, <2>2, AuthorityAssumption
<1>4. ASSUME NEW h \in Handoffs, NEW m \in 1 .. MaxSequence, RecordObservation(h, m), h # g
      PROVE  recorded'[g] = recorded[g]
  BY <1>4 DEF RecordObservation, TypeOK
<1>5. CASE \E h \in Handoffs, m \in 1 .. MaxSequence : RecordObservation(h, m)
  <2>1. PICK h \in Handoffs, m \in 1 .. MaxSequence : RecordObservation(h, m)
    BY <1>5
  <2>2. m \in 0 .. MaxSequence
    BY AuthorityAssumption
  <2> QED BY <1>2, <1>3, <1>4, <2>1, <2>2
<1> QED BY <1>2, <1>5
     DEF Next, Propose, Reject, Accept, Admit, Complete, AdvanceEpoch, Tick,
         QuarantineHost, BeginCheck, ReadEpoch, Decide, vars
-----------------------------------------------------------------------------
(* The strengthened invariant: how Runs, grants and calls of the gate hang on  *)
(* accepted hand-offs.                                                         *)
THEOREM AuthorityInvariant == Spec => []IInv
<1>1. IInv /\ [Next]_vars => IInv'
  BY TypeStep, RunsStep, ChecksStep, MovedStep, TracedStep, NestedStep, PrefixStep DEF IInv
<1> QED BY InitIInv, <1>1, PTL DEF Spec

(* Two Runs of one task that were admitted to different passports: one of     *)
(* them is the owner's.                                                        *)
LEMMA MovedOnceIsOneDelegate == TypeOK /\ RunsDelegated /\ MovedOnce => OneDelegate
<1> SUFFICES ASSUME TypeOK, RunsDelegated, MovedOnce, NEW k \in Keys, NEW l \in Keys,
                    run[k].via # NoHandoff, run[l].via # NoHandoff,
                    handoff[run[k].via].intent = handoff[run[l].via].intent
             PROVE  \/ handoff[run[k].via].target = handoff[run[l].via].target
                    \/ Source(run[k].via) \in
                           {handoff[run[k].via].target, handoff[run[l].via].target}
  BY DEF OneDelegate
<1>1. /\ run[k].via \in Handoffs /\ Accepted(run[k].via)
      /\ run[l].via \in Handoffs /\ Accepted(run[l].via)
  BY DEF TypeOK, Run, RunsDelegated
<1> QED BY <1>1 DEF MovedOnce, Source

(* Types, for every number of tasks, hand-offs, Runs and callers.            *)
THEOREM AuthorityTypes == Spec => []TypeOK
<1>1. IInv => TypeOK
  BY DEF IInv
<1> QED BY AuthorityInvariant, <1>1, PTL

(* A delegation, a grant and an envelope never outlive what they derive from. *)
THEOREM NestedAuthority == Spec => []AuthorityNested
<1>1. IInv => AuthorityNested
  BY DEF IInv
<1> QED BY AuthorityInvariant, <1>1, PTL

(* However many hand-offs of a task race, one delegate at most gets Runs.     *)
THEOREM SingleDelegate == Spec => []OneDelegate
<1>1. IInv => OneDelegate
  BY MovedOnceIsOneDelegate DEF IInv
<1> QED BY AuthorityInvariant, <1>1, PTL

(* The responsibility for a task names the hand-off that moved it last and     *)
(* counts those that did, all but the last of them the owner's to itself.       *)
THEOREM ResponsibilityTraces == Spec => []ResponsibilityTraced
<1>1. IInv => ResponsibilityTraced
  BY DEF IInv, MovesTraced, Moved, ResponsibilityTraced
<1> QED BY AuthorityInvariant, <1>1, PTL

(* A grant fenced before the gate was asked is not found admissible.          *)
THEOREM GateRefusesFenced == Spec => []FencedIsRefused
<1>1. IInv => FencedIsRefused
  BY DEF IInv, CurrentIsFresh, FencedIsRefused
<1> QED BY AuthorityInvariant, <1>1, PTL

(* What is recorded of a workload is a prefix of what its host saw.           *)
THEOREM RecordedPrefix == Spec => []RecordedIsPrefix
<1>1. IInv => RecordedIsPrefix
  BY DEF IInv
<1> QED BY AuthorityInvariant, <1>1, PTL

(* A delegated task never moves again.                                        *)
THEOREM StaysDelegated == Spec => DelegatedForGood
<1>1. ASSUME TypeOK, [Next]_vars, NEW i \in Intents, resp[i].holder \notin {Nobody, Owner[i]}
      PROVE  resp'[i] = resp[i]
  <2>1. ASSUME NEW h \in Handoffs, NEW j \in Intents, NEW p \in Passports,
               NEW e \in Expiries, NEW d \in Expiries, Propose(h, j, p, e, d)
        PROVE  resp'[i] = resp[i]
    BY <1>1, <2>1 DEF Propose, ResponsibilityRow, TypeOK
  <2>2. ASSUME NEW h \in Handoffs, Accept(h) PROVE resp'[i] = resp[i]
    BY <1>1, <2>2 DEF Accept, SourceResponsible, Source, TypeOK
  <2> QED BY <1>1, <2>1, <2>2
       DEF Next, Reject, Admit, Complete, AdvanceEpoch, Tick, QuarantineHost, BeginCheck,
           ReadEpoch, Decide, RecordObservation, vars
<1>2. TypeOK /\ [Next]_vars =>
        [\A i \in Intents : resp[i].holder \notin {Nobody, Owner[i]} => resp'[i] = resp[i]]_vars
  BY <1>1
<1> QED BY AuthorityTypes, <1>2, PTL DEF Spec, DelegatedForGood
=============================================================================
