---------------------------- MODULE EffectProofs ----------------------------
(***************************************************************************)
(* Governed corrections and their recovery, for any number of them, any items  *)
(* and quantities, and any bounds on permits and epochs.                        *)
(***************************************************************************)
EXTENDS EnvironmentRestore, FiniteSetTheorems, TLAPS

(* How far a dispatch has got, seen from its permit, its PUT and its receipt.  *)
Dispatched(e) ==
    /\ permit[e] = IF effect[e] = "none" THEN "none"
                   ELSE IF effect[e] = "admitted" THEN "issued" ELSE "consumed"
    /\ effect[e] \in {"none", "admitted"} => adapter[e] = "idle"
    /\ adapter[e] \in {"idle", "called"} => puts[e] = 0
    /\ adapter[e] = "credentialed" => puts[e] = 0 /\ brokered[e]
    /\ puts[e] <= 1 /\ (puts[e] = 1 => permit[e] = "consumed" /\ brokered[e])
    /\ puts[e] = 0 <=> write[e] = "none"
    /\ write[e] = "applied" <=> e \in receipts
    /\ adapter[e] = "succeeded" => e \in receipts

(* What the obligations of a Run add up to at each stage of its effect.        *)
Accounted(e) ==
    CASE effect[e] = "none" -> accountability[e] = "none"
      [] effect[e] \in {"admitted", "dispatching", "uncertain"} ->
            accountability[e] = "pending" /\ \A q \in Requirements : obligation[e][q] = "open"
      [] effect[e] = "succeeded" ->
            \/ /\ accountability[e] = "satisfied"
               /\ \A q \in Requirements : obligation[e][q] = "satisfied"
            \/ /\ accountability[e] = "pending"
               /\ \E q \in Requirements : obligation[e][q] = "open"
      [] OTHER ->
            accountability[e] = "breached" /\ \A q \in Requirements : obligation[e][q] = "breached"

Issued(e, n) == reconPermits[e][n].status = "issued"

Held(e, n) == reconPermits[e][n].brokered

Last(e) == Len(reconPermits[e])

(* A case, its one issued permit, and who reconciles it with which credential. *)
CaseWorked(e) ==
    /\ effect[e] = "uncertain" <=> case[e] \in {"open", "reconciling"}
    /\ effect[e] \in {"none", "admitted", "dispatching"} => case[e] = "none"
    /\ reconciler[e].stage # "idle" =>
          /\ case[e] = "reconciling"
          /\ Last(e) \in DOMAIN reconPermits[e] /\ reconciler[e].permit = Last(e)
    /\ reconciler[e].stage \in {"reading", "half_read", "observed"} => Held(e, Last(e))
    /\ case[e] = "open" => Last(e) \in DOMAIN reconPermits[e] /\ Issued(e, Last(e))
    /\ \A n \in DOMAIN reconPermits[e] :
          /\ Issued(e, n) => case[e] = "open" /\ n = Last(e)
          /\ Held(e, n) => ~Issued(e, n)

(* Nothing is applied and nothing will be.                                    *)
Closed(e) == e \notin receipts /\ ~MayStillWrite(e)

(* What a receipt lookup has found stays so, and what it has not found, if      *)
(* nothing could be written any more at that moment.                              *)
LookupStands(e) ==
    /\ reconciler[e].stage # "idle" /\ reconciler[e].found => e \in receipts
    /\ reconciler[e].stage \in {"called", "reading"} => ~reconciler[e].found
    /\ reconciler[e].stage \in {"half_read", "observed"} /\ ~reconciler[e].found /\ quiet[e]
          => Closed(e)
    /\ effect[e] = "failed" /\ quiet[e] => Closed(e)
    /\ effect[e] = "succeeded" => e \in receipts

IInv ==
    /\ TypeOK
    /\ \A e \in Effects : Dispatched(e) /\ Accounted(e) /\ CaseWorked(e) /\ LookupStands(e)

CorrectionStep(e) ==
    \/ AdmitCorrection(e) \/ ClaimDispatch(e)
    \/ Dispatch(e) \/ Conclude(e) \/ Reconcile(e) \/ ReconcileFails(e)
    \/ Revoke(e) \/ LapsePermit(e)
    \/ \E n \in DOMAIN reconPermits[e] :
          ClaimReconciliation(e, n) \/ LapseReconPermit(e, n)
-----------------------------------------------------------------------------
LEMMA ReadingFacts ==
    /\ NoReading \in Reading /\ NoReading.stage = "idle" /\ ~NoReading.found
    /\ NewPermit \in ReconPermit /\ NewPermit.status = "issued"
    /\ \A p \in ReconPermit : Consumed(p) \in ReconPermit /\ Consumed(p).status = "consumed"
  BY QuantityAssumption DEF NoReading, Reading, NewPermit, ReconPermit, Consumed

LEMMA ReadingMoves ==
    ASSUME NEW r \in Reading
    PROVE  /\ \A t \in {"reading", "half_read", "observed"} : [r EXCEPT !.stage = t] \in Reading
           /\ \A b \in BOOLEAN : [r EXCEPT !.found = b] \in Reading
           /\ \A n \in Quantities : [r EXCEPT !.quantity = n] \in Reading
  BY DEF Reading

LEMMA ReplaceInSequence ==
    ASSUME NEW S, NEW s \in Seq(S), NEW n \in DOMAIN s, NEW x \in S
    PROVE  /\ [s EXCEPT ![n] = x] \in Seq(S) /\ DOMAIN [s EXCEPT ![n] = x] = DOMAIN s
           /\ Len([s EXCEPT ![n] = x]) = Len(s)
           /\ [s EXCEPT ![n] = x][n] = x
           /\ \A m \in DOMAIN s : m # n => [s EXCEPT ![n] = x][m] = s[m]
           /\ s[n] \in S
  OBVIOUS

LEMMA AppendToSequence ==
    ASSUME NEW S, NEW s \in Seq(S), NEW x \in S
    PROVE  /\ Append(s, x) \in Seq(S) /\ DOMAIN Append(s, x) = DOMAIN s \union {Len(s) + 1}
           /\ Len(Append(s, x)) = Len(s) + 1
           /\ Append(s, x)[Len(s) + 1] = x /\ Len(s) + 1 \notin DOMAIN s
           /\ \A m \in DOMAIN s : Append(s, x)[m] = s[m]
  OBVIOUS

(* Who reconciles a case has a permit of it in hand.                           *)
ClaimsHeld ==
    \A e \in Effects :
        reconciler[e].stage # "idle" => reconciler[e].permit \in DOMAIN reconPermits[e]

LEMMA ClaimsAreHeld == IInv => TypeOK /\ ClaimsHeld
  BY DEF IInv, CaseWorked, ClaimsHeld

(* What a step with a Reconciliation Permit leaves of the case's permits.      *)
LEMMA PermitMoves ==
    ASSUME TypeOK, ClaimsHeld, NEW e \in Effects
    PROVE  /\ \A n \in DOMAIN reconPermits[e] :
                  ClaimReconciliation(e, n) =>
                      /\ reconPermits' \in [Effects -> Seq(ReconPermit)]
                      /\ DOMAIN reconPermits'[e] = DOMAIN reconPermits[e]
                      /\ ~Issued(e, n)'
                      /\ \A m \in DOMAIN reconPermits[e] : m # n => (Issued(e, m)' <=> Issued(e, m))
           /\ \A n \in DOMAIN reconPermits[e] :
                  LapseReconPermit(e, n) =>
                      /\ reconPermits' \in [Effects -> Seq(ReconPermit)]
                      /\ DOMAIN reconPermits'[e] = DOMAIN reconPermits[e]
                      /\ \A m \in DOMAIN reconPermits[e] : Issued(e, m)' <=> Issued(e, m)
           /\ DeliverReadCredential(e) =>
                  /\ reconPermits' \in [Effects -> Seq(ReconPermit)]
                  /\ DOMAIN reconPermits'[e] = DOMAIN reconPermits[e]
                  /\ \A m \in DOMAIN reconPermits[e] : Issued(e, m)' <=> Issued(e, m)
           /\ IssuePermit(e) =>
                  /\ reconPermits' \in [Effects -> Seq(ReconPermit)]
                  /\ DOMAIN reconPermits'[e] =
                        DOMAIN reconPermits[e] \union {Len(reconPermits[e]) + 1}
                  /\ reconPermits'[e][Len(reconPermits[e]) + 1].status = "issued"
                  /\ \A m \in DOMAIN reconPermits[e] : Issued(e, m)' <=> Issued(e, m)
<1> DEFINE s == reconPermits[e]
<1>1. reconPermits \in [Effects -> Seq(ReconPermit)] /\ s \in Seq(ReconPermit)
      /\ \A n \in DOMAIN s : s[n] \in ReconPermit
  BY DEF TypeOK
<1>2. ASSUME NEW n \in DOMAIN s, NEW x \in ReconPermit,
             reconPermits' = [reconPermits EXCEPT ![e] = [s EXCEPT ![n] = x]]
      PROVE  /\ reconPermits' \in [Effects -> Seq(ReconPermit)]
             /\ DOMAIN reconPermits'[e] = DOMAIN reconPermits[e]
             /\ Issued(e, n)' <=> x.status = "issued"
             /\ \A m \in DOMAIN reconPermits[e] : m # n => (Issued(e, m)' <=> Issued(e, m))
  <2> DEFINE t == [s EXCEPT ![n] = x]
  <2>1. /\ t \in Seq(ReconPermit) /\ DOMAIN t = DOMAIN s /\ t[n] = x
        /\ \A m \in DOMAIN s : m # n => t[m] = s[m]
    BY <1>1, ReplaceInSequence
  <2>2. reconPermits'[e] = t
    BY <1>1, <1>2
  <2> HIDE DEF t
  <2> QED BY <1>1, <1>2, <2>1, <2>2 DEF Issued
<1>3. ASSUME NEW n \in DOMAIN reconPermits[e], ClaimReconciliation(e, n)
      PROVE  reconPermits' = [reconPermits EXCEPT ![e] = [s EXCEPT ![n] = Consumed(s[n])]]
  BY <1>1, <1>3 DEF ClaimReconciliation
<1>4. ASSUME NEW n \in DOMAIN reconPermits[e], LapseReconPermit(e, n)
      PROVE  /\ reconPermits' =
                   [reconPermits EXCEPT ![e] = [s EXCEPT ![n] = [s[n] EXCEPT !.lapsed = TRUE]]]
             /\ [s[n] EXCEPT !.lapsed = TRUE] \in ReconPermit
             /\ [s[n] EXCEPT !.lapsed = TRUE].status = s[n].status
  BY <1>1, <1>4 DEF LapseReconPermit, ReconPermit
<1>5. ASSUME DeliverReadCredential(e)
      PROVE  LET n == reconciler[e].permit IN
             /\ n \in DOMAIN s
             /\ reconPermits' =
                   [reconPermits EXCEPT ![e] = [s EXCEPT ![n] = [s[n] EXCEPT !.brokered = TRUE]]]
             /\ [s[n] EXCEPT !.brokered = TRUE] \in ReconPermit
             /\ [s[n] EXCEPT !.brokered = TRUE].status = s[n].status
  <2>1. reconciler[e].permit \in DOMAIN s
    BY <1>5 DEF DeliverReadCredential, ClaimsHeld
  <2> QED BY <1>1, <1>5, <2>1 DEF DeliverReadCredential, ReconPermit
<1>6. ASSUME NEW n \in DOMAIN reconPermits[e], ClaimReconciliation(e, n)
      PROVE  /\ reconPermits' \in [Effects -> Seq(ReconPermit)]
             /\ DOMAIN reconPermits'[e] = DOMAIN reconPermits[e]
             /\ ~Issued(e, n)'
             /\ \A m \in DOMAIN reconPermits[e] : m # n => (Issued(e, m)' <=> Issued(e, m))
  BY <1>1, <1>2, <1>3, <1>6, ReadingFacts
<1>7. ASSUME NEW n \in DOMAIN reconPermits[e], LapseReconPermit(e, n)
      PROVE  /\ reconPermits' \in [Effects -> Seq(ReconPermit)]
             /\ DOMAIN reconPermits'[e] = DOMAIN reconPermits[e]
             /\ \A m \in DOMAIN reconPermits[e] : Issued(e, m)' <=> Issued(e, m)
  <2> DEFINE x == [s[n] EXCEPT !.lapsed = TRUE]
  <2>1. /\ reconPermits' = [reconPermits EXCEPT ![e] = [s EXCEPT ![n] = x]]
        /\ x \in ReconPermit /\ x.status = s[n].status
    BY <1>4, <1>7
  <2> HIDE DEF x
  <2>2. /\ reconPermits' \in [Effects -> Seq(ReconPermit)]
        /\ DOMAIN reconPermits'[e] = DOMAIN reconPermits[e]
        /\ Issued(e, n)' <=> x.status = "issued"
        /\ \A m \in DOMAIN reconPermits[e] : m # n => (Issued(e, m)' <=> Issued(e, m))
    BY <1>2, <2>1
  <2>3. Issued(e, n)' <=> Issued(e, n)
    BY <2>1, <2>2 DEF Issued
  <2> QED BY <2>2, <2>3
<1>8. ASSUME DeliverReadCredential(e)
      PROVE  /\ reconPermits' \in [Effects -> Seq(ReconPermit)]
             /\ DOMAIN reconPermits'[e] = DOMAIN reconPermits[e]
             /\ \A m \in DOMAIN reconPermits[e] : Issued(e, m)' <=> Issued(e, m)
  BY <1>2, <1>5, <1>8 DEF Issued
<1>9. ASSUME IssuePermit(e)
      PROVE  /\ reconPermits' \in [Effects -> Seq(ReconPermit)]
             /\ DOMAIN reconPermits'[e] = DOMAIN reconPermits[e] \union {Len(reconPermits[e]) + 1}
             /\ reconPermits'[e][Len(reconPermits[e]) + 1].status = "issued"
             /\ \A m \in DOMAIN reconPermits[e] : Issued(e, m)' <=> Issued(e, m)
  <2> DEFINE t == Append(s, NewPermit)
  <2>1. /\ t \in Seq(ReconPermit) /\ DOMAIN t = DOMAIN s \union {Len(s) + 1}
        /\ t[Len(s) + 1] = NewPermit /\ \A m \in DOMAIN s : t[m] = s[m]
    BY <1>1, AppendToSequence, ReadingFacts
  <2>2. reconPermits' = [reconPermits EXCEPT ![e] = t] /\ reconPermits'[e] = t
    BY <1>1, <1>9 DEF IssuePermit
  <2> HIDE DEF t
  <2>3. reconPermits' \in [Effects -> Seq(ReconPermit)]
    BY <1>1, <2>1, <2>2
  <2>4. reconPermits'[e][Len(s) + 1].status = "issued"
    BY <2>1, <2>2, ReadingFacts
  <2>5. \A m \in DOMAIN reconPermits[e] : Issued(e, m)' <=> Issued(e, m)
    BY <2>1, <2>2 DEF Issued
  <2> QED BY <2>1, <2>2, <2>3, <2>4, <2>5
<1> QED BY <1>6, <1>7, <1>8, <1>9

(* What the same steps leave of its length and of the credentials delivered.   *)
LEMMA CredentialMoves ==
    ASSUME TypeOK, ClaimsHeld, NEW e \in Effects
    PROVE  /\ \A n \in DOMAIN reconPermits[e] :
                  ClaimReconciliation(e, n) \/ LapseReconPermit(e, n) =>
                      /\ Last(e)' = Last(e)
                      /\ \A m \in DOMAIN reconPermits[e] : Held(e, m)' <=> Held(e, m)
           /\ DeliverReadCredential(e) =>
                  /\ Last(e)' = Last(e) /\ reconPermits'[e][reconciler[e].permit].brokered
                  /\ \A m \in DOMAIN reconPermits[e] :
                        m # reconciler[e].permit => (Held(e, m)' <=> Held(e, m))
           /\ IssuePermit(e) =>
                  /\ Last(e)' = Last(e) + 1 /\ ~reconPermits'[e][Last(e) + 1].brokered
                  /\ \A m \in DOMAIN reconPermits[e] : Held(e, m)' <=> Held(e, m)
<1> DEFINE s == reconPermits[e]
<1>1. reconPermits \in [Effects -> Seq(ReconPermit)] /\ s \in Seq(ReconPermit)
      /\ \A n \in DOMAIN s : s[n] \in ReconPermit
  BY DEF TypeOK
<1>2. ASSUME NEW n \in DOMAIN s, NEW x \in ReconPermit,
             reconPermits' = [reconPermits EXCEPT ![e] = [s EXCEPT ![n] = x]]
      PROVE  /\ Last(e)' = Last(e) /\ Held(e, n)' = x.brokered
             /\ \A m \in DOMAIN reconPermits[e] : m # n => (Held(e, m)' <=> Held(e, m))
  <2> DEFINE t == [s EXCEPT ![n] = x]
  <2>1. /\ Len(t) = Len(s) /\ t[n] = x
        /\ \A m \in DOMAIN s : m # n => t[m] = s[m]
    BY <1>1, ReplaceInSequence
  <2>2. reconPermits'[e] = t
    BY <1>1, <1>2
  <2> HIDE DEF t
  <2> QED BY <2>1, <2>2 DEF Held, Last
<1>3. ASSUME NEW n \in DOMAIN reconPermits[e],
             ClaimReconciliation(e, n) \/ LapseReconPermit(e, n)
      PROVE  /\ Last(e)' = Last(e)
             /\ \A m \in DOMAIN reconPermits[e] : Held(e, m)' <=> Held(e, m)
  <2>1. PICK x \in ReconPermit : /\ x.brokered = s[n].brokered
                                 /\ reconPermits' = [reconPermits EXCEPT ![e] = [s EXCEPT ![n] = x]]
    <3>1. CASE ClaimReconciliation(e, n)
      <4>1. reconPermits' = [reconPermits EXCEPT ![e] = [s EXCEPT ![n] = Consumed(s[n])]]
        BY <1>1, <3>1 DEF ClaimReconciliation
      <4>2. Consumed(s[n]) \in ReconPermit /\ Consumed(s[n]).brokered = s[n].brokered
        BY <1>1 DEF Consumed, ReconPermit
      <4> QED BY <4>1, <4>2
    <3>2. CASE LapseReconPermit(e, n)
      <4> DEFINE x == [s[n] EXCEPT !.lapsed = TRUE]
      <4>1. reconPermits' = [reconPermits EXCEPT ![e] = [s EXCEPT ![n] = x]]
        BY <1>1, <3>2 DEF LapseReconPermit
      <4>2. x \in ReconPermit /\ x.brokered = s[n].brokered
        BY <1>1 DEF ReconPermit
      <4> QED BY <4>1, <4>2
    <3> QED BY <1>3, <3>1, <3>2
  <2>2. Last(e)' = Last(e) /\ Held(e, n)' = Held(e, n)
        /\ \A m \in DOMAIN reconPermits[e] : m # n => (Held(e, m)' <=> Held(e, m))
    BY <1>2, <2>1 DEF Held
  <2> QED BY <2>2
<1>4. ASSUME DeliverReadCredential(e)
      PROVE  /\ Last(e)' = Last(e) /\ reconPermits'[e][reconciler[e].permit].brokered
             /\ \A m \in DOMAIN reconPermits[e] :
                   m # reconciler[e].permit => (Held(e, m)' <=> Held(e, m))
  <2> DEFINE n == reconciler[e].permit
             x == [s[n] EXCEPT !.brokered = TRUE]
  <2>1. n \in DOMAIN s
    BY <1>4 DEF DeliverReadCredential, ClaimsHeld
  <2>2. reconPermits' = [reconPermits EXCEPT ![e] = [s EXCEPT ![n] = x]]
    BY <1>1, <1>4, <2>1 DEF DeliverReadCredential
  <2>3. x \in ReconPermit /\ x.brokered
    BY <1>1, <2>1 DEF ReconPermit
  <2>4. PICK k, y : k = n /\ y = x
    OBVIOUS
  <2> HIDE DEF x, n
  <2>5. Last(e)' = Last(e) /\ Held(e, k)' = y.brokered
        /\ \A m \in DOMAIN reconPermits[e] : m # k => (Held(e, m)' <=> Held(e, m))
    BY <1>2, <2>1, <2>2, <2>3, <2>4
  <2>6. reconPermits'[e][k].brokered
    BY <2>3, <2>4, <2>5 DEF Held
  <2> QED BY <2>4, <2>5, <2>6 DEF n
<1>5. ASSUME IssuePermit(e)
      PROVE  /\ Last(e)' = Last(e) + 1 /\ ~reconPermits'[e][Last(e) + 1].brokered
             /\ \A m \in DOMAIN reconPermits[e] : Held(e, m)' <=> Held(e, m)
  <2> DEFINE t == Append(s, NewPermit)
  <2>1. /\ Len(t) = Len(s) + 1 /\ t[Len(s) + 1] = NewPermit
        /\ \A m \in DOMAIN s : t[m] = s[m]
    BY <1>1, AppendToSequence, ReadingFacts
  <2>2. reconPermits'[e] = t /\ ~NewPermit.brokered
    BY <1>1, <1>5 DEF IssuePermit, NewPermit
  <2> HIDE DEF t
  <2> QED BY <2>1, <2>2 DEF Held, Last
<1> QED BY <1>3, <1>4, <1>5
-----------------------------------------------------------------------------
LEMMA InitIInv == Init => IInv
<1> SUFFICES ASSUME Init PROVE IInv
  OBVIOUS
<1>1. TypeOK
  BY ReadingFacts, QuantityAssumption DEF Init, TypeOK, CaseStatus
<1>2. \A e \in Effects : Dispatched(e) /\ Accounted(e)
  BY DEF Init, Dispatched, Accounted
<1>3. \A e \in Effects : CaseWorked(e)
  BY ReadingFacts DEF Init, CaseWorked
<1>4. \A e \in Effects : LookupStands(e)
  BY ReadingFacts DEF Init, LookupStands
<1> QED BY <1>1, <1>2, <1>3, <1>4 DEF IInv

LEMMA StepCases ==
    [Next]_vars => \/ \E e \in Effects : CorrectionStep(e)
                   \/ AdvanceEpoch \/ KernelCrash \/ UNCHANGED vars
  BY DEF Next, CorrectionStep

LEMMA TypeStep == TypeOK /\ ClaimsHeld /\ [Next]_vars => TypeOK'
<1> SUFFICES ASSUME TypeOK, ClaimsHeld, [Next]_vars PROVE TypeOK'
  OBVIOUS
<1> USE DEF kernelVars, storefrontVars
<1>1. ASSUME NEW e \in Effects, AdmitCorrection(e) PROVE TypeOK'
  BY <1>1 DEF AdmitCorrection, TypeOK
<1>2. ASSUME NEW e \in Effects, ClaimDispatch(e) PROVE TypeOK'
  BY <1>2 DEF ClaimDispatch, TypeOK
<1>3. ASSUME NEW e \in Effects, DeliverCredential(e) PROVE TypeOK'
  BY <1>3 DEF DeliverCredential, TypeOK
<1>4. ASSUME NEW e \in Effects, SendWrite(e) PROVE TypeOK'
  BY <1>4 DEF SendWrite, TypeOK
<1>5. ASSUME NEW e \in Effects, AcceptWrite(e) \/ VerifyWrite(e) \/ AdapterFails(e)
      PROVE TypeOK'
  <2>1. ASSUME AcceptWrite(e) PROVE TypeOK'
    BY <2>1 DEF AcceptWrite, TypeOK
  <2>2. ASSUME VerifyWrite(e) PROVE TypeOK'
    BY <2>2 DEF VerifyWrite, TypeOK
  <2>3. ASSUME AdapterFails(e) PROVE TypeOK'
    BY <2>3 DEF AdapterFails, TypeOK
  <2> QED BY <1>5, <2>1, <2>2, <2>3
<1>6. ASSUME NEW e \in Effects, ApplyWrite(e) PROVE TypeOK'
  <2>1. inventory' \in [Subjects -> Quantities]
    BY <1>6, SubjectAssumption, QuantityAssumption DEF ApplyWrite, TypeOK
  <2> QED BY <1>6, <2>1 DEF ApplyWrite, TypeOK
<1>7. ASSUME NEW e \in Effects, FinalizeSuccess(e) PROVE TypeOK'
  BY <1>7 DEF FinalizeSuccess, TypeOK
<1>8. ASSUME NEW e \in Effects, OpenUncertainty(e) PROVE TypeOK'
  <2>1. reconPermits' \in [Effects -> Seq(ReconPermit)]
    BY <1>8, PermitMoves DEF OpenUncertainty
  <2> QED BY <1>8, <2>1 DEF OpenUncertainty, TypeOK, CaseStatus
<1>9. ASSUME NEW e \in Effects, NEW n \in DOMAIN reconPermits[e], ClaimReconciliation(e, n)
      PROVE TypeOK'
  <2>1. reconPermits' \in [Effects -> Seq(ReconPermit)]
    BY <1>9, PermitMoves
  <2>2. n \in Nat
    BY DEF TypeOK
  <2>3. reconciler' \in [Effects -> Reading]
    BY <1>9, <2>2, QuantityAssumption DEF ClaimReconciliation, TypeOK, Reading
  <2> QED BY <1>9, <2>1, <2>3 DEF ClaimReconciliation, TypeOK, CaseStatus
<1>10. ASSUME NEW e \in Effects, NEW n \in DOMAIN reconPermits[e], LapseReconPermit(e, n)
       PROVE TypeOK'
  <2>1. reconPermits' \in [Effects -> Seq(ReconPermit)]
    BY <1>10, PermitMoves
  <2> QED BY <1>10, <2>1 DEF LapseReconPermit, TypeOK
<1>11. ASSUME NEW e \in Effects, DeliverReadCredential(e) PROVE TypeOK'
  <2>1. reconPermits' \in [Effects -> Seq(ReconPermit)]
    BY <1>11, PermitMoves
  <2>2. reconciler' \in [Effects -> Reading]
    <3>1. reconciler' = [reconciler EXCEPT ![e] = [reconciler[e] EXCEPT !.stage = "reading"]]
      BY <1>11 DEF DeliverReadCredential, TypeOK
    <3>2. [reconciler[e] EXCEPT !.stage = "reading"] \in Reading
      BY ReadingMoves DEF TypeOK
    <3> QED BY <3>1, <3>2 DEF TypeOK
  <2> QED BY <1>11, <2>1, <2>2 DEF DeliverReadCredential, TypeOK
<1>12. ASSUME NEW e \in Effects, Observe(e) PROVE TypeOK'
  <2>1. inventory[Subject[e]] \in Quantities
    BY SubjectAssumption DEF TypeOK
  <2>2. reconciler' \in [Effects -> Reading]
    <3>1. ASSUME ReadReceipt(e) PROVE reconciler' \in [Effects -> Reading]
      <4> DEFINE half == [reconciler EXCEPT ![e].stage = "half_read"]
                 hit == e \in receipts
      <4>1. half \in [Effects -> Reading]
        BY ReadingMoves DEF TypeOK
      <4>2. reconciler' = [half EXCEPT ![e].found = hit]
        BY <3>1 DEF ReadReceipt, TypeOK
      <4>3. hit \in BOOLEAN
        OBVIOUS
      <4> HIDE DEF half, hit
      <4>4. [half[e] EXCEPT !.found = hit] \in Reading
        BY <4>1, <4>3, ReadingMoves
      <4> QED BY <4>1, <4>2, <4>4
    <3>2. ASSUME ReadInventory(e) PROVE reconciler' \in [Effects -> Reading]
      <4> DEFINE read == [reconciler EXCEPT ![e].stage = "observed"]
                 n == inventory[Subject[e]]
      <4>1. read \in [Effects -> Reading]
        BY ReadingMoves DEF TypeOK
      <4>2. reconciler' = [read EXCEPT ![e].quantity = n]
        BY <3>2 DEF ReadInventory, TypeOK
      <4> HIDE DEF read, n
      <4>4. [read[e] EXCEPT !.quantity = n] \in Reading
        BY <4>1, <2>1, ReadingMoves DEF n
      <4> QED BY <4>1, <4>2, <4>4
    <3> QED BY <1>12, <3>1, <3>2 DEF Observe
  <2>3. quiet' \in [Effects -> BOOLEAN]
    BY <1>12 DEF Observe, ReadReceipt, ReadInventory, TypeOK, MayStillWrite
  <2> QED BY <1>12, <2>2, <2>3 DEF Observe, TypeOK
<1>13. ASSUME NEW e \in Effects, ReopenReconciliation(e) PROVE TypeOK'
  <2>1. reconPermits' \in [Effects -> Seq(ReconPermit)]
    BY <1>13, PermitMoves DEF ReopenReconciliation
  <2> QED BY <1>13, <2>1, ReadingFacts DEF ReopenReconciliation, TypeOK, CaseStatus
<1>14. ASSUME NEW e \in Effects, ReconcileApplied(e) PROVE TypeOK'
  BY <1>14, ReadingFacts DEF ReconcileApplied, TypeOK, CaseStatus
<1>15. ASSUME NEW e \in Effects, ReconcileNotApplied(e) PROVE TypeOK'
  BY <1>15, ReadingFacts DEF ReconcileNotApplied, TypeOK, CaseStatus
<1>16. ASSUME NEW e \in Effects, Revoke(e) \/ LapsePermit(e) PROVE TypeOK'
  <2>1. ASSUME Revoke(e) PROVE TypeOK'
    BY <2>1 DEF Revoke, TypeOK
  <2>2. ASSUME LapsePermit(e) PROVE TypeOK'
    BY <2>2 DEF LapsePermit, TypeOK
  <2> QED BY <1>16, <2>1, <2>2
<1>17. CASE AdvanceEpoch
  BY <1>17 DEF AdvanceEpoch, TypeOK
<1>18. CASE KernelCrash
  BY <1>18, ReadingFacts DEF KernelCrash, TypeOK
<1>19. CASE UNCHANGED vars
  BY <1>19 DEF vars, TypeOK
<1>20. ASSUME NEW e \in Effects, DispatchFails(e) \/ ReconcileFails(e) PROVE TypeOK'
  <2>1. ASSUME DispatchFails(e) PROVE TypeOK'
    BY <2>1 DEF DispatchFails, TypeOK
  <2>2. ASSUME ReconcileFails(e) PROVE TypeOK'
    BY <2>2, ReadingFacts DEF ReconcileFails, TypeOK
  <2> QED BY <1>20, <2>1, <2>2
<1>21. ASSUME NEW e \in Effects, CorrectionStep(e) PROVE TypeOK'
  BY <1>1, <1>2, <1>3, <1>4, <1>5, <1>6, <1>7, <1>8, <1>9, <1>10, <1>11, <1>12, <1>13,
     <1>14, <1>15, <1>16, <1>20, <1>21 DEF CorrectionStep, Dispatch, Conclude, Reconcile
<1> QED BY <1>17, <1>18, <1>19, <1>21, StepCases

(* A step of one correction leaves the others alone.                          *)
Same(f) ==
    /\ effect'[f] = effect[f] /\ permit'[f] = permit[f] /\ brokered'[f] = brokered[f]
    /\ accountability'[f] = accountability[f] /\ obligation'[f] = obligation[f]
    /\ case'[f] = case[f] /\ reconPermits'[f] = reconPermits[f]
    /\ lapsed'[f] = lapsed[f] /\ adapter'[f] = adapter[f] /\ write'[f] = write[f]
    /\ reconciler'[f] = reconciler[f] /\ puts'[f] = puts[f] /\ quiet'[f] = quiet[f]
    /\ f \in receipts' <=> f \in receipts

LEMMA OthersSame ==
    ASSUME TypeOK, NEW e \in Effects, CorrectionStep(e), NEW f \in Effects, f # e
    PROVE  Same(f)
<1> USE DEF kernelVars, storefrontVars
<1>1. CASE AdmitCorrection(e)
  BY <1>1 DEF AdmitCorrection, TypeOK, Same
<1>2. CASE ClaimDispatch(e)
  BY <1>2 DEF ClaimDispatch, TypeOK, Same
<1>3. CASE DeliverCredential(e)
  BY <1>3 DEF DeliverCredential, TypeOK, Same
<1>4. CASE SendWrite(e)
  BY <1>4 DEF SendWrite, TypeOK, Same
<1>5. CASE AcceptWrite(e) \/ VerifyWrite(e) \/ AdapterFails(e)
  BY <1>5 DEF AcceptWrite, VerifyWrite, AdapterFails, TypeOK, Same
<1>6. CASE ApplyWrite(e)
  BY <1>6 DEF ApplyWrite, TypeOK, Same
<1>7. CASE FinalizeSuccess(e)
  BY <1>7 DEF FinalizeSuccess, TypeOK, Same
<1>8. CASE OpenUncertainty(e)
  BY <1>8 DEF OpenUncertainty, IssuePermit, TypeOK, Same
<1>9. ASSUME NEW n \in DOMAIN reconPermits[e],
             ClaimReconciliation(e, n) \/ LapseReconPermit(e, n)
      PROVE Same(f)
  BY <1>9 DEF ClaimReconciliation, LapseReconPermit, TypeOK, Same
<1>10. CASE DeliverReadCredential(e)
  BY <1>10 DEF DeliverReadCredential, TypeOK, Same
<1>11. CASE Observe(e)
  BY <1>11 DEF Observe, ReadReceipt, ReadInventory, TypeOK, Same
<1>12. CASE ReopenReconciliation(e)
  BY <1>12 DEF ReopenReconciliation, IssuePermit, TypeOK, Same
<1>13. CASE ReconcileApplied(e)
  BY <1>13 DEF ReconcileApplied, TypeOK, Same
<1>14. CASE ReconcileNotApplied(e)
  BY <1>14 DEF ReconcileNotApplied, TypeOK, Same
<1>15. CASE Revoke(e) \/ LapsePermit(e)
  BY <1>15 DEF Revoke, LapsePermit, TypeOK, Same
<1>16. CASE DispatchFails(e) \/ ReconcileFails(e)
  BY <1>16 DEF DispatchFails, ReconcileFails, TypeOK, Same
<1> QED BY <1>1, <1>2, <1>3, <1>4, <1>5, <1>6, <1>7, <1>8, <1>9, <1>10, <1>11, <1>12,
           <1>13, <1>14, <1>15, <1>16 DEF CorrectionStep, Dispatch, Conclude, Reconcile
-----------------------------------------------------------------------------
(* The step of a correction keeps how far its dispatch has got.              *)
LEMMA DispatchedStep ==
    ASSUME IInv, NEW e \in Effects, CorrectionStep(e)
    PROVE  Dispatched(e)'
<1> USE DEF kernelVars, storefrontVars
<1>0. TypeOK /\ Dispatched(e) /\ CaseWorked(e) /\ LookupStands(e)
  BY DEF IInv
<1>1. CASE AdmitCorrection(e)
  BY <1>0, <1>1 DEF AdmitCorrection, TypeOK, Dispatched
<1>2. CASE ClaimDispatch(e)
  BY <1>0, <1>2 DEF ClaimDispatch, Unspent, TypeOK, Dispatched
<1>3. CASE DeliverCredential(e)
  BY <1>0, <1>3 DEF DeliverCredential, TypeOK, Dispatched
<1>4. CASE SendWrite(e)
  BY <1>0, <1>4 DEF SendWrite, TypeOK, Dispatched
<1>5. CASE AcceptWrite(e)
  BY <1>0, <1>5 DEF AcceptWrite, TypeOK, Dispatched
<1>6. CASE ApplyWrite(e)
  BY <1>0, <1>6 DEF ApplyWrite, TypeOK, Dispatched
<1>7. CASE VerifyWrite(e)
  BY <1>0, <1>7 DEF VerifyWrite, WriteVerified, TypeOK, Dispatched
<1>8. CASE AdapterFails(e)
  BY <1>0, <1>8 DEF AdapterFails, TypeOK, Dispatched
<1>9. CASE FinalizeSuccess(e)
  BY <1>0, <1>9 DEF FinalizeSuccess, Dispatching, TypeOK, Dispatched
<1>10. CASE OpenUncertainty(e)
  BY <1>0, <1>10 DEF OpenUncertainty, Dispatching, TypeOK, Dispatched
<1>11. CASE ReconcileApplied(e) \/ ReconcileNotApplied(e)
  <2>1. effect[e] = "uncertain"
    BY <1>0, <1>11 DEF ReconcileApplied, ReconcileNotApplied, Reconciling, CaseWorked
  <2> QED BY <1>0, <1>11, <2>1 DEF ReconcileApplied, ReconcileNotApplied, TypeOK, Dispatched
<1>12. CASE DeliverReadCredential(e) \/ Observe(e) \/ ReopenReconciliation(e)
            \/ Revoke(e) \/ LapsePermit(e) \/ DispatchFails(e) \/ ReconcileFails(e)
  BY <1>0, <1>12 DEF DeliverReadCredential, Observe, ReopenReconciliation, Revoke,
                     LapsePermit, DispatchFails, ReconcileFails, Dispatched
<1>13. ASSUME NEW n \in DOMAIN reconPermits[e],
              ClaimReconciliation(e, n) \/ LapseReconPermit(e, n)
       PROVE Dispatched(e)'
  BY <1>0, <1>13 DEF ClaimReconciliation, LapseReconPermit, Dispatched
<1> QED BY <1>1, <1>2, <1>3, <1>4, <1>5, <1>6, <1>7, <1>8, <1>9, <1>10, <1>11, <1>12,
           <1>13 DEF CorrectionStep, Dispatch, Conclude, Reconcile

(* The step of a correction keeps what its obligations add up to.            *)
LEMMA AccountedStep ==
    ASSUME IInv, NEW e \in Effects, CorrectionStep(e)
    PROVE  Accounted(e)'
<1> USE DEF kernelVars, storefrontVars
<1>0. TypeOK /\ Accounted(e) /\ CaseWorked(e)
  BY DEF IInv
<1>1. CASE AdmitCorrection(e)
  BY <1>0, <1>1 DEF AdmitCorrection, TypeOK, Accounted
<1>2. CASE ClaimDispatch(e)
  BY <1>0, <1>2 DEF ClaimDispatch, Unspent, TypeOK, Accounted
<1>3. CASE FinalizeSuccess(e)
  BY <1>0, <1>3 DEF FinalizeSuccess, TypeOK, Accounted
<1>4. CASE OpenUncertainty(e)
  BY <1>0, <1>4 DEF OpenUncertainty, Dispatching, TypeOK, Accounted
<1>5. ASSUME Reconciling(e)
      PROVE  \A q \in Requirements : obligation[e][q] = "open"
  BY <1>0, <1>5 DEF Reconciling, CaseWorked, Accounted
<1>6. CASE ReconcileApplied(e)
  <2>1. \A q \in Requirements :
            obligation'[e][q] = IF Evidenced(e, q) THEN "satisfied" ELSE "open"
    BY <1>0, <1>5, <1>6 DEF ReconcileApplied, TypeOK
  <2>2. effect'[e] = "succeeded"
        /\ accountability'[e] = IF AllEvidenced(e) THEN "satisfied" ELSE "pending"
    BY <1>0, <1>6 DEF ReconcileApplied, TypeOK
  <2> QED BY <2>1, <2>2 DEF Accounted, AllEvidenced
<1>7. CASE ReconcileNotApplied(e)
  <2>1. \A q \in Requirements : obligation'[e][q] = "breached"
    BY <1>0, <1>5, <1>7 DEF ReconcileNotApplied, TypeOK
  <2>2. effect'[e] = "failed" /\ accountability'[e] = "breached"
    BY <1>0, <1>7 DEF ReconcileNotApplied, TypeOK
  <2> QED BY <2>1, <2>2 DEF Accounted
<1>8. CASE Dispatch(e)
  BY <1>0, <1>8 DEF Dispatch, DeliverCredential, SendWrite, AcceptWrite, ApplyWrite,
                    VerifyWrite, AdapterFails, Accounted
<1>9. CASE DeliverReadCredential(e) \/ Observe(e) \/ ReopenReconciliation(e)
            \/ Revoke(e) \/ LapsePermit(e) \/ DispatchFails(e) \/ ReconcileFails(e)
  BY <1>0, <1>9 DEF DeliverReadCredential, Observe, ReopenReconciliation, Revoke,
                    LapsePermit, DispatchFails, ReconcileFails, Accounted
<1>10. ASSUME NEW n \in DOMAIN reconPermits[e],
              ClaimReconciliation(e, n) \/ LapseReconPermit(e, n)
       PROVE Accounted(e)'
  BY <1>0, <1>10 DEF ClaimReconciliation, LapseReconPermit, Accounted
<1> QED BY <1>1, <1>2, <1>3, <1>4, <1>6, <1>7, <1>8, <1>9, <1>10
        DEF CorrectionStep, Conclude, Reconcile

(* The step of a correction keeps its case and its permits in agreement.     *)
LEMMA CaseWorkedStep ==
    ASSUME IInv, NEW e \in Effects, CorrectionStep(e)
    PROVE  CaseWorked(e)'
<1> USE DEF kernelVars, storefrontVars
<1> DEFINE Read == {"reading", "half_read", "observed"}
<1>0. TypeOK /\ ClaimsHeld /\ CaseWorked(e)
  BY ClaimsAreHeld DEF IInv
<1>a. /\ reconPermits[e] \in Seq(ReconPermit) /\ Last(e) + 1 \in Nat
      /\ Last(e) + 1 \notin DOMAIN reconPermits[e]
  BY <1>0 DEF TypeOK, Last
<1>b. ASSUME UNCHANGED <<effect, case, reconPermits, reconciler>> PROVE CaseWorked(e)'
  BY <1>0, <1>b DEF CaseWorked, Issued, Held, Last
<1>1. CASE AdmitCorrection(e)
  BY <1>0, <1>1 DEF AdmitCorrection, TypeOK, CaseWorked, Issued, Held, Last
<1>2. CASE ClaimDispatch(e)
  BY <1>0, <1>2 DEF ClaimDispatch, Unspent, TypeOK, CaseWorked, Issued, Held, Last
<1>3. CASE Dispatch(e) \/ DispatchFails(e)
  BY <1>b, <1>3 DEF Dispatch, DeliverCredential, SendWrite, AcceptWrite, ApplyWrite,
                    VerifyWrite, AdapterFails, DispatchFails
<1>4. CASE FinalizeSuccess(e)
  BY <1>0, <1>4 DEF FinalizeSuccess, Dispatching, TypeOK, CaseWorked, Issued, Held, Last
<1>5. ASSUME IssuePermit(e), case[e] # "open", effect'[e] = "uncertain",
             case'[e] = "open", reconciler'[e].stage = "idle"
      PROVE  CaseWorked(e)'
  <2>1. PICK k : k = Last(e) + 1
    OBVIOUS
  <2>2. \A m \in DOMAIN reconPermits[e] : ~Issued(e, m)
    BY <1>0, <1>5 DEF CaseWorked
  <2>3. /\ DOMAIN reconPermits'[e] = DOMAIN reconPermits[e] \union {k}
        /\ reconPermits'[e][k].status = "issued"
        /\ \A m \in DOMAIN reconPermits[e] : Issued(e, m)' <=> Issued(e, m)
    BY <1>0, <1>5, <2>1, PermitMoves DEF Last
  <2>4. Issued(e, k)'
    BY <2>3 DEF Issued
  <2>5. /\ Last(e)' = k /\ ~Held(e, k)'
        /\ \A m \in DOMAIN reconPermits[e] : Held(e, m)' <=> Held(e, m)
    <3>1. Last(e)' = Last(e) + 1 /\ ~reconPermits'[e][Last(e) + 1].brokered
      BY <1>0, <1>5, CredentialMoves
    <3>2. \A m \in DOMAIN reconPermits[e] : Held(e, m)' <=> Held(e, m)
      BY <1>0, <1>5, CredentialMoves
    <3>3. ~Held(e, k)'
      BY <2>1, <3>1 DEF Held
    <3> QED BY <2>1, <3>1, <3>2, <3>3
  <2>6. \A m \in DOMAIN reconPermits'[e] :
            /\ Issued(e, m)' => m = Last(e)'
            /\ Held(e, m)' => ~Issued(e, m)'
    BY <1>0, <2>2, <2>3, <2>5
  <2> QED BY <1>5, <2>3, <2>4, <2>5, <2>6 DEF CaseWorked
<1>6. CASE OpenUncertainty(e)
  <2>1. /\ effect'[e] = "uncertain" /\ case'[e] = "open" /\ case[e] = "none"
        /\ reconciler[e].stage = "idle" /\ reconciler' = reconciler
    BY <1>0, <1>6 DEF OpenUncertainty, Dispatching, TypeOK, CaseWorked
  <2> QED BY <1>5, <1>6, <2>1 DEF OpenUncertainty
<1>7. ASSUME NEW n \in DOMAIN reconPermits[e], ClaimReconciliation(e, n)
      PROVE  CaseWorked(e)'
  <2>1. /\ effect'[e] = "uncertain" /\ case'[e] = "reconciling"
        /\ reconciler'[e].permit = n /\ reconciler'[e].stage = "called"
    BY <1>0, <1>7 DEF ClaimReconciliation, TypeOK, CaseWorked
  <2>2. Issued(e, n) /\ n = Last(e)
    BY <1>0, <1>7 DEF ClaimReconciliation, Issued, CaseWorked
  <2>3. /\ DOMAIN reconPermits'[e] = DOMAIN reconPermits[e] /\ Last(e)' = Last(e)
        /\ \A m \in DOMAIN reconPermits[e] : ~Issued(e, m)'
    <3>1. \A m \in DOMAIN reconPermits[e] : Issued(e, m) => m = n
      BY <1>0, <2>2 DEF CaseWorked
    <3>2. /\ DOMAIN reconPermits'[e] = DOMAIN reconPermits[e] /\ ~Issued(e, n)'
          /\ \A m \in DOMAIN reconPermits[e] : m # n => (Issued(e, m)' <=> Issued(e, m))
      BY <1>0, <1>7, PermitMoves
    <3>3. Last(e)' = Last(e)
      BY <1>0, <1>7, CredentialMoves
    <3> QED BY <3>1, <3>2, <3>3
  <2> QED BY <2>1, <2>2, <2>3 DEF CaseWorked
<1>8. ASSUME /\ effect'[e] = effect[e] /\ case'[e] = case[e]
             /\ reconciler'[e].stage # "idle" => reconciler[e].stage # "idle"
             /\ reconciler'[e].permit = reconciler[e].permit
             /\ reconciler'[e].stage \in Read =>
                   reconciler[e].stage \in Read \/ Held(e, Last(e))'
             /\ DOMAIN reconPermits'[e] = DOMAIN reconPermits[e] /\ Last(e)' = Last(e)
             /\ \A m \in DOMAIN reconPermits[e] : Issued(e, m)' <=> Issued(e, m)
             /\ \A m \in DOMAIN reconPermits[e] : Held(e, m) => Held(e, m)'
             /\ \A m \in DOMAIN reconPermits[e] : Held(e, m)' => Held(e, m) \/ ~Issued(e, m)
      PROVE  CaseWorked(e)'
  <2>1. reconciler'[e].stage \in Read => Held(e, Last(e))'
    <3> SUFFICES ASSUME reconciler[e].stage \in Read PROVE Held(e, Last(e))'
      BY <1>8
    <3>1. Last(e) \in DOMAIN reconPermits[e] /\ Held(e, Last(e))
      BY <1>0 DEF CaseWorked
    <3>2. PICK k : k = Last(e)
      OBVIOUS
    <3>3. Held(e, k)'
      BY <1>8, <3>1, <3>2
    <3> QED BY <1>8, <3>2, <3>3 DEF Held
  <2>2. case[e] = "open" => Last(e)' \in DOMAIN reconPermits'[e] /\ Issued(e, Last(e))'
    <3> SUFFICES ASSUME case[e] = "open"
                 PROVE  Last(e)' \in DOMAIN reconPermits'[e] /\ Issued(e, Last(e))'
      OBVIOUS
    <3>1. Last(e) \in DOMAIN reconPermits[e] /\ Issued(e, Last(e))
      BY <1>0 DEF CaseWorked
    <3>2. PICK k : k = Last(e)
      OBVIOUS
    <3>3. Issued(e, k)'
      BY <1>8, <3>1, <3>2
    <3> QED BY <1>8, <3>1, <3>2, <3>3 DEF Issued
  <2> QED BY <1>0, <1>8, <2>1, <2>2 DEF CaseWorked
<1>9. ASSUME NEW n \in DOMAIN reconPermits[e], LapseReconPermit(e, n)
      PROVE  CaseWorked(e)'
  <2>1. UNCHANGED <<effect, case, reconciler>>
    BY <1>9 DEF LapseReconPermit
  <2>2. /\ DOMAIN reconPermits'[e] = DOMAIN reconPermits[e]
        /\ \A m \in DOMAIN reconPermits[e] : Issued(e, m)' <=> Issued(e, m)
    BY <1>0, <1>9, PermitMoves
  <2>3. /\ Last(e)' = Last(e)
        /\ \A m \in DOMAIN reconPermits[e] : Held(e, m)' <=> Held(e, m)
    BY <1>0, <1>9, CredentialMoves
  <2> QED BY <1>8, <2>1, <2>2, <2>3
<1>10. CASE DeliverReadCredential(e)
  <2>1. /\ UNCHANGED <<effect, case>> /\ reconciler[e].stage # "idle"
        /\ reconciler'[e].permit = reconciler[e].permit
        /\ reconciler'[e].stage = "reading"
    BY <1>0, <1>10 DEF DeliverReadCredential, TypeOK, Reading
  <2>2. /\ DOMAIN reconPermits'[e] = DOMAIN reconPermits[e]
        /\ \A m \in DOMAIN reconPermits[e] : Issued(e, m)' <=> Issued(e, m)
    BY <1>0, <1>10, PermitMoves
  <2>3. PICK k : k = reconciler[e].permit
    OBVIOUS
  <2>4. k = Last(e) /\ k \in DOMAIN reconPermits[e] /\ ~Issued(e, k)
    BY <1>0, <2>1, <2>3 DEF CaseWorked
  <2>5. /\ Last(e)' = Last(e) /\ reconPermits'[e][reconciler[e].permit].brokered
        /\ \A m \in DOMAIN reconPermits[e] : m # k => (Held(e, m)' <=> Held(e, m))
    BY <1>0, <1>10, <2>3, CredentialMoves
  <2>6. Held(e, k)' /\ Held(e, Last(e))'
    BY <2>1, <2>3, <2>4, <2>5 DEF Held
  <2>7. \A m \in DOMAIN reconPermits[e] : Held(e, m) => Held(e, m)'
    BY <2>5, <2>6
  <2>8. \A m \in DOMAIN reconPermits[e] : Held(e, m)' => Held(e, m) \/ ~Issued(e, m)
    BY <2>4, <2>5
  <2> QED BY <1>8, <2>1, <2>2, <2>5, <2>6, <2>7, <2>8
<1>11. CASE Observe(e)
  <2>1. /\ UNCHANGED <<effect, case, reconPermits>> /\ reconciler[e].stage \in Read
    BY <1>11 DEF Observe
  <2>2. reconciler'[e].permit = reconciler[e].permit
    BY <1>0, <1>11 DEF Observe, ReadReceipt, ReadInventory, TypeOK, Reading
  <2>3. /\ Last(e)' = Last(e)
        /\ \A m \in DOMAIN reconPermits[e] :
              (Issued(e, m)' <=> Issued(e, m)) /\ (Held(e, m)' <=> Held(e, m))
    BY <2>1 DEF Issued, Held, Last
  <2> QED BY <1>8, <2>1, <2>2, <2>3
<1>12. CASE ReopenReconciliation(e)
  <2>1. /\ effect'[e] = "uncertain" /\ case'[e] = "open" /\ case[e] = "reconciling"
        /\ reconciler'[e].stage = "idle"
    BY <1>0, <1>12, ReadingFacts
       DEF ReopenReconciliation, Reconciling, TypeOK, CaseWorked
  <2> QED BY <1>5, <1>12, <2>1 DEF ReopenReconciliation
<1>13. CASE ReconcileApplied(e)
  <2>1. /\ effect'[e] = "succeeded" /\ reconciler'[e].stage = "idle"
        /\ case'[e] \in {"resolved_applied", "open_applied_accountability"}
        /\ reconPermits' = reconPermits /\ case[e] = "reconciling"
    BY <1>0, <1>13, ReadingFacts DEF ReconcileApplied, Reconciling, TypeOK
  <2> QED BY <1>0, <2>1 DEF CaseWorked, Issued, Held, Last
<1>14. CASE ReconcileNotApplied(e)
  <2>1. /\ effect'[e] = "failed" /\ reconciler'[e].stage = "idle"
        /\ case'[e] = "open_not_applied"
        /\ reconPermits' = reconPermits /\ case[e] = "reconciling"
    BY <1>0, <1>14, ReadingFacts DEF ReconcileNotApplied, Reconciling, TypeOK
  <2> QED BY <1>0, <2>1 DEF CaseWorked, Issued, Held, Last
<1>15. CASE Revoke(e) \/ LapsePermit(e)
  BY <1>b, <1>15 DEF Revoke, LapsePermit
<1>16. CASE ReconcileFails(e)
  <2>1. /\ UNCHANGED <<effect, case, reconPermits>> /\ reconciler'[e].stage = "idle"
    BY <1>0, <1>16, ReadingFacts DEF ReconcileFails, TypeOK
  <2> QED BY <1>0, <2>1 DEF CaseWorked, Issued, Held, Last
<1> QED BY <1>1, <1>2, <1>3, <1>4, <1>6, <1>7, <1>9, <1>10, <1>11, <1>12, <1>13, <1>14,
           <1>15, <1>16 DEF CorrectionStep, Conclude, Reconcile

(* What the expired credential has closed stays closed.                      *)
LEMMA ClosedStays ==
    ASSUME IInv, NEW e \in Effects, CorrectionStep(e), Closed(e),
           effect[e] \notin {"none", "admitted"}
    PROVE  Closed(e)'
<1> USE DEF kernelVars, storefrontVars
<1>0. TypeOK
  BY DEF IInv
<1>1. CASE UNCHANGED <<write, lapsed, adapter, receipts>>
  BY <1>1 DEF Closed, MayStillWrite
<1>2. CASE DeliverCredential(e)
  BY <1>0, <1>2 DEF DeliverCredential, Closed, MayStillWrite, TypeOK
<1>3. CASE SendWrite(e)
  BY <1>0, <1>3 DEF SendWrite, Closed, MayStillWrite, TypeOK
<1>4. CASE AcceptWrite(e)
  BY <1>0, <1>4 DEF AcceptWrite, CredentialValid, Closed, MayStillWrite, TypeOK
<1>5. CASE ApplyWrite(e)
  BY <1>5 DEF ApplyWrite, Closed, MayStillWrite
<1>6. CASE VerifyWrite(e)
  BY <1>0, <1>6 DEF VerifyWrite, Closed, MayStillWrite, TypeOK
<1>7. CASE AdapterFails(e)
  BY <1>0, <1>7 DEF AdapterFails, Closed, MayStillWrite, TypeOK
<1>8. CASE LapsePermit(e)
  BY <1>0, <1>8 DEF LapsePermit, Closed, MayStillWrite, TypeOK
<1>9. CASE Conclude(e) \/ Reconcile(e) \/ ReconcileFails(e) \/ Revoke(e)
  BY <1>1, <1>9 DEF Conclude, FinalizeSuccess, OpenUncertainty, DispatchFails, Reconcile,
                    DeliverReadCredential, Observe, ReopenReconciliation, ReconcileApplied,
                    ReconcileNotApplied, ReconcileFails, Revoke
<1>10. ASSUME NEW n \in DOMAIN reconPermits[e],
              ClaimReconciliation(e, n) \/ LapseReconPermit(e, n)
       PROVE Closed(e)'
  BY <1>1, <1>10 DEF ClaimReconciliation, LapseReconPermit
<1>11. ~AdmitCorrection(e) /\ ~ClaimDispatch(e)
  BY DEF AdmitCorrection, ClaimDispatch, Unspent
<1> QED BY <1>2, <1>3, <1>4, <1>5, <1>6, <1>7, <1>8, <1>9, <1>10, <1>11
        DEF CorrectionStep, Dispatch

(* The step of a correction keeps what its last lookup has found.            *)
LEMMA LookupStandsStep ==
    ASSUME IInv, NEW e \in Effects, CorrectionStep(e)
    PROVE  LookupStands(e)'
<1> USE DEF kernelVars, storefrontVars
<1>0. TypeOK /\ Dispatched(e) /\ CaseWorked(e) /\ LookupStands(e)
  BY DEF IInv
<1>1. effect[e] \notin {"none", "admitted"} /\ Closed(e) => Closed(e)'
  BY ClosedStays
<1>2. e \in receipts => e \in receipts'
  BY DEF CorrectionStep, AdmitCorrection, ClaimDispatch, Dispatch, DeliverCredential, SendWrite,
         AcceptWrite, ApplyWrite, VerifyWrite, AdapterFails, Conclude, FinalizeSuccess,
         OpenUncertainty, DispatchFails, ReconcileFails, Reconcile,
         DeliverReadCredential, Observe, ReopenReconciliation,
         ReconcileApplied, ReconcileNotApplied, Revoke, LapsePermit, ClaimReconciliation,
         LapseReconPermit
<1>3. reconciler[e].stage # "idle" => effect[e] = "uncertain"
  BY <1>0 DEF CaseWorked
(* The reading and the verdicts do not move.                                 *)
<1>4. ASSUME reconciler'[e] = reconciler[e], quiet' = quiet,
             \/ effect'[e] = effect[e]
             \/ effect'[e] \in {"admitted", "dispatching", "uncertain"}
             \/ effect'[e] = "succeeded" /\ e \in receipts
      PROVE  LookupStands(e)'
  BY <1>0, <1>1, <1>2, <1>3, <1>4 DEF LookupStands
<1>5. CASE AdmitCorrection(e)
  BY <1>0, <1>4, <1>5 DEF AdmitCorrection, TypeOK
<1>6. CASE ClaimDispatch(e)
  BY <1>0, <1>4, <1>6 DEF ClaimDispatch, TypeOK
<1>7. CASE Dispatch(e)
  BY <1>4, <1>7 DEF Dispatch, DeliverCredential, SendWrite, AcceptWrite, ApplyWrite,
                    VerifyWrite, AdapterFails
<1>8. CASE FinalizeSuccess(e)
  BY <1>0, <1>4, <1>8 DEF FinalizeSuccess, Dispatched, TypeOK
<1>9. CASE OpenUncertainty(e)
  BY <1>0, <1>4, <1>9 DEF OpenUncertainty, TypeOK
<1>10. CASE Revoke(e) \/ LapsePermit(e) \/ DispatchFails(e)
  BY <1>4, <1>10 DEF Revoke, LapsePermit, DispatchFails
<1>11. ASSUME NEW n \in DOMAIN reconPermits[e], LapseReconPermit(e, n)
       PROVE LookupStands(e)'
  BY <1>4, <1>11 DEF LapseReconPermit
<1>12. ASSUME NEW n \in DOMAIN reconPermits[e], ClaimReconciliation(e, n)
       PROVE LookupStands(e)'
  <2>1. /\ reconciler'[e].stage = "called" /\ ~reconciler'[e].found
        /\ effect' = effect /\ quiet' = quiet
    BY <1>0, <1>12 DEF ClaimReconciliation, TypeOK
  <2> QED BY <1>0, <1>1, <1>2, <2>1 DEF LookupStands
<1>13. CASE DeliverReadCredential(e)
  <2>1. /\ reconciler'[e].stage = "reading" /\ reconciler'[e].found = reconciler[e].found
        /\ reconciler[e].stage = "called" /\ effect' = effect /\ quiet' = quiet
    BY <1>0, <1>13 DEF DeliverReadCredential, TypeOK, Reading
  <2> QED BY <1>0, <1>1, <1>2, <2>1 DEF LookupStands
<1>14. CASE Observe(e)
  <2>1. effect[e] = "uncertain" /\ effect' = effect
    BY <1>3, <1>14 DEF Observe
  <2>2. CASE ReadReceipt(e) /\ UNCHANGED <<receipts, write, lapsed, adapter>>
    <3>1. /\ reconciler'[e].stage = "half_read"
          /\ reconciler'[e].found <=> e \in receipts
          /\ quiet'[e] <=> ~MayStillWrite(e)
      <4> DEFINE half == [reconciler EXCEPT ![e].stage = "half_read"]
                 hit == e \in receipts
      <4>0. half \in [Effects -> Reading]
        BY <1>0, ReadingMoves DEF TypeOK
      <4>1. half \in [Effects -> Reading] /\ half[e].stage = "half_read"
        BY <1>0, <4>0 DEF TypeOK, Reading
      <4>2. reconciler' = [half EXCEPT ![e].found = hit]
        BY <1>0, <2>2 DEF ReadReceipt, TypeOK
      <4>3. quiet'[e] <=> ~MayStillWrite(e)
        BY <1>0, <2>2 DEF ReadReceipt, TypeOK, MayStillWrite
      <4> HIDE DEF half, hit
      <4>4. reconciler'[e].stage = "half_read" /\ reconciler'[e].found = hit
        BY <4>1, <4>2 DEF Reading
      <4> QED BY <4>3, <4>4 DEF hit
    <3>2. MayStillWrite(e)' <=> MayStillWrite(e)
      BY <2>2 DEF MayStillWrite
    <3> QED BY <2>1, <2>2, <3>1, <3>2 DEF LookupStands, Closed
  <2>3. CASE ReadInventory(e) /\ reconciler[e].stage = "half_read"
    <3>1. /\ reconciler'[e].stage = "observed"
          /\ reconciler'[e].found = reconciler[e].found /\ quiet' = quiet
      BY <1>0, <2>3 DEF ReadInventory, TypeOK, Reading
    <3> QED BY <1>0, <1>1, <1>2, <2>1, <2>3, <3>1 DEF LookupStands
  <2> QED BY <1>14, <2>2, <2>3 DEF Observe
<1>15. CASE ReopenReconciliation(e)
  <2>1. reconciler'[e] = NoReading /\ effect' = effect /\ quiet' = quiet
    BY <1>0, <1>15 DEF ReopenReconciliation, TypeOK
  <2> QED BY <1>0, <1>1, <1>2, <2>1, ReadingFacts DEF LookupStands
<1>16. CASE ReconcileApplied(e)
  <2>1. /\ reconciler'[e] = NoReading /\ effect'[e] = "succeeded"
        /\ reconciler[e].stage = "observed" /\ reconciler[e].found
    BY <1>0, <1>16 DEF ReconcileApplied, TypeOK
  <2> QED BY <1>0, <1>2, <2>1, ReadingFacts DEF LookupStands
<1>17. CASE ReconcileNotApplied(e)
  <2>1. /\ reconciler'[e] = NoReading /\ effect'[e] = "failed" /\ quiet' = quiet
        /\ reconciler[e].stage = "observed" /\ ~reconciler[e].found
    BY <1>0, <1>17 DEF ReconcileNotApplied, TypeOK
  <2> QED BY <1>0, <1>1, <1>3, <2>1, ReadingFacts DEF LookupStands
<1>18. CASE ReconcileFails(e)
  <2>1. reconciler'[e] = NoReading /\ effect' = effect /\ quiet' = quiet
    BY <1>0, <1>18 DEF ReconcileFails, TypeOK
  <2> QED BY <1>0, <1>1, <1>2, <2>1, ReadingFacts DEF LookupStands
<1> QED BY <1>5, <1>6, <1>7, <1>8, <1>9, <1>10, <1>11, <1>12, <1>13, <1>14, <1>15, <1>16,
           <1>17, <1>18 DEF CorrectionStep, Conclude, Reconcile
-----------------------------------------------------------------------------
LEMMA SameKeeps ==
    ASSUME IInv, NEW f \in Effects, Same(f)
    PROVE  Dispatched(f)' /\ Accounted(f)' /\ CaseWorked(f)' /\ LookupStands(f)'
<1>0. Dispatched(f) /\ Accounted(f) /\ CaseWorked(f) /\ LookupStands(f)
  BY DEF IInv
<1>1. Dispatched(f)'
  BY <1>0 DEF Same, Dispatched
<1>2. Accounted(f)'
  BY <1>0 DEF Same, Accounted
<1>3. CaseWorked(f)'
  BY <1>0 DEF Same, CaseWorked, Issued, Held, Last
<1>4. LookupStands(f)'
  BY <1>0 DEF Same, LookupStands, Closed, MayStillWrite
<1> QED BY <1>1, <1>2, <1>3, <1>4

(* The Kernel forgets its readings, and nothing on disk or outside changes.  *)
LEMMA CrashKeeps ==
    ASSUME IInv, KernelCrash, NEW f \in Effects
    PROVE  Dispatched(f)' /\ Accounted(f)' /\ CaseWorked(f)' /\ LookupStands(f)'
<1> USE DEF kernelVars, storefrontVars
<1>0. Dispatched(f) /\ Accounted(f) /\ CaseWorked(f) /\ LookupStands(f)
  BY DEF IInv
<1>1. reconciler'[f] = NoReading
  BY DEF KernelCrash
<1>2. Dispatched(f)'
  BY <1>0 DEF KernelCrash, Dispatched
<1>3. Accounted(f)'
  BY <1>0 DEF KernelCrash, Accounted
<1>4. CaseWorked(f)'
  BY <1>0, <1>1, ReadingFacts DEF KernelCrash, CaseWorked, Issued, Held, Last
<1>5. LookupStands(f)'
  BY <1>0, <1>1, ReadingFacts DEF KernelCrash, LookupStands, Closed, MayStillWrite
<1> QED BY <1>2, <1>3, <1>4, <1>5

LEMMA StepIInv == IInv /\ [Next]_vars => IInv'
<1> SUFFICES ASSUME IInv, [Next]_vars, NEW f \in Effects
             PROVE  Dispatched(f)' /\ Accounted(f)' /\ CaseWorked(f)' /\ LookupStands(f)'
  BY ClaimsAreHeld, TypeStep DEF IInv
<1>0. TypeOK
  BY DEF IInv
<1>1. ASSUME NEW e \in Effects, CorrectionStep(e)
      PROVE  Dispatched(f)' /\ Accounted(f)' /\ CaseWorked(f)' /\ LookupStands(f)'
  <2>1. CASE f = e
    BY <1>1, <2>1, DispatchedStep, AccountedStep, CaseWorkedStep, LookupStandsStep
  <2>2. CASE f # e
    BY <1>0, <1>1, <2>2, OthersSame, SameKeeps
  <2> QED BY <2>1, <2>2
<1>2. CASE AdvanceEpoch \/ UNCHANGED vars
  <2>1. Same(f)
    BY <1>2 DEF AdvanceEpoch, vars, kernelVars, storefrontVars, Same
  <2> QED BY <2>1, SameKeeps
<1>3. CASE KernelCrash
  BY <1>3, CrashKeeps
<1> QED BY <1>1, <1>2, <1>3, StepCases
-----------------------------------------------------------------------------
(* The inductive invariant holds in every reachable state.                   *)
THEOREM EffectInvariant == Spec => []IInv
<1>1. Init => IInv
  BY InitIInv
<1>2. IInv /\ [Next]_vars => IInv'
  BY StepIInv
<1> QED BY <1>1, <1>2, PTL DEF Spec

(* Every reachable state is typed (the tables, processes and outside systems  *)
(* of EffectLifecycle).                                                         *)
THEOREM EffectTypes == Spec => []TypeOK
<1>1. IInv => TypeOK
  BY DEF IInv
<1> QED BY <1>1, EffectInvariant, PTL

(* At most one PUT leaves the adapter for a correction, and only for a          *)
(* consumed permit whose credential was delivered (claimDispatch,                *)
(* authorizeCredentialDelivery).                                                  *)
THEOREM OneWriteOnly == Spec => []AtMostOneWrite
<1>1. IInv => AtMostOneWrite
  BY DEF IInv, Dispatched, AtMostOneWrite
<1> QED BY <1>1, EffectInvariant, PTL

(* What is reported as succeeded is in the receipts of the storefront, along    *)
(* both paths (finalizeSuccess, reconcileApplied).                               *)
THEOREM SuccessApplied == Spec => []SuccessIsApplied
<1>1. IInv => SuccessIsApplied
  BY DEF IInv, LookupStands, SuccessIsApplied
<1> QED BY <1>1, EffectInvariant, PTL

(* A verdict of "not applied" reached when nothing could be written any more    *)
(* stands (reconcileNotApplied, with the credential check of the storefront).    *)
THEOREM QuietVerdicts == Spec => []QuietVerdictStands
<1>1. IInv => QuietVerdictStands
  BY DEF IInv, LookupStands, Closed, QuietVerdictStands
<1> QED BY <1>1, EffectInvariant, PTL

(* The accountability of a Run is what its obligations add up to, for any       *)
(* contract with at least one requirement.                                       *)
THEOREM AccountabilityAddsUp == Spec => []AccountabilityHonest
<1>1. ASSUME IInv PROVE AccountabilityHonest
  <2> SUFFICES ASSUME NEW e \in Effects
      PROVE /\ accountability[e] = "satisfied" <=>
                  effect[e] = "succeeded" /\ \A q \in Requirements : obligation[e][q] = "satisfied"
            /\ accountability[e] = "breached" => effect[e] = "failed"
            /\ effect[e] = "failed" => \A q \in Requirements : obligation[e][q] = "breached"
            /\ accountability[e] = "pending" => \E q \in Requirements : obligation[e][q] = "open"
    BY DEF AccountabilityHonest
  <2>1. Accounted(e) /\ effect[e] \in {"none", "admitted", "dispatching", "uncertain",
                                       "succeeded", "failed"}
    BY <1>1 DEF IInv, TypeOK
  <2> QED BY <2>1, RequirementAssumption DEF Accounted
<1> QED BY <1>1, EffectInvariant, PTL

(* An uncertain effect has one case, an open case one issued permit, its last,   *)
(* and whoever reconciles has consumed that permit and reads with its credential   *)
(* (openUncertainty, claimReconciliation, reopenReconciliation).                    *)
THEOREM CasesAgree == Spec => []CaseAndPermits
<1>1. ASSUME IInv PROVE CaseAndPermits
  <2> SUFFICES ASSUME NEW e \in Effects
      PROVE /\ effect[e] = "uncertain" <=> case[e] \in {"open", "reconciling"}
            /\ {n \in DOMAIN reconPermits[e] : reconPermits[e][n].status = "issued"} =
                  IF case[e] = "open" THEN {Len(reconPermits[e])} ELSE {}
            /\ \A n \in DOMAIN reconPermits[e] :
                  reconPermits[e][n].brokered => reconPermits[e][n].status = "consumed"
            /\ reconciler[e].stage # "idle" =>
                  /\ case[e] = "reconciling" /\ Len(reconPermits[e]) > 0
                  /\ reconciler[e].permit = Len(reconPermits[e])
            /\ reconciler[e].stage \in {"reading", "half_read", "observed"} =>
                  reconPermits[e][Len(reconPermits[e])].brokered
    BY DEF CaseAndPermits
  <2>0. CaseWorked(e) /\ TypeOK
    BY <1>1 DEF IInv
  <2>1. \A n \in DOMAIN reconPermits[e] :
            /\ reconPermits[e][n].status \in {"issued", "consumed"}
            /\ n \in 1 .. Len(reconPermits[e])
    <3>1. reconPermits[e] \in Seq(ReconPermit)
      BY <2>0 DEF TypeOK
    <3>2. \A n \in DOMAIN reconPermits[e] :
              reconPermits[e][n] \in ReconPermit /\ n \in 1 .. Len(reconPermits[e])
      BY <3>1
    <3> QED BY <3>2 DEF ReconPermit
  <2>2. {n \in DOMAIN reconPermits[e] : reconPermits[e][n].status = "issued"} =
            IF case[e] = "open" THEN {Len(reconPermits[e])} ELSE {}
    BY <2>0 DEF CaseWorked, Issued, Last
  <2>3. \A n \in DOMAIN reconPermits[e] :
            reconPermits[e][n].brokered => reconPermits[e][n].status = "consumed"
    BY <2>0, <2>1 DEF CaseWorked, Issued, Held
  <2>4. reconciler[e].stage # "idle" => Len(reconPermits[e]) > 0
    BY <2>0, <2>1 DEF CaseWorked, Last
  <2> QED BY <2>0, <2>2, <2>3, <2>4 DEF CaseWorked, Held, Last
<1> QED BY <1>1, EffectInvariant, PTL
-----------------------------------------------------------------------------
(* The abstract promise, step by step.                                       *)
PStatus == [e \in Effects |-> IF effect[e] = "dispatching" THEN "released" ELSE effect[e]]
PDoubted == {e \in Effects : case[e] # "none"}

LEMMA PromiseInits == Init => Promise!PromiseInit
  BY DEF Init, Promise!PromiseInit

LEMMA PromiseStutters ==
    ASSUME UNCHANGED <<effect, case, receipts>>
    PROVE  UNCHANGED <<PStatus, receipts, PDoubted>>
  BY DEF PStatus, PDoubted

(* A step of the Kernel that gives one effect a new status.                   *)
LEMMA StatusMoves ==
    ASSUME TypeOK, NEW e \in Effects, NEW x,
           effect' = [effect EXCEPT ![e] = x],
           NEW y, y = IF x = "dispatching" THEN "released" ELSE x
    PROVE  PStatus' = [PStatus EXCEPT ![e] = y]
<1>1. effect \in [Effects -> {"none", "admitted", "dispatching", "uncertain",
                              "succeeded", "failed"}]
  BY DEF TypeOK
<1>2. \A f \in Effects : PStatus'[f] = [PStatus EXCEPT ![e] = y][f]
  BY <1>1 DEF PStatus
<1> QED BY <1>1, <1>2 DEF PStatus

LEMMA PromiseStep ==
    ASSUME IInv, NEW e \in Effects, CorrectionStep(e)
    PROVE  [Promise!PromiseNext]_(Promise!promiseVars)
<1> USE DEF kernelVars, storefrontVars
<1>0. TypeOK /\ Dispatched(e) /\ CaseWorked(e) /\ LookupStands(e)
  BY DEF IInv
<1>a. PStatus[e] = IF effect[e] = "dispatching" THEN "released" ELSE effect[e]
  BY DEF PStatus
<1> DEFINE A == Promise!Admit(e)  R == Promise!Release(e)  T == Promise!Reach(e)
           D == Promise!Doubt(e)  S == Promise!Succeed(e)  F == Promise!Fail(e)
           U == UNCHANGED <<PStatus, receipts, PDoubted>>
<1>b. ASSUME A \/ R \/ T \/ D \/ S \/ F \/ U
      PROVE  [Promise!PromiseNext]_(Promise!promiseVars)
  BY <1>b DEF Promise!PromiseNext, Promise!promiseVars, PStatus, PDoubted
<1>c. ASSUME case' = case PROVE PDoubted' = PDoubted
  BY <1>c DEF PDoubted
<1>1. CASE AdmitCorrection(e)
  <2>1. PStatus' = [PStatus EXCEPT ![e] = "admitted"] /\ PDoubted' = PDoubted
    BY <1>0, <1>1, <1>c, StatusMoves DEF AdmitCorrection
  <2>2. A
    BY <1>1, <1>a, <2>1 DEF AdmitCorrection, Promise!Admit, Promise!Becomes, PStatus, PDoubted
  <2> QED BY <1>b, <2>2
<1>2. CASE ClaimDispatch(e)
  <2>1. PStatus' = [PStatus EXCEPT ![e] = "released"] /\ PDoubted' = PDoubted
    BY <1>0, <1>2, <1>c, StatusMoves DEF ClaimDispatch
  <2>2. R
    BY <1>2, <1>a, <2>1
       DEF ClaimDispatch, Unspent, Promise!Release, Promise!Becomes, PStatus, PDoubted
  <2> QED BY <1>b, <2>2
<1>3. CASE ApplyWrite(e)
  <2>1. PStatus' = PStatus /\ PDoubted' = PDoubted
    BY <1>3 DEF ApplyWrite, PStatus, PDoubted
  <2>2. PStatus[e] \notin {"none", "admitted"}
    BY <1>0, <1>3, <1>a DEF ApplyWrite, Dispatched
  <2>3. CASE e \in receipts
    <3>1. receipts' = receipts
      BY <1>3, <2>3 DEF ApplyWrite
    <3>2. U
      BY <2>1, <3>1
    <3> QED BY <1>b, <3>2
  <2>4. CASE e \notin receipts
    <3>1. T
      BY <1>3, <2>1, <2>2, <2>4 DEF ApplyWrite, Promise!Reach, PStatus, PDoubted
    <3> QED BY <1>b, <3>1
  <2> QED BY <2>3, <2>4
<1>4. CASE FinalizeSuccess(e)
  <2>1. PStatus' = [PStatus EXCEPT ![e] = "succeeded"] /\ PDoubted' = PDoubted
    BY <1>0, <1>4, <1>c, StatusMoves DEF FinalizeSuccess
  <2>2. PStatus[e] = "released" /\ e \in receipts /\ receipts' = receipts
    BY <1>0, <1>4, <1>a DEF FinalizeSuccess, Dispatching, Dispatched
  <2>3. S
    BY <2>1, <2>2 DEF Promise!Succeed, Promise!Becomes, PStatus, PDoubted
  <2> QED BY <1>b, <2>3
<1>5. CASE OpenUncertainty(e)
  <2>1. PStatus' = [PStatus EXCEPT ![e] = "uncertain"]
    BY <1>0, <1>5, StatusMoves DEF OpenUncertainty
  <2>2. PStatus[e] = "released" /\ receipts' = receipts
    BY <1>5, <1>a DEF OpenUncertainty, Dispatching
  <2>3. PDoubted' = PDoubted \union {e}
    BY <1>0, <1>5 DEF OpenUncertainty, TypeOK, PDoubted
  <2>4. D
    BY <2>1, <2>2, <2>3 DEF Promise!Doubt, Promise!Becomes, PStatus, PDoubted
  <2> QED BY <1>b, <2>4
<1>6. ASSUME Reconciling(e), NEW c, c # "none", case' = [case EXCEPT ![e] = c]
      PROVE  PDoubted' = PDoubted /\ PStatus[e] = "uncertain"
  BY <1>0, <1>6, <1>a DEF Reconciling, CaseWorked, TypeOK, PDoubted
<1>7. CASE ReconcileApplied(e)
  <2>1. PStatus' = [PStatus EXCEPT ![e] = "succeeded"] /\ receipts' = receipts
    BY <1>0, <1>7, StatusMoves DEF ReconcileApplied
  <2>2. PDoubted' = PDoubted /\ PStatus[e] = "uncertain"
    BY <1>6, <1>7 DEF ReconcileApplied
  <2>3. e \in receipts
    BY <1>0, <1>7 DEF ReconcileApplied, LookupStands
  <2>4. S
    BY <2>1, <2>2, <2>3 DEF Promise!Succeed, Promise!Becomes, PStatus, PDoubted
  <2> QED BY <1>b, <2>4
<1>8. CASE ReconcileNotApplied(e)
  <2>1. PStatus' = [PStatus EXCEPT ![e] = "failed"] /\ receipts' = receipts
    BY <1>0, <1>8, StatusMoves DEF ReconcileNotApplied
  <2>2. PDoubted' = PDoubted /\ PStatus[e] = "uncertain"
    BY <1>6, <1>8 DEF ReconcileNotApplied
  <2>3. F
    BY <2>1, <2>2 DEF Promise!Fail, Promise!Becomes, PStatus, PDoubted
  <2> QED BY <1>b, <2>3
<1>9. CASE ReopenReconciliation(e)
  <2>1. PDoubted' = PDoubted
    BY <1>6, <1>9 DEF ReopenReconciliation
  <2>2. U
    BY <1>9, <2>1 DEF ReopenReconciliation, PStatus
  <2> QED BY <1>b, <2>2
<1>10. ASSUME NEW n \in DOMAIN reconPermits[e], ClaimReconciliation(e, n)
       PROVE  [Promise!PromiseNext]_(Promise!promiseVars)
  <2>1. PDoubted' = PDoubted
    BY <1>0, <1>10 DEF ClaimReconciliation, TypeOK, PDoubted
  <2>2. U
    BY <1>10, <2>1 DEF ClaimReconciliation, PStatus
  <2> QED BY <1>b, <2>2
<1>11. CASE DeliverCredential(e) \/ SendWrite(e) \/ AcceptWrite(e) \/ VerifyWrite(e)
            \/ AdapterFails(e) \/ DeliverReadCredential(e) \/ Observe(e) \/ Revoke(e)
            \/ LapsePermit(e) \/ DispatchFails(e) \/ ReconcileFails(e)
  <2>1. UNCHANGED <<effect, case, receipts>>
    BY <1>11 DEF DeliverCredential, SendWrite, AcceptWrite, VerifyWrite, AdapterFails,
                 DeliverReadCredential, Observe, Revoke, LapsePermit, DispatchFails,
                 ReconcileFails
  <2> QED BY <1>b, <2>1, PromiseStutters
<1>12. ASSUME NEW n \in DOMAIN reconPermits[e], LapseReconPermit(e, n)
       PROVE  [Promise!PromiseNext]_(Promise!promiseVars)
  <2>1. UNCHANGED <<effect, case, receipts>>
    BY <1>12 DEF LapseReconPermit
  <2> QED BY <1>b, <2>1, PromiseStutters
<1> QED BY <1>1, <1>2, <1>3, <1>4, <1>5, <1>7, <1>8, <1>9, <1>10, <1>11, <1>12
        DEF CorrectionStep, Dispatch, Conclude, Reconcile

(* Kernel, adapter, broker and storefront together keep the promise: released  *)
(* once before it can be applied, success only for what is applied, failure      *)
(* only after doubt.                                                               *)
THEOREM KeepsPromise == Spec => ImplementsPromise
<1>1. Init => Promise!PromiseInit
  BY PromiseInits
<1>2. IInv /\ [Next]_vars => [Promise!PromiseNext]_(Promise!promiseVars)
  <2> SUFFICES ASSUME IInv, [Next]_vars PROVE [Promise!PromiseNext]_(Promise!promiseVars)
    OBVIOUS
  <2>1. CASE AdvanceEpoch \/ KernelCrash \/ UNCHANGED vars
    <3>1. UNCHANGED <<effect, case, receipts>>
      BY <2>1 DEF AdvanceEpoch, KernelCrash, vars, kernelVars, storefrontVars
    <3> QED BY <3>1 DEF Promise!promiseVars
  <2> QED BY <2>1, PromiseStep, StepCases
<1> QED BY <1>1, <1>2, EffectInvariant, PTL DEF Spec, ImplementsPromise, Promise!PromiseSpec
-----------------------------------------------------------------------------
(* Who wrote the quantity an item has, and what a reading that disagrees with  *)
(* its correction shows.                                                        *)
Traced ==
    \A e \in receipts : \E f \in receipts :
        Subject[f] = Subject[e] /\ Quantity[f] = inventory[Subject[e]]

Overwritten(e) ==
    \E f \in receipts \ {e} : Subject[f] = Subject[e] /\ Quantity[f] # Quantity[e]

ReadingExplained(e) ==
    /\ reconciler[e].stage = "observed" /\ reconciler[e].found
          /\ reconciler[e].quantity # Quantity[e] => Overwritten(e)
    /\ case[e] = "open_applied_accountability" => Overwritten(e)

OInv == IInv /\ Traced /\ \A e \in Effects : ReadingExplained(e)

KnownRequirements == Requirements \subseteq {"storefront_response", "post_write_observation"}

LEMMA ReceiptsMove ==
    ASSUME IInv, [Next]_vars
    PROVE  \/ receipts' = receipts /\ inventory' = inventory
           \/ \E e \in Effects : ApplyWrite(e)
<1> USE DEF kernelVars, storefrontVars
<1>1. ASSUME NEW e \in Effects, CorrectionStep(e), ~ApplyWrite(e)
      PROVE  receipts' = receipts /\ inventory' = inventory
  BY <1>1 DEF CorrectionStep, AdmitCorrection, ClaimDispatch, Dispatch, DeliverCredential,
         SendWrite, AcceptWrite, VerifyWrite, AdapterFails, Conclude, FinalizeSuccess,
         OpenUncertainty, DispatchFails, ReconcileFails, Reconcile,
         DeliverReadCredential, Observe, ReopenReconciliation,
         ReconcileApplied, ReconcileNotApplied, Revoke, LapsePermit, ClaimReconciliation,
         LapseReconPermit
<1>2. CASE AdvanceEpoch \/ KernelCrash \/ UNCHANGED vars
  BY <1>2 DEF AdvanceEpoch, KernelCrash, vars
<1> QED BY <1>1, <1>2, StepCases

LEMMA TracedStep == IInv /\ Traced /\ [Next]_vars => Traced' /\ receipts \subseteq receipts'
<1> SUFFICES ASSUME IInv, Traced, [Next]_vars PROVE Traced' /\ receipts \subseteq receipts'
  OBVIOUS
<1>0. TypeOK
  BY DEF IInv
<1>1. CASE receipts' = receipts /\ inventory' = inventory
  BY <1>1 DEF Traced
<1>2. ASSUME NEW e \in Effects, ApplyWrite(e) PROVE Traced' /\ receipts \subseteq receipts'
  <2>1. CASE e \in receipts
    BY <1>2, <2>1 DEF ApplyWrite, Traced
  <2>2. CASE e \notin receipts
    <3>1. /\ receipts' = receipts \union {e}
          /\ inventory' = [inventory EXCEPT ![Subject[e]] = Quantity[e]]
      BY <1>2, <2>2 DEF ApplyWrite
    <3>2. ASSUME NEW f \in receipts'
          PROVE  \E g \in receipts' :
                    Subject[g] = Subject[f] /\ Quantity[g] = inventory'[Subject[f]]
      <4>0. f \in Effects /\ Subject[f] \in Subjects
        BY <1>0, <3>1, SubjectAssumption DEF TypeOK
      <4>1. CASE Subject[f] = Subject[e]
        BY <1>0, <3>1, <4>0, <4>1 DEF TypeOK
      <4>2. CASE Subject[f] # Subject[e]
        <5>1. f \in receipts /\ inventory'[Subject[f]] = inventory[Subject[f]]
          BY <1>0, <3>1, <4>0, <4>2 DEF TypeOK
        <5> QED BY <3>1, <5>1 DEF Traced
      <4> QED BY <4>1, <4>2
    <3> QED BY <3>1, <3>2 DEF Traced
  <2> QED BY <2>1, <2>2
<1> QED BY <1>1, <1>2, ReceiptsMove

LEMMA ExplainedStep ==
    ASSUME KnownRequirements, OInv, [Next]_vars, NEW e \in Effects
    PROVE  ReadingExplained(e)'
<1> USE DEF kernelVars, storefrontVars
<1>0. TypeOK /\ LookupStands(e) /\ CaseWorked(e) /\ Traced /\ ReadingExplained(e)
  BY DEF OInv, IInv
<1>1. Overwritten(e) => Overwritten(e)'
  <2>1. receipts \subseteq receipts'
    BY TracedStep DEF OInv
  <2> QED BY <2>1 DEF Overwritten
(* Neither a new reading nor a new kind of case.                              *)
<1>2. ASSUME \/ reconciler'[e].stage # "observed"
             \/ reconciler'[e] = reconciler[e],
             case'[e] = "open_applied_accountability" => case[e] = "open_applied_accountability"
      PROVE  ReadingExplained(e)'
  BY <1>0, <1>1, <1>2 DEF ReadingExplained
<1>3. CASE Observe(e)
  <2>1. case' = case /\ receipts' = receipts
    BY <1>3 DEF Observe
  <2>2. CASE ReadReceipt(e)
    <3>1. reconciler'[e].stage = "half_read"
      BY <1>0, <2>2 DEF ReadReceipt, TypeOK, Reading
    <3> QED BY <1>2, <2>1, <3>1
  <2>3. CASE ReadInventory(e) /\ reconciler[e].stage = "half_read"
    <3>1. /\ reconciler'[e].found = reconciler[e].found
          /\ reconciler'[e].quantity = inventory[Subject[e]]
      BY <1>0, <2>3 DEF ReadInventory, TypeOK, Reading
    <3>2. ASSUME reconciler[e].found, inventory[Subject[e]] # Quantity[e] PROVE Overwritten(e)
      <4>1. e \in receipts
        BY <1>0, <2>3, <3>2 DEF LookupStands
      <4>2. PICK f \in receipts :
                Subject[f] = Subject[e] /\ Quantity[f] = inventory[Subject[e]]
        BY <1>0, <4>1 DEF Traced
      <4> QED BY <3>2, <4>2 DEF Overwritten
    <3> QED BY <1>0, <1>1, <2>1, <3>1, <3>2 DEF ReadingExplained
  <2> QED BY <1>3, <2>2, <2>3 DEF Observe
<1>4. CASE ReconcileApplied(e)
  <2>1. /\ reconciler'[e].stage = "idle"
        /\ reconciler[e].stage = "observed" /\ reconciler[e].found
        /\ case'[e] = IF AllEvidenced(e) THEN "resolved_applied"
                      ELSE "open_applied_accountability"
    BY <1>0, <1>4, ReadingFacts DEF ReconcileApplied, TypeOK
  <2>2. ~AllEvidenced(e) => reconciler[e].quantity # Quantity[e]
    BY DEF AllEvidenced, Evidenced, KnownRequirements
  <2> QED BY <1>0, <1>1, <2>1, <2>2 DEF ReadingExplained
<1>5. CASE ReconcileNotApplied(e) \/ ReopenReconciliation(e)
  <2>1. reconciler'[e].stage = "idle" /\ case'[e] \in {"open_not_applied", "open"}
    BY <1>0, <1>5, ReadingFacts DEF ReconcileNotApplied, ReopenReconciliation, TypeOK
  <2> QED BY <1>2, <2>1
<1>6. ASSUME NEW n \in DOMAIN reconPermits[e], ClaimReconciliation(e, n)
      PROVE  ReadingExplained(e)'
  <2>1. reconciler'[e].stage = "called" /\ case'[e] = "reconciling"
    BY <1>0, <1>6 DEF ClaimReconciliation, TypeOK
  <2> QED BY <1>2, <2>1
<1>7. CASE DeliverReadCredential(e)
  <2>1. reconciler'[e].stage = "reading" /\ case' = case
    BY <1>0, <1>7 DEF DeliverReadCredential, TypeOK, Reading
  <2> QED BY <1>2, <2>1
<1>8. CASE OpenUncertainty(e)
  <2>1. reconciler' = reconciler /\ case'[e] = "open"
    BY <1>0, <1>8 DEF OpenUncertainty, TypeOK
  <2> QED BY <1>2, <2>1
<1>9. CASE reconciler' = reconciler /\ case' = case
  BY <1>2, <1>9
<1>10. CASE AdmitCorrection(e) \/ ClaimDispatch(e) \/ Dispatch(e) \/ FinalizeSuccess(e)
            \/ Revoke(e) \/ LapsePermit(e) \/ DispatchFails(e)
  BY <1>9, <1>10 DEF AdmitCorrection, ClaimDispatch, Dispatch, DeliverCredential, SendWrite,
         AcceptWrite, ApplyWrite, VerifyWrite, AdapterFails, FinalizeSuccess, Revoke,
         LapsePermit, DispatchFails
<1>11. ASSUME NEW n \in DOMAIN reconPermits[e], LapseReconPermit(e, n)
       PROVE  ReadingExplained(e)'
  BY <1>9, <1>11 DEF LapseReconPermit
<1>16. CASE ReconcileFails(e)
  <2>1. reconciler'[e].stage = "idle" /\ case' = case
    BY <1>0, <1>16, ReadingFacts DEF ReconcileFails, TypeOK
  <2> QED BY <1>2, <2>1
<1>12. ASSUME CorrectionStep(e) PROVE ReadingExplained(e)'
  BY <1>3, <1>4, <1>5, <1>6, <1>7, <1>8, <1>10, <1>11, <1>12, <1>16
     DEF CorrectionStep, Conclude, Reconcile
<1>13. ASSUME NEW f \in Effects, CorrectionStep(f), f # e PROVE ReadingExplained(e)'
  <2>1. Same(e)
    BY <1>0, <1>13, OthersSame
  <2> QED BY <1>2, <2>1 DEF Same
<1>14. CASE AdvanceEpoch \/ UNCHANGED vars
  BY <1>9, <1>14 DEF AdvanceEpoch, vars
<1>15. CASE KernelCrash
  <2>1. reconciler'[e].stage = "idle" /\ case' = case
    BY <1>15, ReadingFacts DEF KernelCrash
  <2> QED BY <1>2, <2>1
<1> QED BY <1>12, <1>13, <1>14, <1>15, StepCases

(* With the two requirements the adapter has evidence for, an applied correction *)
(* keeps an open obligation only because another correction of its item           *)
(* overwrote it (reconcileApplied, and the order of the adapter's two reads).      *)
THEOREM OverwritingOnly ==
    ASSUME KnownRequirements PROVE Spec => []OnlyOverwritingLeavesOpen
<1>1. Init => OInv
  BY InitIInv, ReadingFacts DEF Init, OInv, Traced, ReadingExplained
<1>2. OInv /\ [Next]_vars => OInv'
  BY StepIInv, TracedStep, ExplainedStep DEF OInv
<1>3. OInv => OnlyOverwritingLeavesOpen
  BY DEF OInv, ReadingExplained, Overwritten, OnlyOverwritingLeavesOpen
<1> QED BY <1>1, <1>2, <1>3, PTL DEF Spec
-----------------------------------------------------------------------------
(* Restores of an Environment, for any number of corrections, bundles, byte    *)
(* restores and sessions.  What holds of effects without restores (IInv) does     *)
(* not hold here: the adapter goes on where the database has gone back.  The        *)
(* invariant says what is left.                                                      *)

EarlyEffects == {"none", "admitted", "dispatching"}

(* An early effect has no case, and no grant and no session is of an epoch      *)
(* that is still to come.                                                         *)
Consistent(ep, ef, ge, ca, se) ==
    /\ \A e \in Effects : ef[e] \in EarlyEffects => ca[e] = "none"
    /\ \A e \in Effects : ge[e] <= ep
    /\ \A i \in Sessions : se[i] <= ep

(* The bundle holds what the database once held.                               *)
Restorable(d) ==
    /\ d.epoch \in Nat
    /\ d.effect \in [Effects -> {"none", "admitted", "dispatching", "uncertain",
                                 "succeeded", "failed"}]
    /\ d.permit \in [Effects -> {"none", "issued", "consumed", "expired"}]
    /\ d.brokered \in [Effects -> BOOLEAN]
    /\ d.grantEpoch \in [Effects -> Nat]
    /\ d.execution \in [Effects -> {"none", "admitted", "uncertain", "succeeded", "failed"}]
    /\ d.accountability \in [Effects -> {"none", "pending", "satisfied", "breached"}]
    /\ d.obligation \in
          [Effects -> [Requirements -> {"none", "open", "satisfied", "breached"}]]
    /\ d.case \in [Effects -> CaseStatus]
    /\ d.reconPermits \in [Effects -> Seq(ReconPermit)]
    /\ d.session \in [Sessions -> SessionStatus]
    /\ d.sessionEpoch \in [Sessions -> Nat]
    /\ d.mustResolve \in [Sessions -> SUBSET Effects]
    /\ d.projected \in BOOLEAN
    /\ Consistent(d.epoch, d.effect, d.grantEpoch, d.case, d.sessionEpoch)

InFlight(e) == adapter[e] \in {"called", "credentialed"}

(* What the adapter has sent or may still send for a correction that was neither *)
(* forgotten nor exposed: nothing before its admission, one PUT at most, and the    *)
(* claim is closed to it if the permit looks unspent again, by its fenced grant or,  *)
(* until the fence is there, by the Kernel being down.                                *)
Emission(e) ==
    e \notin forgotten \union exposed =>
        /\ effect[e] = "none" => puts[e] = 0 /\ adapter[e] = "idle"
        /\ puts[e] <= 1 /\ (InFlight(e) => puts[e] = 0)
        /\ (puts[e] = 1 \/ InFlight(e)) /\ Unspent(e) => grantEpoch[e] # epoch \/ fencing

(* DoubtIsObligation of every session that has begun, the resumed ones too:     *)
(* verifying such a session again makes it unfinished.                              *)
DoubtHeld ==
    \A i \in Sessions :
        operational = "restore_suspended" /\ Begun(i) /\ sessionEpoch[i] = epoch =>
            \A e \in Effects :
                /\ effect[e] \notin {"admitted", "dispatching"}
                /\ effect[e] = "uncertain" => e \in mustResolve[i]

RestoreInv ==
    /\ RestoreTypeOK /\ ClaimsHeld
    /\ Consistent(epoch, effect, grantEpoch, case, sessionEpoch)
    /\ HaveBackup => Restorable(backup)
    /\ \A e \in Effects : Emission(e)
    /\ DoubtHeld
-----------------------------------------------------------------------------
(* What a step of one correction does to the state the invariant is about.     *)
Admits(e) ==
    /\ Accepting /\ effect[e] = "none"
    /\ effect' = [effect EXCEPT ![e] = "admitted"]
    /\ permit' = [permit EXCEPT ![e] = "issued"]
    /\ grantEpoch' = [grantEpoch EXCEPT ![e] = epoch]
    /\ UNCHANGED <<case, adapter, puts>>

Claims(e) ==
    /\ Accepting /\ Unspent(e) /\ grantEpoch[e] = epoch
    /\ effect' = [effect EXCEPT ![e] = "dispatching"]
    /\ permit' = [permit EXCEPT ![e] = "consumed"]
    /\ adapter' = [adapter EXCEPT ![e] = "called"]
    /\ UNCHANGED <<grantEpoch, case, puts>>

Calls(e) ==
    /\ UNCHANGED <<effect, permit, grantEpoch, case>>
    /\ \/ /\ adapter[e] = "called" /\ adapter' = [adapter EXCEPT ![e] = "credentialed"]
          /\ UNCHANGED puts
       \/ /\ adapter[e] = "credentialed" /\ adapter' = [adapter EXCEPT ![e] = "writing"]
          /\ puts' = [puts EXCEPT ![e] = @ + 1]
       \/ /\ adapter[e] \in {"called", "credentialed", "writing"}
          /\ \E s \in {"succeeded", "unresolved"} : adapter' = [adapter EXCEPT ![e] = s]
          /\ UNCHANGED puts

Concludes(e) ==
    /\ Accepting /\ effect[e] = "dispatching"
    /\ \/ effect' = [effect EXCEPT ![e] = "succeeded"] /\ UNCHANGED case
       \/ effect' = [effect EXCEPT ![e] = "uncertain"] /\ case' = [case EXCEPT ![e] = "open"]
    /\ UNCHANGED <<permit, grantEpoch, adapter, puts>>

Recovers(e) ==
    /\ case[e] # "none"
    /\ \E c \in CaseStatus \ {"none"} : case' = [case EXCEPT ![e] = c]
    /\ \/ UNCHANGED effect
       \/ \E s \in {"succeeded", "failed"} : effect' = [effect EXCEPT ![e] = s]
    /\ UNCHANGED <<permit, grantEpoch, adapter, puts>>

Moves(e) ==
    /\ UNCHANGED <<operational, epoch>>
    /\ \/ Admits(e) \/ Claims(e) \/ Calls(e) \/ Concludes(e) \/ Recovers(e)
       \/ UNCHANGED <<effect, permit, grantEpoch, case, adapter, puts>>

LEMMA StepMoves ==
    ASSUME NEW e \in Effects, CorrectionStep(e)
    PROVE  Moves(e)
<1> USE DEF kernelVars, storefrontVars, CaseStatus
<1>1. CASE AdmitCorrection(e)
  BY <1>1 DEF AdmitCorrection, Moves, Admits
<1>2. CASE ClaimDispatch(e)
  BY <1>2 DEF ClaimDispatch, GateOpen, Moves, Claims
<1>3. CASE Dispatch(e)
  <2>1. CASE DeliverCredential(e)
    BY <2>1 DEF DeliverCredential, Moves, Calls
  <2>2. CASE SendWrite(e)
    BY <2>2 DEF SendWrite, Moves, Calls
  <2>3. CASE AcceptWrite(e) \/ ApplyWrite(e)
    BY <2>3 DEF AcceptWrite, ApplyWrite, Moves
  <2>4. CASE VerifyWrite(e)
    BY <2>4 DEF VerifyWrite, Moves, Calls
  <2>5. CASE AdapterFails(e)
    BY <2>5 DEF AdapterFails, Moves, Calls
  <2> QED BY <1>3, <2>1, <2>2, <2>3, <2>4, <2>5 DEF Dispatch
<1>4. CASE Conclude(e) \/ ReconcileFails(e)
  BY <1>4 DEF Conclude, FinalizeSuccess, OpenUncertainty, DispatchFails, ReconcileFails,
              Dispatching, Moves, Concludes
<1>5. CASE Reconcile(e)
  <2>1. CASE DeliverReadCredential(e) \/ Observe(e)
    BY <2>1 DEF DeliverReadCredential, Observe, Moves
  <2>2. CASE ReopenReconciliation(e)
    BY <2>2 DEF ReopenReconciliation, Reconciling, Moves, Recovers
  <2>3. CASE ReconcileApplied(e)
    BY <2>3 DEF ReconcileApplied, Reconciling, Moves, Recovers
  <2>4. CASE ReconcileNotApplied(e)
    BY <2>4 DEF ReconcileNotApplied, Reconciling, Moves, Recovers
  <2> QED BY <1>5, <2>1, <2>2, <2>3, <2>4 DEF Reconcile
<1>6. CASE Revoke(e) \/ LapsePermit(e)
  BY <1>6 DEF Revoke, LapsePermit, Moves
<1>7. ASSUME NEW n \in DOMAIN reconPermits[e],
             ClaimReconciliation(e, n) \/ LapseReconPermit(e, n)
      PROVE  Moves(e)
  BY <1>7 DEF ClaimReconciliation, LapseReconPermit, Moves, Recovers
<1> QED BY <1>1, <1>2, <1>3, <1>4, <1>5, <1>6, <1>7 DEF CorrectionStep
-----------------------------------------------------------------------------
(* The steps of the corrections, with their database and around it.            *)
LEMMA EffectSteps ==
    ASSUME EffectStep
    PROVE  /\ [Next]_vars
           /\ (\E e \in Effects : CorrectionStep(e)) \/ AdvanceEpoch \/ KernelCrash
           /\ UNCHANGED <<sessionVars, backup, restores, fencing, forgotten, exposed>>
           /\ drift' = TRUE \/ UNCHANGED drift
           /\ fencing => UNCHANGED effect
<1>1. ASSUME NEW e \in Effects, Command(e) \/ Outside(e)
      PROVE  CorrectionStep(e)
  BY <1>1 DEF Command, Outside, CorrectionStep, Dispatch, Conclude, Reconcile
<1>2. ASSUME NEW e \in Effects, CorrectionStep(e)
      PROVE  Next
  BY <1>2 DEF Next, CorrectionStep
<1>3. AdvanceEpoch \/ KernelCrash => Next
  BY DEF Next
<1>4. (\E e \in Effects : CorrectionStep(e)) \/ AdvanceEpoch \/ KernelCrash
  BY <1>1 DEF EffectStep
<1>5. ASSUME NEW e \in Effects, Outside(e) PROVE UNCHANGED effect
  BY <1>5 DEF Outside, SendWrite, AcceptWrite, ApplyWrite, VerifyWrite, AdapterFails, Observe,
     Revoke, LapsePermit, DispatchFails, ReconcileFails, LapseReconPermit, kernelVars
<1>6. fencing => UNCHANGED effect
  BY <1>5 DEF EffectStep, KernelCrash, kernelVars
<1> QED BY <1>2, <1>3, <1>4, <1>6 DEF EffectStep, restoreVars

LEMMA ClaimsStep == TypeOK /\ ClaimsHeld /\ [Next]_vars => ClaimsHeld'
<1> SUFFICES ASSUME TypeOK, ClaimsHeld, [Next]_vars PROVE ClaimsHeld'
  OBVIOUS
<1> USE DEF kernelVars, storefrontVars
<1>1. ASSUME UNCHANGED <<reconciler, reconPermits>> PROVE ClaimsHeld'
  BY <1>1 DEF ClaimsHeld
<1>2. ASSUME NEW e \in Effects, AdmitCorrection(e) \/ ClaimDispatch(e) \/ Dispatch(e)
                 \/ FinalizeSuccess(e) \/ Revoke(e) \/ LapsePermit(e) \/ DispatchFails(e)
      PROVE  ClaimsHeld'
  <2>1. UNCHANGED <<reconciler, reconPermits>>
    BY <1>2 DEF AdmitCorrection, ClaimDispatch, Dispatch, FinalizeSuccess, Revoke, LapsePermit,
       DispatchFails, DeliverCredential, SendWrite, AcceptWrite, ApplyWrite, VerifyWrite,
       AdapterFails
  <2> QED BY <1>1, <2>1
<1>3. ASSUME NEW e \in Effects, OpenUncertainty(e) PROVE ClaimsHeld'
  <2>1. /\ reconPermits' \in [Effects -> Seq(ReconPermit)]
        /\ DOMAIN reconPermits[e] \subseteq DOMAIN reconPermits'[e]
    BY <1>3, PermitMoves DEF OpenUncertainty
  <2>2. reconciler' = reconciler /\ reconPermits' = [reconPermits EXCEPT ![e] = reconPermits'[e]]
    BY <1>3 DEF OpenUncertainty, IssuePermit, TypeOK
  <2> QED BY <2>1, <2>2 DEF ClaimsHeld, TypeOK
<1>4. ASSUME NEW e \in Effects, NEW n \in DOMAIN reconPermits[e], ClaimReconciliation(e, n)
      PROVE  ClaimsHeld'
  <2>1. /\ reconPermits' \in [Effects -> Seq(ReconPermit)]
        /\ DOMAIN reconPermits'[e] = DOMAIN reconPermits[e]
    BY <1>4, PermitMoves
  <2>2. /\ reconciler'[e].permit = n
        /\ \A f \in Effects \ {e} : reconciler'[f] = reconciler[f]
        /\ \A f \in Effects \ {e} : reconPermits'[f] = reconPermits[f]
    BY <1>4 DEF ClaimReconciliation, TypeOK
  <2> QED BY <2>1, <2>2 DEF ClaimsHeld
<1>5. ASSUME NEW e \in Effects, NEW n \in DOMAIN reconPermits[e], LapseReconPermit(e, n)
      PROVE  ClaimsHeld'
  <2>1. DOMAIN reconPermits'[e] = DOMAIN reconPermits[e]
    BY <1>5, PermitMoves
  <2>2. reconciler' = reconciler /\ \A f \in Effects \ {e} : reconPermits'[f] = reconPermits[f]
    BY <1>5 DEF LapseReconPermit, TypeOK
  <2> QED BY <2>1, <2>2 DEF ClaimsHeld
<1>6. ASSUME NEW e \in Effects, DeliverReadCredential(e) PROVE ClaimsHeld'
  <2>1. DOMAIN reconPermits'[e] = DOMAIN reconPermits[e]
    BY <1>6, PermitMoves
  <2>2. /\ reconciler[e].stage # "idle" /\ reconciler'[e].permit = reconciler[e].permit
        /\ \A f \in Effects \ {e} : reconciler'[f] = reconciler[f]
        /\ \A f \in Effects \ {e} : reconPermits'[f] = reconPermits[f]
    BY <1>6 DEF DeliverReadCredential, TypeOK, Reading
  <2> QED BY <2>1, <2>2 DEF ClaimsHeld
<1>7. ASSUME NEW e \in Effects, Observe(e) PROVE ClaimsHeld'
  <2>1. /\ reconciler[e].stage # "idle" /\ reconciler'[e].permit = reconciler[e].permit
        /\ \A f \in Effects \ {e} : reconciler'[f] = reconciler[f]
        /\ reconPermits' = reconPermits
    BY <1>7 DEF Observe, ReadReceipt, ReadInventory, TypeOK, Reading
  <2> QED BY <2>1 DEF ClaimsHeld
<1>8. ASSUME NEW e \in Effects, ReopenReconciliation(e) PROVE ClaimsHeld'
  <2>1. /\ reconciler'[e] = NoReading
        /\ \A f \in Effects \ {e} : reconciler'[f] = reconciler[f]
        /\ \A f \in Effects \ {e} : reconPermits'[f] = reconPermits[f]
    BY <1>8 DEF ReopenReconciliation, IssuePermit, TypeOK
  <2> QED BY <2>1, ReadingFacts DEF ClaimsHeld
<1>9. ASSUME NEW e \in Effects, ReconcileApplied(e) \/ ReconcileNotApplied(e) PROVE ClaimsHeld'
  <2>1. /\ reconciler'[e] = NoReading /\ reconPermits' = reconPermits
        /\ \A f \in Effects \ {e} : reconciler'[f] = reconciler[f]
    BY <1>9 DEF ReconcileApplied, ReconcileNotApplied, TypeOK
  <2> QED BY <2>1, ReadingFacts DEF ClaimsHeld
<1>10. CASE AdvanceEpoch
  BY <1>1, <1>10 DEF AdvanceEpoch
<1>11. CASE KernelCrash
  BY <1>11, ReadingFacts DEF KernelCrash, ClaimsHeld
<1>12. CASE UNCHANGED vars
  BY <1>1, <1>12 DEF vars
<1>14. ASSUME NEW e \in Effects, ReconcileFails(e) PROVE ClaimsHeld'
  <2>1. /\ reconciler'[e] = NoReading /\ reconPermits' = reconPermits
        /\ \A f \in Effects \ {e} : reconciler'[f] = reconciler[f]
    BY <1>14 DEF ReconcileFails, TypeOK
  <2> QED BY <2>1, ReadingFacts DEF ClaimsHeld
<1>13. ASSUME NEW e \in Effects, CorrectionStep(e) PROVE ClaimsHeld'
  BY <1>2, <1>3, <1>4, <1>5, <1>6, <1>7, <1>8, <1>9, <1>13, <1>14
     DEF CorrectionStep, Conclude, Reconcile
<1> QED BY <1>10, <1>11, <1>12, <1>13, StepCases
-----------------------------------------------------------------------------
LEMMA InitRestores == RestoreInit => RestoreInv
<1> SUFFICES ASSUME RestoreInit PROVE RestoreInv
  OBVIOUS
<1>1. TypeOK /\ ClaimsHeld
  BY InitIInv, ClaimsAreHeld DEF RestoreInit
<1>2. /\ session = [i \in Sessions |-> "none"] /\ sessionEpoch = [i \in Sessions |-> 0]
      /\ mustResolve = [i \in Sessions |-> {}] /\ projected = FALSE /\ drift = TRUE
      /\ backup.taken = 0 /\ restores = 0 /\ forgotten = {}
      /\ fencing = FALSE /\ exposed = {}
  BY DEF RestoreInit, NoBackup
<1>6. RestoreTypeOK /\ ~HaveBackup
  <2>1. /\ session \in [Sessions -> SessionStatus] /\ sessionEpoch \in [Sessions -> Nat]
        /\ mustResolve \in [Sessions -> SUBSET Effects] /\ projected \in BOOLEAN
        /\ drift \in BOOLEAN
    BY <1>2 DEF SessionStatus
  <2>2. /\ backup.taken \in Nat /\ restores \in Nat /\ ~HaveBackup
        /\ forgotten \in SUBSET Effects /\ exposed \in SUBSET Effects
    BY <1>2 DEF HaveBackup
  <2>3. fencing \in BOOLEAN
    BY <1>2
  <2> QED BY <1>1, <2>1, <2>2, <2>3 DEF RestoreTypeOK
<1>3. Consistent(epoch, effect, grantEpoch, case, sessionEpoch)
  BY DEF RestoreInit, Init, Consistent
<1>4. \A e \in Effects : Emission(e)
  BY DEF RestoreInit, Init, Emission, Unspent, InFlight
<1>5. DoubtHeld
  BY DEF RestoreInit, DoubtHeld, Begun
<1> QED BY <1>1, <1>3, <1>4, <1>5, <1>6 DEF RestoreInv

(* The steps of the corrections.                                               *)
LEMMA EffectStepKeeps ==
    ASSUME RestoreInv, EffectStep
    PROVE  RestoreInv'
<1>1. /\ TypeOK /\ ClaimsHeld /\ RestoreTypeOK /\ [Next]_vars
      /\ UNCHANGED <<sessionVars, backup, restores, fencing, forgotten, exposed>>
      /\ drift' = TRUE \/ UNCHANGED drift
      /\ fencing => UNCHANGED effect
  BY EffectSteps DEF RestoreInv, RestoreTypeOK
<1>2. TypeOK' /\ ClaimsHeld'
  BY <1>1, TypeStep, ClaimsStep
<1>3. RestoreTypeOK'
  BY <1>1, <1>2 DEF RestoreTypeOK, sessionVars
<1>4. HaveBackup' => Restorable(backup)'
  BY <1>1 DEF RestoreInv, HaveBackup, Restorable
<1>5. ASSUME NEW e \in Effects, Moves(e)
      PROVE  /\ Consistent(epoch, effect, grantEpoch, case, sessionEpoch)'
             /\ \A f \in Effects : Emission(f)'
             /\ DoubtHeld'
  <2>1. UNCHANGED <<epoch, operational, session, sessionEpoch, mustResolve, fencing, forgotten,
                    exposed>>
    BY <1>1, <1>5 DEF Moves, sessionVars
  <2>2. \A f \in Effects \ {e} :
           /\ effect'[f] = effect[f] /\ permit'[f] = permit[f] /\ case'[f] = case[f]
           /\ grantEpoch'[f] = grantEpoch[f] /\ adapter'[f] = adapter[f] /\ puts'[f] = puts[f]
    BY <1>1, <1>5 DEF Moves, Admits, Claims, Calls, Concludes, Recovers, TypeOK
  <2>3. Consistent(epoch, effect, grantEpoch, case, sessionEpoch)
    BY DEF RestoreInv
  <2>4. Consistent(epoch, effect, grantEpoch, case, sessionEpoch)'
    <3>1. effect'[e] \in EarlyEffects => case'[e] = "none"
      <4>1. effect[e] \in EarlyEffects => case[e] = "none"
        BY <2>3 DEF Consistent
      <4>2. CASE Admits(e) \/ Claims(e) \/ Calls(e)
        BY <1>1, <4>1, <4>2 DEF Admits, Claims, Calls, TypeOK, EarlyEffects, Unspent
      <4>3. CASE Concludes(e)
        BY <1>1, <4>3 DEF Concludes, TypeOK, EarlyEffects
      <4>4. CASE Recovers(e)
        BY <1>1, <4>1, <4>4 DEF Recovers, TypeOK, EarlyEffects
      <4> QED BY <1>5, <4>1, <4>2, <4>3, <4>4 DEF Moves
    <3>2. grantEpoch'[e] <= epoch
      <4>1. epoch \in Nat /\ grantEpoch[e] <= epoch
        BY <1>1, <2>3 DEF Consistent, TypeOK
      <4>2. grantEpoch'[e] \in {epoch, grantEpoch[e]}
        BY <1>1, <1>5 DEF Moves, Admits, Claims, Calls, Concludes, Recovers, TypeOK
      <4> QED BY <4>1, <4>2
    <3> QED BY <2>1, <2>2, <2>3, <3>1, <3>2 DEF Consistent
  <2>5. \A f \in Effects : Emission(f)'
    <3>1. Emission(e)
      BY DEF RestoreInv
    <3>2. Emission(e)'
      <4> USE <1>1, <2>1, <3>1 DEF TypeOK, Emission, InFlight, Unspent
      <4>1. CASE Admits(e)
        BY <4>1 DEF Admits
      <4>2. CASE Claims(e)
        <5>1. /\ effect'[e] = "dispatching" /\ puts'[e] = puts[e]
              /\ effect[e] = "admitted" /\ permit[e] = "issued" /\ grantEpoch[e] = epoch
          BY <4>2 DEF Claims
        <5>3. ~fencing
          BY <5>1
        <5>2. e \notin forgotten \union exposed => puts[e] = 0
          BY <5>1, <5>3
        <5> QED BY <5>1, <5>2 DEF Emission, Unspent
      <4>3. CASE Calls(e)
        BY <4>3 DEF Calls
      <4>4. CASE Concludes(e)
        BY <4>4 DEF Concludes
      <4>5. CASE Recovers(e)
        BY <4>5 DEF Recovers
      <4>6. CASE UNCHANGED <<effect, permit, grantEpoch, case, adapter, puts>>
        BY <4>6
      <4> QED BY <1>5, <4>1, <4>2, <4>3, <4>4, <4>5, <4>6 DEF Moves
    <3>3. ASSUME NEW f \in Effects \ {e} PROVE Emission(f)'
      BY <2>1, <2>2 DEF RestoreInv, Emission, InFlight, Unspent
    <3> QED BY <3>2, <3>3
  <2>6. DoubtHeld'
    <3> SUFFICES ASSUME NEW i \in Sessions, operational = "restore_suspended", Begun(i),
                        sessionEpoch[i] = epoch, NEW f \in Effects
                 PROVE  /\ effect'[f] \notin {"admitted", "dispatching"}
                        /\ effect'[f] = "uncertain" => f \in mustResolve[i]
      BY <2>1 DEF DoubtHeld, Begun
    <3>1. /\ effect[f] \notin {"admitted", "dispatching"}
          /\ effect[f] = "uncertain" => f \in mustResolve[i]
      BY DEF RestoreInv, DoubtHeld
    <3>2. effect'[f] # effect[f] => effect'[f] \in {"succeeded", "failed"}
      BY <1>1, <1>5 DEF Moves, Admits, Claims, Calls, Concludes, Recovers, TypeOK, Accepting
    <3> QED BY <3>1, <3>2
  <2> QED BY <2>4, <2>5, <2>6
<1>6. ASSUME AdvanceEpoch
      PROVE  /\ Consistent(epoch, effect, grantEpoch, case, sessionEpoch)'
             /\ \A f \in Effects : Emission(f)'
             /\ DoubtHeld'
  <2>1. /\ epoch' = epoch + 1 /\ operational' = "active" /\ epoch \in Nat
        /\ UNCHANGED <<effect, permit, grantEpoch, case, adapter, puts, sessionEpoch, fencing,
                       forgotten, exposed>>
    BY <1>1, <1>6 DEF AdvanceEpoch, Accepting, TypeOK, kernelVars, sessionVars
  <2>2. Consistent(epoch, effect, grantEpoch, case, sessionEpoch)
    BY DEF RestoreInv
  <2>3. /\ \A f \in Effects : grantEpoch[f] \in Nat /\ grantEpoch[f] <= epoch
        /\ \A i \in Sessions : sessionEpoch[i] \in Nat /\ sessionEpoch[i] <= epoch
    BY <1>1, <2>2 DEF Consistent, TypeOK, RestoreTypeOK
  <2>4. Consistent(epoch, effect, grantEpoch, case, sessionEpoch)'
    BY <2>1, <2>2, <2>3 DEF Consistent
  <2>5. \A f \in Effects : Emission(f)'
    BY <2>1, <2>3 DEF RestoreInv, Emission, InFlight, Unspent
  <2> QED BY <2>1, <2>4, <2>5 DEF DoubtHeld
<1>7. ASSUME KernelCrash
      PROVE  /\ Consistent(epoch, effect, grantEpoch, case, sessionEpoch)'
             /\ \A f \in Effects : Emission(f)'
             /\ DoubtHeld'
  <2>1. UNCHANGED <<operational, epoch, effect, permit, grantEpoch, case, adapter, puts,
                    session, sessionEpoch, mustResolve, fencing, forgotten, exposed>>
    BY <1>1, <1>7 DEF KernelCrash, kernelVars, sessionVars
  <2> QED BY <2>1 DEF RestoreInv, Consistent, Emission, InFlight, Unspent, DoubtHeld, Begun
<1>8. /\ Consistent(epoch, effect, grantEpoch, case, sessionEpoch)'
      /\ \A f \in Effects : Emission(f)'
      /\ DoubtHeld'
  BY <1>5, <1>6, <1>7, EffectSteps, StepMoves
<1> QED BY <1>2, <1>3, <1>4, <1>8 DEF RestoreInv
-----------------------------------------------------------------------------
(* What most steps of a restore leave alone.                                   *)
Untouched == UNCHANGED <<operational, epoch, effect, permit, grantEpoch, case, adapter, puts,
                         sessionEpoch, mustResolve, fencing, forgotten, exposed>>

LEMMA UntouchedKeeps ==
    ASSUME RestoreInv, Untouched, \A i \in Sessions : Begun(i)' => Begun(i)
    PROVE  /\ Consistent(epoch, effect, grantEpoch, case, sessionEpoch)'
           /\ \A e \in Effects : Emission(e)'
           /\ DoubtHeld'
<1>1. Consistent(epoch, effect, grantEpoch, case, sessionEpoch)'
  BY DEF RestoreInv, Untouched, Consistent
<1>2. \A e \in Effects : Emission(e)'
  BY DEF RestoreInv, Untouched, Emission, InFlight, Unspent
<1>3. DoubtHeld'
  BY DEF RestoreInv, Untouched, DoubtHeld
<1> QED BY <1>1, <1>2, <1>3

LEMMA DatabaseFields ==
    /\ Database.taken = backup.taken + 1 /\ Database.epoch = epoch
    /\ Database.effect = effect /\ Database.permit = permit /\ Database.brokered = brokered
    /\ Database.grantEpoch = grantEpoch /\ Database.execution = execution
    /\ Database.accountability = accountability /\ Database.obligation = obligation
    /\ Database.case = case /\ Database.reconPermits = reconPermits
    /\ Database.session = session /\ Database.sessionEpoch = sessionEpoch
    /\ Database.mustResolve = mustResolve /\ Database.projected = projected
  BY DEF Database

LEMMA TakeBackupKeeps ==
    ASSUME RestoreInv, TakeBackup
    PROVE  RestoreInv'
<1>1. /\ UNCHANGED <<vars, sessionVars, restores, fencing, forgotten, exposed>>
      /\ backup' = Database /\ drift' = FALSE
  BY DEF TakeBackup
<1>2. Untouched /\ \A i \in Sessions : Begun(i)' => Begun(i)
  BY <1>1 DEF vars, kernelVars, sessionVars, Untouched, Begun
<1>3. TypeOK' /\ ClaimsHeld'
  BY <1>1 DEF RestoreInv, RestoreTypeOK, TypeOK, ClaimsHeld, vars, kernelVars, storefrontVars
<1>4. RestoreTypeOK'
  <2>1. backup.taken \in Nat
    BY DEF RestoreInv, RestoreTypeOK
  <2>2. backup'.taken \in Nat
    BY <1>1, <2>1, DatabaseFields
  <2> QED BY <1>1, <1>3, <2>2 DEF RestoreInv, RestoreTypeOK, sessionVars
<1>5. Restorable(Database)
  BY DatabaseFields DEF RestoreInv, RestoreTypeOK, TypeOK, Restorable
<1>6. Restorable(backup)'
  BY <1>1, <1>5 DEF Restorable
<1> QED BY <1>2, <1>3, <1>4, <1>6, UntouchedKeeps DEF RestoreInv

LEMMA RestoreBytesKeeps ==
    ASSUME RestoreInv, RestoreBytes
    PROVE  RestoreInv'
<1>1. /\ Restorable(backup) /\ RestoreTypeOK /\ TypeOK
      /\ backup.epoch \in Nat /\ epoch' = backup.epoch
      /\ Consistent(backup.epoch, backup.effect, backup.grantEpoch, backup.case,
                    backup.sessionEpoch)
  BY DEF RestoreInv, RestoreTypeOK, RestoreBytes, Restorable
<1>2. /\ operational' = "active" /\ fencing' = TRUE /\ effect' = backup.effect
      /\ permit' = backup.permit /\ brokered' = backup.brokered
      /\ grantEpoch' = backup.grantEpoch /\ execution' = backup.execution
      /\ accountability' = backup.accountability /\ obligation' = backup.obligation
      /\ case' = backup.case /\ reconPermits' = backup.reconPermits
      /\ session' = backup.session /\ sessionEpoch' = backup.sessionEpoch
      /\ mustResolve' = backup.mustResolve /\ projected' = backup.projected
  BY DEF RestoreBytes
<1>3. /\ dispatcher' = [e \in Effects |-> "idle"] /\ reconciler' = [e \in Effects |-> NoReading]
      /\ drift' = FALSE /\ restores' = restores + 1
      /\ forgotten' = forgotten \union
            {e \in Effects : effect[e] # "none" /\ backup.effect[e] = "none"}
      /\ UNCHANGED <<lapsed, revoked, adapter, write, storefrontVars, puts, quiet, backup,
                     exposed>>
  BY DEF RestoreBytes
<1>4. TypeOK'
  <2>1. /\ effect' \in [Effects -> {"none", "admitted", "dispatching", "uncertain",
                                    "succeeded", "failed"}]
        /\ permit' \in [Effects -> {"none", "issued", "consumed", "expired"}]
        /\ brokered' \in [Effects -> BOOLEAN]
        /\ grantEpoch' \in [Effects -> Nat]
        /\ execution' \in
              [Effects -> {"none", "admitted", "uncertain", "succeeded", "failed"}]
        /\ accountability' \in [Effects -> {"none", "pending", "satisfied", "breached"}]
        /\ obligation' \in
              [Effects -> [Requirements -> {"none", "open", "satisfied", "breached"}]]
        /\ case' \in [Effects -> CaseStatus]
        /\ reconPermits' \in [Effects -> Seq(ReconPermit)]
    BY <1>1, <1>2 DEF Restorable
  <2>2. operational' \in {"active", "restore_suspended"} /\ epoch' \in Nat
    BY <1>1, <1>2
  <2>3. dispatcher' \in [Effects -> {"idle", "waiting"}] /\ reconciler' \in [Effects -> Reading]
    BY <1>3, ReadingFacts
  <2> QED BY <1>1, <1>3, <2>1, <2>2, <2>3 DEF TypeOK, storefrontVars
<1>5. ClaimsHeld'
  BY <1>3, ReadingFacts DEF ClaimsHeld
<1>6. RestoreTypeOK'
  <2>1. /\ session' \in [Sessions -> SessionStatus] /\ sessionEpoch' \in [Sessions -> Nat]
        /\ mustResolve' \in [Sessions -> SUBSET Effects] /\ projected' \in BOOLEAN
    BY <1>1, <1>2 DEF Restorable
  <2>2. /\ backup'.taken \in Nat /\ restores' \in Nat /\ drift' \in BOOLEAN
        /\ forgotten' \in SUBSET Effects /\ exposed' \in SUBSET Effects /\ fencing' \in BOOLEAN
    <3>1. backup.taken \in Nat /\ restores \in Nat /\ forgotten \in SUBSET Effects
      BY <1>1 DEF RestoreTypeOK
    <3>2. forgotten' \in SUBSET Effects
      BY <1>3, <3>1
    <3>3. restores' \in Nat
      <4>1. restores' = restores + 1
        BY <1>3
      <4> QED BY <3>1, <4>1
    <3>4. drift' \in BOOLEAN
      BY <1>3
    <3>5. backup'.taken \in Nat
      BY <1>3, <3>1
    <3>6. exposed' \in SUBSET Effects /\ fencing' \in BOOLEAN
      BY <1>1, <1>2, <1>3 DEF RestoreTypeOK
    <3> QED BY <3>2, <3>3, <3>4, <3>5, <3>6
  <2> QED BY <1>4, <2>1, <2>2 DEF RestoreTypeOK
<1>7. /\ \A e \in Effects : grantEpoch'[e] \in Nat /\ grantEpoch'[e] <= epoch'
      /\ \A i \in Sessions : sessionEpoch'[i] \in Nat /\ sessionEpoch'[i] <= epoch'
      /\ \A e \in Effects : effect'[e] \in EarlyEffects => case'[e] = "none"
  <2>1. /\ \A e \in Effects : backup.grantEpoch[e] \in Nat /\ backup.grantEpoch[e] <= backup.epoch
        /\ \A i \in Sessions :
              backup.sessionEpoch[i] \in Nat /\ backup.sessionEpoch[i] <= backup.epoch
        /\ \A e \in Effects : backup.effect[e] \in EarlyEffects => backup.case[e] = "none"
    BY <1>1 DEF Restorable, Consistent
  <2> QED BY <1>1, <1>2, <2>1
<1>8. Consistent(epoch, effect, grantEpoch, case, sessionEpoch)'
  BY <1>1, <1>7 DEF Consistent
<1>9. ASSUME NEW e \in Effects PROVE Emission(e)'
  BY <1>1, <1>2, <1>3, <1>7 DEF RestoreInv, Emission, InFlight, Unspent
<1>10. DoubtHeld'
  BY <1>2 DEF DoubtHeld
<1>11. Restorable(backup)'
  BY <1>1, <1>3 DEF Restorable
<1> QED BY <1>5, <1>6, <1>8, <1>9, <1>10, <1>11 DEF RestoreInv

(* The fence is of an epoch in which nothing has been granted or begun.        *)
LEMMA FenceKeeps ==
    ASSUME RestoreInv, FenceRestored
    PROVE  RestoreInv'
<1>1. /\ RestoreTypeOK /\ TypeOK /\ ClaimsHeld
      /\ Consistent(epoch, effect, grantEpoch, case, sessionEpoch)
  BY DEF RestoreInv, RestoreTypeOK
<1>2. /\ operational' = "restore_suspended" /\ epoch' = epoch + 1 /\ fencing' = FALSE
      /\ UNCHANGED <<kernelVars, lapsed, revoked, dispatcher, adapter, write, reconciler,
                     storefrontVars, puts, quiet, sessionVars, backup, drift, restores,
                     forgotten, exposed>>
  BY DEF FenceRestored, FencedEpoch
<1>3. TypeOK'
  BY <1>1, <1>2 DEF TypeOK, kernelVars, storefrontVars
<1>4. RestoreTypeOK'
  BY <1>1, <1>2, <1>3 DEF RestoreTypeOK, sessionVars
<1>5. ClaimsHeld'
  BY <1>1, <1>2 DEF ClaimsHeld, kernelVars
<1>6. /\ epoch \in Nat
      /\ \A e \in Effects : grantEpoch[e] \in Nat /\ grantEpoch[e] <= epoch
      /\ \A i \in Sessions : sessionEpoch[i] \in Nat /\ sessionEpoch[i] <= epoch
  BY <1>1 DEF Consistent, TypeOK, RestoreTypeOK
<1>7. Consistent(epoch, effect, grantEpoch, case, sessionEpoch)'
  BY <1>1, <1>2, <1>6 DEF Consistent, kernelVars, sessionVars
<1>8. ASSUME NEW e \in Effects PROVE Emission(e)'
  <2>1. grantEpoch'[e] # epoch'
    BY <1>2, <1>6 DEF kernelVars
  <2> QED BY <1>2, <2>1 DEF RestoreInv, Emission, InFlight, Unspent, kernelVars
<1>9. DoubtHeld'
  BY <1>2, <1>6 DEF DoubtHeld, sessionVars
<1>10. HaveBackup' => Restorable(backup)'
  BY <1>2 DEF RestoreInv, HaveBackup, Restorable
<1> QED BY <1>4, <1>5, <1>7, <1>8, <1>9, <1>10 DEF RestoreInv

(* Without a fence the permits that came back unspent are written off.         *)
LEMMA UnfencedKeeps ==
    ASSUME RestoreInv, LeaveUnfenced
    PROVE  RestoreInv'
<1>1. /\ RestoreTypeOK /\ TypeOK /\ ClaimsHeld
  BY DEF RestoreInv, RestoreTypeOK
<1>2. /\ fencing' = FALSE /\ exposed' = exposed \union {e \in Effects : Unspent(e)}
      /\ UNCHANGED <<vars, sessionVars, backup, drift, restores, forgotten>>
  BY DEF LeaveUnfenced
<1>3. TypeOK' /\ ClaimsHeld'
  BY <1>1, <1>2 DEF TypeOK, ClaimsHeld, vars, kernelVars, storefrontVars
<1>4. RestoreTypeOK'
  BY <1>1, <1>2, <1>3 DEF RestoreTypeOK, sessionVars
<1>5. Consistent(epoch, effect, grantEpoch, case, sessionEpoch)'
  BY <1>2 DEF RestoreInv, Consistent, vars, kernelVars, sessionVars
<1>6. ASSUME NEW e \in Effects PROVE Emission(e)'
  <2>1. Unspent(e)' <=> Unspent(e)
    BY <1>2 DEF Unspent, vars, kernelVars
  <2> QED BY <1>2, <2>1 DEF RestoreInv, Emission, InFlight, vars, kernelVars
<1>7. DoubtHeld'
  BY <1>2 DEF RestoreInv, DoubtHeld, Begun, vars, kernelVars, sessionVars
<1>8. HaveBackup' => Restorable(backup)'
  BY <1>2 DEF RestoreInv, HaveBackup, Restorable
<1> QED BY <1>3, <1>4, <1>5, <1>6, <1>7, <1>8 DEF RestoreInv

(* Beginning a session puts every effect that is not decided in doubt, under    *)
(* a permit of its own, in the epoch after the bundle's.                            *)
LEMMA BeginKeeps ==
    ASSUME RestoreInv, NEW i \in Sessions, BeginRestore(i)
    PROVE  RestoreInv'
<1>1. /\ RestoreTypeOK /\ TypeOK /\ ClaimsHeld /\ HaveBackup /\ Restorable(backup)
      /\ Consistent(epoch, effect, grantEpoch, case, sessionEpoch)
      /\ backup.epoch \in Nat /\ epoch \in Nat
  BY DEF RestoreInv, RestoreTypeOK, TypeOK, BeginRestore, Restorable
<1>2. /\ operational' = "restore_suspended" /\ epoch' = backup.epoch + 1
      /\ \/ operational = "restore_suspended" /\ epoch' = epoch
         \/ operational = "active" /\ epoch' = epoch + 1
      /\ ~Begun(i) /\ \A j \in Sessions : ~Unfinished(j)
  BY <1>1 DEF BeginRestore, PreFenced, NextEpoch, Begun
<1>3. /\ sessionEpoch' = [sessionEpoch EXCEPT ![i] = epoch']
      /\ \E s \in {"suspended", "reconciling"} : session' = [session EXCEPT ![i] = s]
      /\ mustResolve' = [mustResolve EXCEPT ![i] = Candidates]
      /\ drift' = TRUE
      /\ UNCHANGED <<brokered, grantEpoch, obligation, lapsed, revoked, dispatcher, adapter,
                     write, reconciler, storefrontVars, puts, quiet, projected, backup,
                     restores, fencing, forgotten, exposed>>
  BY DEF BeginRestore
<1>4. \A e \in Effects :
         /\ e \in Undecided => /\ effect'[e] = "uncertain" /\ case'[e] = "open"
                               /\ permit'[e] \in {permit[e], "expired"}
                               /\ reconPermits'[e] = Append(reconPermits[e], NewPermit)
         /\ e \notin Undecided =>
               /\ effect'[e] = effect[e] /\ case'[e] = case[e] /\ permit'[e] = permit[e]
               /\ reconPermits'[e] = reconPermits[e]
  BY DEF BeginRestore
<1>5. \A e \in Effects :
         /\ reconPermits'[e] \in Seq(ReconPermit)
         /\ DOMAIN reconPermits[e] \subseteq DOMAIN reconPermits'[e]
  <2> TAKE e \in Effects
  <2>1. reconPermits[e] \in Seq(ReconPermit)
    BY <1>1 DEF TypeOK
  <2> QED BY <1>4, <2>1, ReadingFacts, AppendToSequence
<1>6. TypeOK'
  <2>1. reconPermits' \in [Effects -> Seq(ReconPermit)]
    <3>1. reconPermits' = [e \in Effects |-> reconPermits'[e]]
      BY DEF BeginRestore
    <3> QED BY <1>5, <3>1
  <2>2. /\ effect' \in [Effects -> {"none", "admitted", "dispatching", "uncertain",
                                    "succeeded", "failed"}]
        /\ permit' \in [Effects -> {"none", "issued", "consumed", "expired"}]
        /\ case' \in [Effects -> CaseStatus]
    BY <1>1 DEF BeginRestore, TypeOK, CaseStatus
  <2>3. /\ execution' \in
              [Effects -> {"none", "admitted", "uncertain", "succeeded", "failed"}]
        /\ accountability' \in [Effects -> {"none", "pending", "satisfied", "breached"}]
    BY <1>1 DEF BeginRestore, TypeOK
  <2> QED BY <1>1, <1>2, <1>3, <2>1, <2>2, <2>3 DEF TypeOK, storefrontVars
<1>7. ClaimsHeld'
  BY <1>1, <1>3, <1>5 DEF ClaimsHeld
<1>8. Candidates \subseteq Effects /\ Undecided = {e \in Candidates : case[e] = "none"}
  BY DEF Candidates, Undecided
<1>9. RestoreTypeOK'
  <2>1. /\ session' \in [Sessions -> SessionStatus] /\ sessionEpoch' \in [Sessions -> Nat]
        /\ mustResolve' \in [Sessions -> SUBSET Effects]
    BY <1>1, <1>2, <1>3, <1>8 DEF RestoreTypeOK, SessionStatus
  <2> QED BY <1>1, <1>3, <1>6, <2>1 DEF RestoreTypeOK
<1>10. \A e \in Effects : effect'[e] \in {"none", "admitted", "dispatching"} =>
          effect'[e] = "none" /\ effect[e] = "none" /\ e \notin Undecided
  BY <1>1, <1>4 DEF Consistent, EarlyEffects, Candidates, Undecided
<1>11. Consistent(epoch, effect, grantEpoch, case, sessionEpoch)'
  <2>1. \A e \in Effects : effect'[e] \in EarlyEffects => case'[e] = "none"
    BY <1>1, <1>4, <1>10 DEF Consistent, EarlyEffects
  <2>2. \A e \in Effects : grantEpoch'[e] <= epoch'
    BY <1>1, <1>2, <1>3 DEF Consistent, TypeOK
  <2>3. \A j \in Sessions : sessionEpoch'[j] <= epoch'
    BY <1>1, <1>2, <1>3 DEF Consistent, RestoreTypeOK
  <2> QED BY <2>1, <2>2, <2>3 DEF Consistent
<1>12. ASSUME NEW e \in Effects PROVE Emission(e)'
  <2>1. Emission(e)
    BY DEF RestoreInv
  <2>2. effect'[e] # "admitted"
    BY <1>10
  <2>3. effect'[e] = "none" => effect[e] = "none"
    BY <1>10
  <2> QED BY <1>3, <2>1, <2>2, <2>3 DEF Emission, InFlight, Unspent
<1>13. DoubtHeld'
  <2> SUFFICES ASSUME NEW j \in Sessions, Begun(j)', sessionEpoch'[j] = epoch', NEW e \in Effects
               PROVE  /\ effect'[e] \notin {"admitted", "dispatching"}
                      /\ effect'[e] = "uncertain" => e \in mustResolve'[j]
    BY DEF DoubtHeld
  <2>1. effect'[e] \notin {"admitted", "dispatching"}
    BY <1>10
  <2>2. effect'[e] = "uncertain" => e \in Candidates
    BY <1>4 DEF Candidates, Undecided
  <2>3. CASE j = i
    BY <1>1, <1>3, <2>1, <2>2, <2>3 DEF RestoreTypeOK
  <2>4. CASE j # i
    <3>1. Begun(j) /\ sessionEpoch[j] = epoch' /\ mustResolve'[j] = mustResolve[j]
      BY <1>1, <1>3, <2>4 DEF Begun, RestoreTypeOK
    <3>2. operational = "restore_suspended" /\ epoch' = epoch
      BY <1>1, <1>2, <3>1 DEF Consistent, RestoreTypeOK
    <3>3. /\ effect[e] \notin {"admitted", "dispatching"}
          /\ effect[e] = "uncertain" => e \in mustResolve[j]
      BY <3>1, <3>2 DEF RestoreInv, DoubtHeld
    <3> QED BY <2>1, <2>2, <3>1, <3>3 DEF Candidates
  <2> QED BY <2>3, <2>4
<1>14. Restorable(backup)'
  BY <1>1, <1>3 DEF Restorable
<1> QED BY <1>7, <1>9, <1>11, <1>12, <1>13, <1>14 DEF RestoreInv
-----------------------------------------------------------------------------
LEMMA RestKeeps ==
    ASSUME RestoreInv,
           \/ \E i \in Sessions : RebuildProjection(i) \/ VerifyRestore(i)
           \/ UNCHANGED allVars
    PROVE  RestoreInv'
<1>1. /\ RestoreTypeOK /\ TypeOK /\ ClaimsHeld
  BY DEF RestoreInv, RestoreTypeOK
<1>2. /\ UNCHANGED <<operational, epoch, kernelVars, lapsed, revoked, dispatcher, adapter, write,
                     reconciler, storefrontVars, puts, quiet, sessionEpoch, mustResolve, backup,
                     restores, fencing, forgotten, exposed>>
      /\ drift' \in BOOLEAN /\ projected' \in BOOLEAN
      /\ \/ UNCHANGED session
         \/ \E i \in Sessions : Begun(i) /\ session' = [session EXCEPT ![i] = "verified"]
  BY <1>1 DEF RebuildProjection, VerifyRestore, allVars, vars, restoreVars,
     sessionVars, RestoreTypeOK
<1>3. TypeOK'
  BY <1>1, <1>2 DEF TypeOK, kernelVars, storefrontVars
<1>4. RestoreTypeOK' /\ \A i \in Sessions : Begun(i)' => Begun(i)
  BY <1>1, <1>2, <1>3 DEF RestoreTypeOK, SessionStatus, Begun
<1>5. ClaimsHeld' /\ Untouched
  BY <1>1, <1>2 DEF ClaimsHeld, kernelVars, Untouched
<1>6. HaveBackup' => Restorable(backup)'
  BY <1>2 DEF RestoreInv, HaveBackup, Restorable
<1> QED BY <1>4, <1>5, <1>6, UntouchedKeeps DEF RestoreInv

LEMMA ResumeKeeps ==
    ASSUME RestoreInv, NEW i \in Sessions, ResumeRestore(i)
    PROVE  RestoreInv'
<1>1. /\ RestoreTypeOK /\ TypeOK /\ ClaimsHeld
  BY DEF RestoreInv, RestoreTypeOK
<1>2. /\ UNCHANGED <<epoch, kernelVars, lapsed, revoked, dispatcher, adapter, write, reconciler,
                     storefrontVars, puts, quiet, sessionEpoch, mustResolve, projected, backup,
                     restores, fencing, forgotten, exposed>>
      /\ session' = [session EXCEPT ![i] = "resumed"]
      /\ operational' = "active" /\ drift' = TRUE
  BY DEF ResumeRestore, Reopened
<1>3. TypeOK'
  BY <1>1, <1>2 DEF TypeOK, kernelVars, storefrontVars
<1>4. RestoreTypeOK'
  BY <1>1, <1>2, <1>3 DEF RestoreTypeOK, SessionStatus
<1>5. ClaimsHeld'
  BY <1>1, <1>2 DEF ClaimsHeld, kernelVars
<1>6. HaveBackup' => Restorable(backup)'
  BY <1>2 DEF RestoreInv, HaveBackup, Restorable
<1>7. Consistent(epoch, effect, grantEpoch, case, sessionEpoch)'
  BY <1>2 DEF RestoreInv, Consistent, kernelVars
<1>8. \A e \in Effects : Emission(e)'
  BY <1>2 DEF RestoreInv, Emission, InFlight, Unspent, kernelVars
<1>9. DoubtHeld'
  BY <1>2 DEF DoubtHeld
<1> QED BY <1>4, <1>5, <1>6, <1>7, <1>8, <1>9 DEF RestoreInv
-----------------------------------------------------------------------------
(* The invariant of restores, whatever bundle is restored when, and however     *)
(* often.                                                                         *)
THEOREM RestoreInvariant == RestoreSpec => []RestoreInv
<1>1. RestoreInv /\ [RestoreNext]_allVars => RestoreInv'
  BY EffectStepKeeps, TakeBackupKeeps, RestoreBytesKeeps, FenceKeeps, UnfencedKeeps, BeginKeeps,
     RestKeeps, ResumeKeeps DEF RestoreNext, Restore
<1> QED BY <1>1, InitRestores, PTL DEF RestoreSpec

(* Types: of the database, of the sessions and of what is outside of both.     *)
THEOREM RestoreTypes == RestoreSpec => []RestoreTypeOK
<1>1. RestoreInv => RestoreTypeOK
  BY DEF RestoreInv
<1> QED BY <1>1, RestoreInvariant, PTL

(* A correction the database still knows is not emitted twice, before, between  *)
(* and after the two steps of a restore, unless one was left unfenced after its    *)
(* first (local-backup.js:55-65).                                                    *)
THEOREM NotEmittedTwice == RestoreSpec => []EmittedOnce
<1>1. RestoreInv => EmittedOnce
  BY DEF RestoreInv, Emission, EmittedOnce
<1> QED BY <1>1, RestoreInvariant, PTL

(* While a session fences the Environment, whatever is in doubt is its           *)
(* obligation, and nothing can be dispatched (docs/environment-restore.md:32).     *)
THEOREM DoubtIsHeld == RestoreSpec => []DoubtIsObligation
<1>1. RestoreInv => DoubtIsObligation
  BY DEF RestoreInv, DoubtHeld, DoubtIsObligation, Begun, Unfinished
<1> QED BY <1>1, RestoreInvariant, PTL
=============================================================================
