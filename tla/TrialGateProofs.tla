--------------------------- MODULE TrialGateProofs ---------------------------
(***************************************************************************)
(* For any number of workers and orders, any count and any threshold: the  *)
(* trial ends on evidence only, an order is free or charged but not both,  *)
(* and the trial outlives its evidence by a bounded number of orders.      *)
(***************************************************************************)
EXTENDS TrialGate, FiniteSetTheorems, TLAPS

\* Whoever is about to end the trial, or has done so without committing, holds
\* the order that completes the evidence.
Evidence ==
    /\ \A w \in Workers :
          wpc[w] = "end" \/ w \in ending =>
              phase[w] = "trial" /\ Enough(trialRows \cup {worder[w]})
    /\ \A w \in ending : wpc[w] = "commit"
    /\ EndsOnEvidence

\* Records that wait for their commit are new and of different orders.
Distinct ==
    /\ \A w \in Workers : Uncommitted(w) => ~Taken(w)
    /\ \A v, w \in Workers :
          Uncommitted(v) /\ Uncommitted(w) /\ worder[v] = worder[w] => v = w
    /\ OneCommission

\* The workers that will record a free order and leave the trial on.
Stale ==
    {w \in Workers :
        /\ phase[w] = "trial"
        /\ \/ /\ wpc[w] \in {"insert", "gate"}
              /\ ~RevenueMet(seen[w] \cup {worder[w]})
           \/ wpc[w] = "commit" /\ w \notin ending}

Late ==
    /\ status = "trial" /\ ~Enough(trialRows) => late = 0
    /\ status = "trial" /\ Enough(trialRows) =>
          late + Cardinality(Stale) <= Cardinality(Workers) - 1 + faults
    /\ OvershootBounded

-----------------------------------------------------------------------------
(* Types.                                                                  *)

LEMMA InitTypes == Init => TypeOK
BY DEF Init, TypeOK

LEMMA StepTypes == TypeOK /\ [Next]_vars => TypeOK'
<1> SUFFICES ASSUME TypeOK, [Next]_vars PROVE TypeOK'
  OBVIOUS
<1> USE DEF TypeOK, rows, workers, Goto, Fault
<1>1. CASE Approve
  BY <1>1 DEF Approve
<1>2. CASE Close
  BY <1>2 DEF Close
<1>3. ASSUME NEW w \in Workers, Record(w) PROVE TypeOK'
  <2>1. ASSUME NEW o \in Orders, Begin(w, o) PROVE TypeOK'
    BY <2>1 DEF Begin
  <2>2. CASE ReadRevenue(w)
    BY <2>2 DEF ReadRevenue
  <2>3. CASE Insert(w)
    BY <2>3 DEF Insert, Done
  <2>4. CASE CheckGate(w)
    BY <2>4 DEF CheckGate
  <2>5. CASE CheckFails(w)
    BY <2>5 DEF CheckFails
  <2>6. CASE EndTrial(w)
    BY <2>6 DEF EndTrial
  <2>7. CASE Commit(w)
    BY <2>7 DEF Commit, Done
  <2>8. CASE Rollback(w)
    BY <2>8 DEF Rollback, Done
  <2>9. QED
    BY <1>3, <2>1, <2>2, <2>3, <2>4, <2>5, <2>6, <2>7, <2>8 DEF Record
<1>4. CASE UNCHANGED vars
  BY <1>4 DEF vars
<1>5. QED
  BY <1>1, <1>2, <1>3, <1>4 DEF Next

\* TypeOK is an invariant: every transaction holds an order of the shop.
THEOREM TrialTypes == Spec => []TypeOK
BY InitTypes, StepTypes, PTL DEF Spec

-----------------------------------------------------------------------------
(* Evidence.                                                               *)

\* More orders are more evidence.
LEMMA EnoughGrows ==
    ASSUME NEW S \in SUBSET Orders, NEW T \in SUBSET Orders, S \subseteq T, Enough(S)
    PROVE  Enough(T)
<1>1. IsFiniteSet(T) /\ IsFiniteSet(S)
  BY TrialAssumption, FS_Subset
<1>2. Cardinality(S) <= Cardinality(T) /\ Cardinality(S) \in Nat /\ Cardinality(T) \in Nat
  BY <1>1, FS_Subset, FS_CardinalityType
<1>3. RevenueMet(S) /\ Cardinality(S) >= MinOrders
  BY DEF Enough
<1>4. RevenueMet(T)
  BY <1>3, TrialAssumption
<1>5. Cardinality(T) >= MinOrders
  BY <1>2, <1>3, TrialAssumption
<1>6. QED
  BY <1>4, <1>5 DEF Enough

LEMMA InitEvidence == Init => Evidence
BY DEF Init, Evidence, EndsOnEvidence

\* Both reads of the gate see no more than is committed when the trial ends.
LEMMA GateIsEvidence ==
    ASSUME TypeOK, NEW w \in Workers, wpc[w] = "gate", GateMet(w),
           seen[w] \subseteq trialRows
    PROVE  Enough(trialRows \cup {worder[w]})
<1>1. worder[w] \in Orders /\ trialRows \subseteq Orders /\ seen[w] \in SUBSET Orders
  BY DEF TypeOK
<1>2. RevenueMet(trialRows \cup {worder[w]})
  <2>1. /\ seen[w] \cup {worder[w]} \in SUBSET Orders
        /\ trialRows \cup {worder[w]} \in SUBSET Orders
        /\ seen[w] \cup {worder[w]} \subseteq trialRows \cup {worder[w]}
    BY <1>1
  <2>2. RevenueMet(seen[w] \cup {worder[w]})
    BY DEF GateMet
  <2>3. QED
    BY <2>1, <2>2, TrialAssumption
<1>3. QED
  BY <1>2 DEF GateMet, Enough

\* What a transaction has read is committed and stays so; only a trial's
\* transaction reaches the gate.
Read ==
    \A w \in Workers :
        /\ seen[w] \subseteq trialRows
        /\ wpc[w] \in {"revenue", "gate", "end"} => phase[w] = "trial"

LEMMA InitRead == Init => Read
BY DEF Init, Read

LEMMA StepRead == TypeOK /\ Read /\ [Next]_vars => Read'
<1> SUFFICES ASSUME TypeOK, Read, [Next]_vars PROVE Read'
  OBVIOUS
<1> USE DEF TypeOK, Read, rows, workers, Goto
<1>1. CASE Approve
  BY <1>1 DEF Approve
<1>2. CASE Close
  BY <1>2 DEF Close
<1>3. ASSUME NEW w \in Workers, Record(w) PROVE Read'
  <2>1. ASSUME NEW o \in Orders, Begin(w, o) PROVE Read'
    BY <2>1 DEF Begin
  <2>2. CASE ReadRevenue(w)
    BY <2>2 DEF ReadRevenue
  <2>3. CASE Insert(w)
    BY <2>3 DEF Insert, Done
  <2>4. CASE CheckGate(w)
    BY <2>4 DEF CheckGate
  <2>5. CASE CheckFails(w)
    BY <2>5 DEF CheckFails
  <2>6. CASE EndTrial(w)
    BY <2>6 DEF EndTrial
  <2>7. CASE Commit(w)
    BY <2>7 DEF Commit, Done
  <2>8. CASE Rollback(w)
    BY <2>8 DEF Rollback, Done
  <2>9. QED
    BY <1>3, <2>1, <2>2, <2>3, <2>4, <2>5, <2>6, <2>7, <2>8 DEF Record
<1>4. CASE UNCHANGED vars
  BY <1>4 DEF vars
<1>5. QED
  BY <1>1, <1>2, <1>3, <1>4 DEF Next

\* What the environment and the steps that decide nothing leave alone.
LEMMA SameEvidence ==
    ASSUME TypeOK, Evidence, NEW w \in Workers, Goto(w, wpc'[w]),
           wpc'[w] \notin {"end"}, w \notin ending',
           ending' \subseteq ending, UNCHANGED trialRows,
           \A v \in Workers \ {w} : worder'[v] = worder[v] /\ phase'[v] = phase[v],
           status' = "completed" => status = "completed"
    PROVE  Evidence'
BY DEF Evidence, EndsOnEvidence, TypeOK, Goto, Enough

LEMMA StepEvidence == TypeOK /\ Read /\ Evidence /\ [Next]_vars => Evidence'
<1> SUFFICES ASSUME TypeOK, Read, Evidence, [Next]_vars PROVE Evidence'
  OBVIOUS
<1> USE DEF rows, workers
<1>1. CASE Approve
  BY <1>1 DEF Approve, Evidence, EndsOnEvidence, Enough
<1>2. CASE Close
  BY <1>2 DEF Close, Evidence, EndsOnEvidence, Enough
<1>3. ASSUME NEW w \in Workers, Record(w) PROVE Evidence'
  <2>0. w \in ending => wpc[w] = "commit"
    BY DEF Evidence
  <2>1. ASSUME NEW o \in Orders, Begin(w, o) PROVE Evidence'
    BY <2>0, <2>1, SameEvidence DEF Begin, Goto, TypeOK
  <2>2. CASE ReadRevenue(w)
    BY <2>0, <2>2, SameEvidence DEF ReadRevenue, Goto, TypeOK
  <2>3. CASE Insert(w)
    BY <2>0, <2>3, SameEvidence DEF Insert, Done, Goto, TypeOK
  <2>4. CASE CheckGate(w)
    <3>1. CASE status = "trial" /\ GateMet(w)
      <4>1. Enough(trialRows \cup {worder[w]}) /\ phase[w] = "trial"
        BY <2>4, <3>1, GateIsEvidence DEF CheckGate, Read
      <4>2. QED
        BY <2>0, <2>4, <3>1, <4>1 DEF CheckGate, Goto, TypeOK, Evidence, EndsOnEvidence, Enough
    <3>2. CASE ~(status = "trial" /\ GateMet(w))
      BY <2>0, <2>4, <3>2, SameEvidence DEF CheckGate, Goto, TypeOK
    <3>3. QED
      BY <3>1, <3>2
  <2>5. CASE CheckFails(w)
    BY <2>0, <2>5, SameEvidence DEF CheckFails, Goto, TypeOK
  <2>6. CASE EndTrial(w)
    BY <2>6 DEF EndTrial, Goto, TypeOK, Evidence, EndsOnEvidence, Enough
  <2>7. CASE Commit(w)
    <3>1. trialRows \subseteq trialRows' /\ trialRows' \subseteq Orders
      BY <2>7 DEF Commit, TypeOK
    <3>2. ASSUME NEW v \in Workers \ {w}, Enough(trialRows \cup {worder[v]}), wpc[v] # "idle"
          PROVE  Enough(trialRows' \cup {worder[v]})
      <4>1. /\ trialRows \cup {worder[v]} \in SUBSET Orders
            /\ trialRows' \cup {worder[v]} \in SUBSET Orders
        BY <3>1, <3>2 DEF TypeOK
      <4>2. QED
        BY <3>1, <3>2, <4>1, EnoughGrows
    <3>3. ASSUME status' = "completed" PROVE Enough(trialRows')
      <4>1. CASE w \in ending
        BY <2>7, <4>1 DEF Commit, Evidence
      <4>2. CASE w \notin ending
        <5>1. Enough(trialRows)
          BY <2>7, <3>3, <4>2 DEF Commit, Evidence, EndsOnEvidence
        <5>2. QED
          BY <3>1, <5>1, EnoughGrows DEF TypeOK
      <4>3. QED
        BY <4>1, <4>2
    <3>4. ASSUME NEW v \in Workers, wpc'[v] = "end" \/ v \in ending'
          PROVE  phase'[v] = "trial" /\ Enough(trialRows' \cup {worder'[v]})
      <4>1. /\ v # w /\ (wpc[v] = "end" \/ v \in ending)
            /\ worder'[v] = worder[v] /\ phase'[v] = phase[v]
        BY <2>7, <3>4 DEF Commit, Done, Goto, TypeOK
      <4>2. wpc[v] # "idle" /\ phase[v] = "trial" /\ Enough(trialRows \cup {worder[v]})
        BY <4>1 DEF Evidence
      <4>3. QED
        BY <3>2, <4>1, <4>2
    <3>5. \A v \in ending' : wpc'[v] = "commit"
      BY <2>7 DEF Commit, Done, Goto, TypeOK, Evidence
    <3>6. (\A v \in Workers : wpc'[v] = "end" \/ v \in ending' =>
              phase'[v] = "trial" /\ Enough(trialRows' \cup {worder'[v]}))
      BY <3>4
    <3>7. EndsOnEvidence'
      BY <3>3 DEF EndsOnEvidence, Enough
    <3>8. QED
      BY <3>5, <3>6, <3>7 DEF Evidence, Enough
  <2>8. CASE Rollback(w)
    BY <2>8, SameEvidence DEF Rollback, Done, Goto, TypeOK
  <2>9. QED
    BY <1>3, <2>1, <2>2, <2>3, <2>4, <2>5, <2>6, <2>7, <2>8 DEF Record
<1>4. CASE UNCHANGED vars
  BY <1>4 DEF vars, Evidence, EndsOnEvidence, Enough
<1>5. QED
  BY <1>1, <1>2, <1>3, <1>4 DEF Next

\* A completed trial has the orders and the revenue to show for it.
THEOREM TrialEndsOnEvidence == Spec => []EndsOnEvidence
<1>1. TypeOK /\ Read /\ Evidence => EndsOnEvidence
  BY DEF Evidence
<1>2. QED
  BY <1>1, InitTypes, StepTypes, InitRead, StepRead, InitEvidence, StepEvidence, PTL DEF Spec

\* No worker that ends the trial undoes an approval: the row's lock and the
\* condition of its UPDATE see to it.
Locked ==
    /\ ending # {} => status = "trial"
    /\ \A v, w \in ending : v = w
    /\ \A w \in ending : phase[w] = "trial" /\ wpc[w] = "commit"

LEMMA InitLocked == Init => Locked
BY DEF Init, Locked

LEMMA StepLocked == TypeOK /\ Read /\ Locked /\ [Next]_vars => Locked'
<1> SUFFICES ASSUME TypeOK, Read, Locked, [Next]_vars PROVE Locked'
  OBVIOUS
<1> USE DEF TypeOK, Read, Locked, rows, workers, Goto
<1>1. CASE Approve
  BY <1>1 DEF Approve
<1>2. CASE Close
  BY <1>2 DEF Close
<1>3. ASSUME NEW w \in Workers, Record(w) PROVE Locked'
  <2>1. ASSUME NEW o \in Orders, Begin(w, o) PROVE Locked'
    BY <2>1 DEF Begin
  <2>2. CASE ReadRevenue(w)
    BY <2>2 DEF ReadRevenue
  <2>3. CASE Insert(w)
    BY <2>3 DEF Insert, Done
  <2>4. CASE CheckGate(w)
    BY <2>4 DEF CheckGate
  <2>5. CASE CheckFails(w)
    BY <2>5 DEF CheckFails
  <2>6. CASE EndTrial(w)
    BY <2>6 DEF EndTrial, StillTrial
  <2>7. CASE Commit(w)
    BY <2>7 DEF Commit, Done
  <2>8. CASE Rollback(w)
    BY <2>8 DEF Rollback, Done
  <2>9. QED
    BY <1>3, <2>1, <2>2, <2>3, <2>4, <2>5, <2>6, <2>7, <2>8 DEF Record
<1>4. CASE UNCHANGED vars
  BY <1>4 DEF vars
<1>5. QED
  BY <1>1, <1>2, <1>3, <1>4 DEF Next

\* The merchant's approval is not undone.
THEOREM ApprovalStands == Spec => PaidStaysPaid
<1>1. TypeOK /\ Locked /\ [Next]_vars => [status = "paid" => status' # "completed"]_vars
  <2> SUFFICES ASSUME TypeOK, Locked, Next, status = "paid" PROVE status' # "completed"
    OBVIOUS
  <2>1. ending = {}
    BY DEF Locked
  <2>2. ASSUME NEW w \in Workers, Record(w) PROVE status' = "paid"
    BY <2>1, <2>2 DEF Record, Begin, ReadRevenue, Insert, CheckGate, CheckFails, EndTrial,
       Commit, Rollback
  <2>3. QED
    BY <2>2 DEF Next, Approve, Close
<1>2. QED
  BY <1>1, InitTypes, StepTypes, InitRead, StepRead, InitLocked, StepLocked, PTL
     DEF Spec, PaidStaysPaid

-----------------------------------------------------------------------------
(* One commission for an order.                                            *)

LEMMA InitDistinct == Init => Distinct
BY DEF Init, Distinct, Uncommitted, OneCommission

LEMMA StepDistinct == TypeOK /\ Distinct /\ [Next]_vars => Distinct'
<1> SUFFICES ASSUME TypeOK, Distinct, [Next]_vars PROVE Distinct'
  OBVIOUS
<1> USE DEF TypeOK, Distinct, Uncommitted, Taken, OneCommission, rows, workers, Goto
<1>1. CASE Approve
  BY <1>1 DEF Approve
<1>2. CASE Close
  BY <1>2 DEF Close
<1>3. ASSUME NEW w \in Workers, Record(w) PROVE Distinct'
  <2>1. ASSUME NEW o \in Orders, Begin(w, o) PROVE Distinct'
    BY <2>1 DEF Begin
  <2>2. CASE ReadRevenue(w)
    BY <2>2 DEF ReadRevenue
  <2>3. CASE Insert(w)
    BY <2>3 DEF Insert, Done
  <2>4. CASE CheckGate(w)
    BY <2>4 DEF CheckGate
  <2>5. CASE CheckFails(w)
    BY <2>5 DEF CheckFails
  <2>6. CASE EndTrial(w)
    BY <2>6 DEF EndTrial
  <2>7. CASE Commit(w)
    BY <2>7 DEF Commit, Done
  <2>8. CASE Rollback(w)
    BY <2>8 DEF Rollback, Done
  <2>9. QED
    BY <1>3, <2>1, <2>2, <2>3, <2>4, <2>5, <2>6, <2>7, <2>8 DEF Record
<1>4. CASE UNCHANGED vars
  BY <1>4 DEF vars
<1>5. QED
  BY <1>1, <1>2, <1>3, <1>4 DEF Next

\* No order is both free and charged.
THEOREM FreeOrCharged == Spec => []OneCommission
<1>1. Distinct => OneCommission
  BY DEF Distinct
<1>2. QED
  BY <1>1, InitTypes, StepTypes, InitDistinct, StepDistinct, PTL DEF Spec

-----------------------------------------------------------------------------
(* How long the trial outlives its evidence.                               *)

\* There are no more stale workers than workers.
LEMMA StaleCount ==
    /\ IsFiniteSet(Stale) /\ Cardinality(Stale) \in Nat
    /\ Cardinality(Workers) \in Nat \ {0}
<1>1. Stale \in SUBSET Workers
  BY DEF Stale
<1>2. IsFiniteSet(Workers) /\ Workers # {}
  BY TrialAssumption
<1>3. QED
  BY <1>1, <1>2, FS_Subset, FS_CardinalityType, FS_EmptySet

LEMMA StaleCountNext == IsFiniteSet(Stale') /\ Cardinality(Stale') \in Nat
<1>1. Stale' \in SUBSET Workers
  BY DEF Stale
<1>2. QED
  BY <1>1, TrialAssumption, FS_Subset, FS_CardinalityType

\* A step that records nothing and makes no more workers stale than it costs in
\* faults.
LEMMA NothingRecorded ==
    ASSUME TypeOK, TypeOK', Late, UNCHANGED <<trialRows, late>>,
           status' = "trial" => status = "trial", faults' >= faults,
           status' = "trial" /\ Enough(trialRows) =>
               \/ Stale' \subseteq Stale
               \/ \E w \in Workers : Stale' \subseteq Stale \cup {w} /\ faults' = faults + 1
    PROVE  Late'
<1>1. /\ Cardinality(Stale) \in Nat /\ Cardinality(Stale') \in Nat
      /\ Cardinality(Workers) \in Nat /\ IsFiniteSet(Stale)
      /\ late \in Nat /\ faults \in Nat /\ faults' \in Nat
  BY StaleCount, StaleCountNext DEF TypeOK
<1>2. status' = "trial" /\ ~Enough(trialRows') => late' = 0
  BY DEF Late, Enough
<1>3. OvershootBounded'
  BY <1>1 DEF Late, OvershootBounded
<1>4. ASSUME status' = "trial", Enough(trialRows')
      PROVE  late' + Cardinality(Stale') <= Cardinality(Workers) - 1 + faults'
  <2>1. status = "trial" /\ Enough(trialRows)
    BY <1>4 DEF Enough
  <2>2. late + Cardinality(Stale) <= Cardinality(Workers) - 1 + faults
    BY <2>1 DEF Late
  <2>3. CASE Stale' \subseteq Stale
    <3>1. Cardinality(Stale') <= Cardinality(Stale)
      BY <1>1, <2>3, FS_Subset
    <3>2. QED
      BY <1>1, <2>2, <3>1
  <2>4. ASSUME NEW w \in Workers, Stale' \subseteq Stale \cup {w}, faults' = faults + 1
        PROVE  late' + Cardinality(Stale') <= Cardinality(Workers) - 1 + faults'
    <3>1. /\ IsFiniteSet(Stale \cup {w})
          /\ \/ Cardinality(Stale \cup {w}) = Cardinality(Stale)
             \/ Cardinality(Stale \cup {w}) = Cardinality(Stale) + 1
      BY <1>1, FS_AddElement
    <3>2. Cardinality(Stale') <= Cardinality(Stale \cup {w})
      BY <2>4, <3>1, FS_Subset
    <3>3. QED
      BY <1>1, <2>2, <2>4, <3>1, <3>2
  <2>5. QED
    BY <1>4, <2>1, <2>3, <2>4
<1>5. QED
  BY <1>2, <1>3, <1>4 DEF Late, Enough

LEMMA InitLate == Init => Late
<1> SUFFICES ASSUME Init PROVE Late
  OBVIOUS
<1>1. Stale = {}
  BY DEF Init, Stale
<1>2. Cardinality(Stale) = 0
  BY <1>1, FS_EmptySet
<1>3. QED
  BY <1>2, StaleCount DEF Init, Late, OvershootBounded

\* A transaction that checks the gate once the evidence is complete ends the
\* trial, unless it read the revenue before.
LEMMA FreshEnds ==
    ASSUME TypeOK, Read, NEW w \in Workers, wpc[w] = "gate", Enough(trialRows),
           ~GateMet(w)
    PROVE  w \in Stale
<1>1. trialRows \in SUBSET Orders /\ trialRows \cup {worder[w]} \in SUBSET Orders
  BY DEF TypeOK
<1>2. Enough(trialRows \cup {worder[w]})
  BY <1>1, EnoughGrows
<1>3. phase[w] = "trial"
  BY DEF Read
<1>4. ~RevenueMet(seen[w] \cup {worder[w]})
  BY <1>2 DEF Enough, GateMet
<1>5. QED
  BY <1>3, <1>4 DEF Stale

LEMMA CommitLate ==
    ASSUME TypeOK, TypeOK', Read, Locked, Late, NEW w \in Workers, Commit(w)
    PROVE  Late'
<1>1. /\ Cardinality(Stale) \in Nat /\ Cardinality(Stale') \in Nat
      /\ Cardinality(Workers) \in Nat \ {0} /\ IsFiniteSet(Stale)
      /\ late \in Nat /\ faults \in Nat /\ faults' = faults
  BY StaleCount, StaleCountNext DEF TypeOK, Commit
<1>2. Stale' \subseteq Stale \ {w}
  BY DEF Commit, Done, Goto, Stale, TypeOK
<1>3. trialRows \subseteq trialRows' /\ trialRows' \in SUBSET Orders /\ trialRows \in SUBSET Orders
  BY DEF Commit, TypeOK
<1>4. Enough(trialRows) => Enough(trialRows')
  BY <1>3, EnoughGrows
<1>5. CASE status' # "trial"
  <2>1. late' = late
    BY <1>5 DEF Commit
  <2>2. QED
    BY <1>1, <1>5, <2>1 DEF Late, OvershootBounded
<1>6. CASE status' = "trial" /\ ~Enough(trialRows)
  <2>1. status = "trial" /\ late' = late
    BY <1>6 DEF Commit
  <2>2. late = 0
    BY <1>6, <2>1 DEF Late
  <2>3. IsFiniteSet(Workers) /\ Stale' \in SUBSET (Workers \ {w})
    BY <1>2, TrialAssumption DEF Stale
  <2>4. Cardinality(Workers \ {w}) = Cardinality(Workers) - 1 /\ IsFiniteSet(Workers \ {w})
    BY <2>3, FS_RemoveElement
  <2>5. Cardinality(Stale') <= Cardinality(Workers) - 1
    BY <2>3, <2>4, FS_Subset
  <2>6. QED
    BY <1>1, <2>1, <2>2, <2>5 DEF Late, OvershootBounded
<1>7. CASE status' = "trial" /\ Enough(trialRows)
  <2>1. status = "trial" /\ w \notin ending /\ Enough(trialRows')
    BY <1>4, <1>7 DEF Commit
  <2>2. late + Cardinality(Stale) <= Cardinality(Workers) - 1 + faults
    BY <1>7, <2>1 DEF Late
  <2>3. late' + Cardinality(Stale') <= late + Cardinality(Stale)
    <3>1. CASE phase[w] = "trial"
      <4>1. w \in Stale
        BY <2>1, <3>1 DEF Commit, Stale
      <4>2. Cardinality(Stale \ {w}) = Cardinality(Stale) - 1 /\ IsFiniteSet(Stale \ {w})
        BY <1>1, <4>1, FS_RemoveElement
      <4>3. Cardinality(Stale') <= Cardinality(Stale) - 1
        BY <1>2, <4>2, FS_Subset
      <4>4. late' = late + 1
        BY <1>7, <3>1 DEF Commit
      <4>5. QED
        BY <1>1, <4>3, <4>4
    <3>2. CASE phase[w] # "trial"
      <4>1. late' = late
        BY <3>2 DEF Commit
      <4>2. Cardinality(Stale') <= Cardinality(Stale)
        BY <1>1, <1>2, FS_Subset
      <4>3. QED
        BY <1>1, <4>1, <4>2
    <3>3. QED
      BY <3>1, <3>2
  <2>4. late' \in Nat
    BY DEF TypeOK
  <2>5. late' + Cardinality(Stale') <= Cardinality(Workers) - 1 + faults'
    BY <1>1, <2>2, <2>3, <2>4
  <2>6. OvershootBounded'
    BY <1>1, <2>4, <2>5 DEF OvershootBounded
  <2>7. QED
    BY <2>1, <2>5, <2>6 DEF Late, Enough
<1>8. QED
  BY <1>5, <1>6, <1>7

LEMMA StepLate ==
    TypeOK /\ TypeOK' /\ Read /\ Locked /\ Late /\ [Next]_vars => Late'
<1> SUFFICES ASSUME TypeOK, TypeOK', Read, Locked, Late, [Next]_vars PROVE Late'
  OBVIOUS
<1> USE DEF rows, workers
<1>0. faults \in Nat
  BY DEF TypeOK
<1>1. CASE Approve
  BY <1>0, <1>1, NothingRecorded DEF Approve
<1>2. CASE Close
  BY <1>0, <1>2, NothingRecorded DEF Close
<1>3. ASSUME NEW w \in Workers, Record(w) PROVE Late'
  <2>1. ASSUME NEW o \in Orders, Begin(w, o) PROVE Late'
    <3>1. Stale' \subseteq Stale
      BY <2>1 DEF Begin, Goto, Stale, TypeOK
    <3>2. QED
      BY <1>0, <2>1, <3>1, NothingRecorded DEF Begin
  <2>2. CASE ReadRevenue(w)
    <3>1. ASSUME Enough(trialRows) PROVE Stale' \subseteq Stale
      <4>1. trialRows \in SUBSET Orders /\ trialRows \cup {worder[w]} \in SUBSET Orders
        BY <2>2 DEF ReadRevenue, TypeOK
      <4>2. RevenueMet(trialRows \cup {worder[w]})
        BY <3>1, <4>1, EnoughGrows DEF Enough
      <4>3. RevenueMet(seen'[w] \cup {worder'[w]})
        BY <2>2, <4>2 DEF ReadRevenue, TypeOK
      <4>4. w \notin Stale'
        BY <2>2, <4>3 DEF ReadRevenue, Goto, Stale, TypeOK
      <4>5. \A v \in Workers \ {w} : v \in Stale' => v \in Stale
        BY <2>2 DEF ReadRevenue, Goto, Stale, TypeOK
      <4>6. Stale' \subseteq Workers
        BY DEF Stale
      <4>7. QED
        BY <4>4, <4>5, <4>6
    <3>2. QED
      BY <1>0, <2>2, <3>1, NothingRecorded DEF ReadRevenue
  <2>3. CASE Insert(w)
    <3>1. Stale' \subseteq Stale
      BY <2>3 DEF Insert, Done, Goto, Stale, TypeOK
    <3>2. QED
      BY <1>0, <2>3, <3>1, NothingRecorded DEF Insert
  <2>4. CASE CheckGate(w)
    <3>1. ASSUME status = "trial", Enough(trialRows) PROVE Stale' \subseteq Stale
      <4>1. CASE GateMet(w)
        BY <2>4, <3>1, <4>1 DEF CheckGate, Goto, Stale, TypeOK
      <4>2. CASE ~GateMet(w)
        <5>1. w \in Stale
          BY <2>4, <3>1, <4>2, FreshEnds DEF CheckGate
        <5>2. \A v \in Workers \ {w} : v \in Stale' => v \in Stale
          BY <2>4 DEF CheckGate, Goto, Stale, TypeOK
        <5>3. Stale' \subseteq Workers
          BY DEF Stale
        <5>4. QED
          BY <5>1, <5>2, <5>3
      <4>3. QED
        BY <4>1, <4>2
    <3>2. QED
      BY <1>0, <2>4, <3>1, NothingRecorded DEF CheckGate
  <2>5. CASE CheckFails(w)
    <3>1. Stale' \subseteq Stale \cup {w}
      BY <2>5 DEF CheckFails, Goto, Stale, TypeOK
    <3>2. QED
      BY <1>0, <2>5, <3>1, NothingRecorded DEF CheckFails, Fault
  <2>6. CASE EndTrial(w)
    <3>1. ASSUME status = "trial" PROVE Stale' \subseteq Stale
      BY <2>6, <3>1 DEF EndTrial, StillTrial, Goto, Stale, TypeOK
    <3>2. QED
      BY <1>0, <2>6, <3>1, NothingRecorded DEF EndTrial
  <2>7. CASE Commit(w)
    BY <2>7, CommitLate
  <2>8. CASE Rollback(w)
    <3>1. Stale' \subseteq Stale \cup {w}
      BY <2>8 DEF Rollback, Done, Goto, Stale, TypeOK
    <3>2. QED
      BY <1>0, <2>8, <3>1, NothingRecorded DEF Rollback, Fault
  <2>9. QED
    BY <1>3, <2>1, <2>2, <2>3, <2>4, <2>5, <2>6, <2>7, <2>8 DEF Record
<1>4. CASE UNCHANGED vars
  <2>1. Stale' = Stale
    BY <1>4 DEF vars, Stale
  <2>2. QED
    BY <1>0, <1>4, <2>1, NothingRecorded DEF vars
<1>5. QED
  BY <1>1, <1>2, <1>3, <1>4 DEF Next

\* The trial outlives its evidence by at most one order for each other worker
\* and one for each failure.
THEOREM TrialEndsSoon == Spec => []OvershootBounded
<1>1. Late => OvershootBounded
  BY DEF Late
<1>2. QED
  BY <1>1, InitTypes, StepTypes, InitRead, StepRead, InitLocked, StepLocked,
     InitLate, StepLate, PTL DEF Spec
=============================================================================
