----------------------- MODULE OrderAttributionProofs -----------------------
(***************************************************************************)
(* Theorems about OrderAttribution: its types, the safety of the debt and  *)
(* of the commission that follows it, and that a settled debt stays so     *)
(* unless a normaliser was overtaken.                                      *)
(***************************************************************************)
EXTENDS OrderAttribution, TLAPS

USE AttributionAssumption DEF NoOrder

\* A row that a normaliser found without a debt is still so, unless another
\* normaliser wrote it since: only normalisers take on a debt.
NoDebtMeanwhile ==
    \A n \in Normalisers :
        norder[n] # NoOrder /\ nstate[n] \in {"absent", "none"} /\ n \notin overtaken =>
            state[norder[n]] = nstate[n]

\* A row about to be inserted is not there yet, and nobody else is at its order.
InsertsAlone ==
    \A n \in Normalisers :
        norder[n] # NoOrder /\ nstate[n] = "absent" =>
            /\ state[norder[n]] = "absent"
            /\ \A m \in Normalisers \ {n} : norder[m] # norder[n]

IInv == /\ TypeOK /\ DoneIsAttributed /\ UnbilledIsAccounted
        /\ NoDebtMeanwhile /\ InsertsAlone

LEMMA InitTypes == Init => TypeOK
  BY DEF Init, TypeOK, States

LEMMA InitIInv == Init => IInv
  <1>1. Init => /\ DoneIsAttributed /\ UnbilledIsAccounted
                /\ NoDebtMeanwhile /\ InsertsAlone
    BY DEF Init, DoneIsAttributed, UnbilledIsAccounted, NoDebtMeanwhile, InsertsAlone
  <1> QED BY <1>1, InitTypes DEF IInv

-----------------------------------------------------------------------------
\* A worker without a job keeps the types.
LEMMA JobDoneTypes ==
  ASSUME TypeOK, NEW w \in Workers, JobDone(w)
  PROVE  /\ wpc' \in [Workers -> {"idle", "load", "store", "bill"}]
         /\ worder' \in [Workers -> Orders \cup {NoOrder}]
         /\ \A v \in Workers : wpc'[v] # "idle" => worder'[v] \in Orders
         /\ wtry' \in [Workers -> 0 .. Tries]
  <1>1. 0 \in 0 .. Tries
    OBVIOUS
  <1> QED BY <1>1 DEF JobDone, TypeOK

\* So does a job that is published or comes back.
LEMMA JobBackTypes ==
  ASSUME TypeOK, NEW o \in Orders, jobs' = [jobs EXCEPT ![o] = @ + 1]
  PROVE  jobs' \in [Orders -> Nat]
  <1>1. jobs \in [Orders -> Nat] /\ jobs[o] + 1 \in Nat
    BY DEF TypeOK
  <1> QED BY <1>1

LEMMA FaultTypes == TypeOK /\ Fault => faults' \in Nat
  BY DEF Fault, TypeOK

\* Every step keeps the types.
LEMMA TypesKept == TypeOK /\ [Next]_vars => TypeOK'
  <1> SUFFICES ASSUME TypeOK, [Next]_vars PROVE TypeOK'
    OBVIOUS
  <1> USE DEF TypeOK, States
  <1>1. ASSUME NEW n \in Normalisers, NEW o \in Orders, SelectOrder(n, o) PROVE TypeOK'
    BY <1>1 DEF SelectOrder, Fault, orderData, workers, billing, sweep
  <1>2. ASSUME NEW n \in Normalisers, WriteOrder(n) PROVE TypeOK'
    <2>1. norder[n] \in Orders
      BY <1>2 DEF WriteOrder
    <2>2. StateAfterUpsert(n) \in States
      BY <2>1 DEF StateAfterUpsert
    <2>3. jobs' \in [Orders -> Nat] /\ faults' \in Nat
      BY <1>2, <2>1 DEF WriteOrder, PublishOrLose, Publish, Fault
    <2>4. overtaken' \subseteq Normalisers
      BY <1>2 DEF WriteOrder, Normalising
    <2> QED BY <1>2, <2>1, <2>2, <2>3, <2>4 DEF WriteOrder, NormaliserDone, workers, sweep
  <1>3. ASSUME NEW n \in Normalisers, WriteFails(n) PROVE TypeOK'
    BY <1>3 DEF WriteFails, NormaliserDone, Fault, orderData, workers, billing, sweep
  <1>4. ASSUME NEW w \in Workers, NEW o \in Orders, TakeJob(w, o) PROVE TypeOK'
    BY <1>4 DEF TakeJob, orderData, normaliser, billing, sweep
  <1>5. ASSUME NEW w \in Workers, Handle(w) PROVE TypeOK'
    <2>1. CASE Skip(w)
      BY <2>1, JobDoneTypes DEF Skip, orderData, normaliser, billing, sweep
    <2>2. CASE AlreadyDone(w)
      BY <2>2, JobDoneTypes DEF AlreadyDone, orderData, normaliser, billing, sweep
    <2>3. CASE Compute(w)
      BY <2>3 DEF Compute, orderData, normaliser, billing, sweep
    <2>4. CASE Store(w)
      <3>1. /\ wpc' \in [Workers -> {"idle", "load", "store", "bill"}]
            /\ worder' \in [Workers -> Orders \cup {NoOrder}]
            /\ \A v \in Workers : wpc'[v] # "idle" => worder'[v] \in Orders
            /\ wtry' \in [Workers -> 0 .. Tries]
        BY <2>4, JobDoneTypes DEF Store
      <3>2. attributed' \in [Orders -> {"no", "nothing", "earning"}]
        BY <2>4 DEF Store
      <3> QED BY <2>4, <3>1, <3>2 DEF Store, normaliser, sweep
    <2>5. CASE Bill(w)
      <3>1. commissions' \subseteq Orders /\ forgone' \subseteq Orders
        BY <2>5 DEF Bill
      <3> QED BY <2>5, <3>1, JobDoneTypes DEF Bill, orderData, normaliser, sweep
    <2> QED BY <1>5, <2>1, <2>2, <2>3, <2>4, <2>5 DEF Handle
  <1>6. ASSUME NEW w \in Workers, Disturb(w) PROVE TypeOK'
    <2>0. w \in Workers /\ (wpc[w] # "idle" => worder[w] \in Orders)
      OBVIOUS
    <2>1. CASE TurnAway(w)
      BY <2>0, <2>1, JobDoneTypes, FaultTypes DEF TurnAway, orderData, normaliser, billing, sweep
    <2>2. CASE TryFails(w)
      BY <2>2 DEF TryFails, Fault, JobDone, orderData, normaliser, billing, sweep
    <2>3. CASE ForgoBilling(w)
      BY <2>0, <2>3, JobDoneTypes, FaultTypes DEF ForgoBilling, orderData, normaliser, sweep
    <2>4. CASE Crash(w)
      <3>0. worder[w] \in Orders /\ jobs' = [jobs EXCEPT ![worder[w]] = @ + 1]
        BY <2>0, <2>4 DEF Crash
      <3>1. jobs' \in [Orders -> Nat]
        BY <3>0, JobBackTypes
      <3>2. forgone' \subseteq Orders
        BY <2>0, <2>4 DEF Crash
      <3> QED BY <2>4, <3>1, <3>2, JobDoneTypes, FaultTypes
            DEF Crash, orderData, normaliser, sweep
    <2>5. CASE Redeliver(w)
      <3>0. worder[w] \in Orders /\ jobs' = [jobs EXCEPT ![worder[w]] = @ + 1]
        BY <2>0, <2>5 DEF Redeliver
      <3>1. jobs' \in [Orders -> Nat]
        BY <3>0, JobBackTypes
      <3> QED BY <2>5, <3>1, FaultTypes
            DEF Redeliver, orderData, normaliser, workers, billing, sweep
    <2>6. CASE StoreFails(w)
      BY <2>0, <2>6, JobDoneTypes, FaultTypes DEF StoreFails, orderData, normaliser, billing, sweep
    <2> QED BY <1>6, <2>1, <2>2, <2>3, <2>4, <2>5, <2>6 DEF Disturb
  <1>7. CASE FindMissed
    BY <1>7 DEF FindMissed, Newest, Unattributed, orderData, normaliser, workers,
                billing
  <1>8. ASSUME NEW o \in Orders, PublishMissed(o) PROVE TypeOK'
    BY <1>8 DEF PublishMissed, PublishOrLose, Publish, Fault, orderData, normaliser,
                workers, billing
  <1>9. CASE CountAttempts
    BY <1>9 DEF CountAttempts, normaliser, workers, billing
  <1>10. CASE SweepFails
    BY <1>10 DEF SweepFails, Fault, orderData, normaliser, workers, billing
  <1>11. ASSUME NEW o \in Orders, Age(o) PROVE TypeOK'
    BY <1>11 DEF Age, Fault, normaliser, workers, billing, sweep
  <1>12. CASE UNCHANGED vars
    BY <1>12 DEF vars, orderData, normaliser, workers, billing, sweep
  <1> QED BY <1>1, <1>2, <1>3, <1>4, <1>5, <1>6, <1>7, <1>8, <1>9, <1>10, <1>11,
             <1>12 DEF Next, Normalise, Reconcile

-----------------------------------------------------------------------------
\* The column changes only when a debt is taken on where there was none, paid,
\* given up, or taken on again by a normaliser that was overtaken.
LEMMA DebtSteps ==
  ASSUME IInv, [Next]_vars, NEW o \in Orders
  PROVE  \/ state'[o] = state[o]
         \/ state[o] \in {"absent", "none"} /\ state'[o] \in {"none", "pending"}
         \/ state[o] = "pending" /\ state'[o] \in {"done", "failed"}
         \/ /\ state'[o] = "pending"
            /\ \E n \in overtaken : norder[n] = o /\ norder'[n] = NoOrder
  <1> USE DEF IInv, TypeOK, States
  <1>1. ASSUME NEW n \in Normalisers, WriteOrder(n)
        PROVE  \/ state'[o] = state[o]
               \/ state[o] \in {"absent", "none"} /\ state'[o] \in {"none", "pending"}
               \/ state'[o] = "pending" /\ n \in overtaken /\ norder[n] = o
                                       /\ norder'[n] = NoOrder
    <2>1. /\ state' = [state EXCEPT ![norder[n]] = StateAfterUpsert(n)]
          /\ norder[n] \in Orders /\ norder'[n] = NoOrder
      BY <1>1 DEF WriteOrder, NormaliserDone
    <2>2. CASE o # norder[n]
      BY <2>1, <2>2
    <2>3. CASE o = norder[n] /\ nstate[n] = "absent"
      BY <2>1, <2>3 DEF StateAfterUpsert, InsertsAlone
    <2>4. CASE o = norder[n] /\ nstate[n] = "none" /\ n \notin overtaken
      BY <2>1, <2>4 DEF StateAfterUpsert, NoDebtMeanwhile
    <2>5. CASE o = norder[n] /\ nstate[n] # "absent" /\ n \in overtaken
      BY <2>1, <2>5 DEF StateAfterUpsert
    <2>6. CASE o = norder[n] /\ nstate[n] \notin {"absent", "none"}
      BY <2>1, <2>6 DEF StateAfterUpsert
    <2> QED BY <2>2, <2>3, <2>4, <2>5, <2>6
  <1>2. ASSUME NEW w \in Workers, Store(w) PROVE
              \/ state'[o] = state[o]
              \/ state[o] = "pending" /\ state'[o] \in {"done", "failed"}
    BY <1>2 DEF Store
  <1>3. CASE CountAttempts
    BY <1>3 DEF CountAttempts
  <1>4. CASE state' = state
    BY <1>4
  <1>5. \/ state' = state \/ CountAttempts
        \/ (\E n \in Normalisers : WriteOrder(n)) \/ \E w \in Workers : Store(w)
    BY DEF Next, Normalise, Reconcile, Handle, Disturb, SelectOrder, WriteFails,
           TakeJob, Skip, AlreadyDone, Compute, Bill, TurnAway, TryFails, StoreFails,
           ForgoBilling, Crash, Redeliver, FindMissed, PublishMissed, SweepFails,
           Age, vars, orderData
  <1> QED BY <1>1, <1>2, <1>3, <1>4, <1>5

-----------------------------------------------------------------------------
\* What can happen to the orders being normalised, and to their rows meanwhile.
LEMMA NormaliserSteps ==
  ASSUME IInv, [Next]_vars
  PROVE  \/ \E n \in Normalisers :
               \/ \E o \in Orders : SelectOrder(n, o)
               \/ WriteOrder(n) \/ WriteFails(n)
         \/ /\ UNCHANGED normaliser
            /\ \A o \in Orders : state[o] \in {"absent", "none"} => state'[o] = state[o]
  <1>1. ASSUME state' = state \/ CountAttempts \/ \E w \in Workers : Store(w)
        PROVE  \A o \in Orders : state[o] \in {"absent", "none"} => state'[o] = state[o]
    BY <1>1 DEF IInv, TypeOK, CountAttempts, Store
  <1>2. \/ \E n \in Normalisers :
              \/ \E o \in Orders : SelectOrder(n, o)
              \/ WriteOrder(n) \/ WriteFails(n)
        \/ /\ UNCHANGED normaliser
           /\ state' = state \/ CountAttempts \/ \E w \in Workers : Store(w)
    BY DEF Next, Normalise, Reconcile, Handle, Disturb, TakeJob, Skip,
           AlreadyDone, Compute, Bill, TurnAway, TryFails, StoreFails, ForgoBilling, Crash,
           Redeliver, FindMissed, PublishMissed, SweepFails, Age, vars, orderData,
           Store, CountAttempts
  <1> QED BY <1>1, <1>2

LEMMA NoDebtKept == IInv /\ [Next]_vars => NoDebtMeanwhile'
  <1> SUFFICES ASSUME IInv, [Next]_vars, NEW n \in Normalisers,
                      norder'[n] # NoOrder, nstate'[n] \in {"absent", "none"},
                      n \notin overtaken'
               PROVE  state'[norder'[n]] = nstate'[n]
    BY DEF NoDebtMeanwhile
  <1> USE DEF IInv, TypeOK, States, NoDebtMeanwhile
  <1>1. ASSUME NEW m \in Normalisers, NEW o \in Orders, SelectOrder(m, o)
        PROVE  state'[norder'[n]] = nstate'[n]
    BY <1>1 DEF SelectOrder, orderData
  <1>2. ASSUME NEW m \in Normalisers, WriteOrder(m)
        PROVE  state'[norder'[n]] = nstate'[n]
    <2>1. m # n /\ norder'[n] = norder[n] /\ nstate'[n] = nstate[n]
      BY <1>2 DEF WriteOrder, NormaliserDone
    <2>2. norder[n] # norder[m] /\ n \notin overtaken
      BY <1>2, <2>1 DEF WriteOrder, Normalising
    <2>3. state'[norder[n]] = state[norder[n]]
      BY <1>2, <2>2 DEF WriteOrder
    <2> QED BY <2>1, <2>2, <2>3
  <1>3. ASSUME NEW m \in Normalisers, WriteFails(m)
        PROVE  state'[norder'[n]] = nstate'[n]
    BY <1>3 DEF WriteFails, NormaliserDone, orderData
  <1>4. CASE /\ UNCHANGED normaliser
             /\ \A o \in Orders : state[o] \in {"absent", "none"} => state'[o] = state[o]
    <2>1. norder' = norder /\ nstate' = nstate /\ overtaken' = overtaken
      BY <1>4 DEF normaliser
    <2>2. norder[n] \in Orders /\ state[norder[n]] = nstate[n]
      BY <2>1
    <2> QED BY <1>4, <2>1, <2>2
  <1> QED BY <1>1, <1>2, <1>3, <1>4, NormaliserSteps

LEMMA AloneKept == IInv /\ [Next]_vars => InsertsAlone'
  <1> SUFFICES ASSUME IInv, [Next]_vars, NEW n \in Normalisers,
                      norder'[n] # NoOrder, nstate'[n] = "absent"
               PROVE  /\ state'[norder'[n]] = "absent"
                      /\ \A m \in Normalisers \ {n} : norder'[m] # norder'[n]
    BY DEF InsertsAlone
  <1> USE DEF IInv, TypeOK, States, InsertsAlone
  <1> DEFINE Goal == /\ state'[norder'[n]] = "absent"
                     /\ \A m \in Normalisers \ {n} : norder'[m] # norder'[n]
  <1>1. ASSUME NEW k \in Normalisers, NEW o \in Orders, SelectOrder(k, o) PROVE Goal
    <2>1. state[o] = "absent" => \A m \in Normalisers : norder[m] # o
      BY <1>1 DEF SelectOrder, Normalising
    <2> QED BY <1>1, <2>1 DEF SelectOrder, orderData
  <1>2. ASSUME NEW k \in Normalisers, WriteOrder(k) PROVE Goal
    <2>1. k # n /\ norder'[n] = norder[n] /\ nstate'[n] = nstate[n]
      BY <1>2 DEF WriteOrder, NormaliserDone
    <2>2. norder[k] # norder[n] /\ norder' = [norder EXCEPT ![k] = NoOrder]
      BY <1>2, <2>1 DEF WriteOrder, NormaliserDone
    <2>3. state'[norder[n]] = state[norder[n]]
      BY <1>2, <2>2 DEF WriteOrder
    <2> QED BY <2>1, <2>2, <2>3
  <1>3. ASSUME NEW k \in Normalisers, WriteFails(k) PROVE Goal
    BY <1>3 DEF WriteFails, NormaliserDone, orderData
  <1>4. CASE /\ UNCHANGED normaliser
             /\ \A o \in Orders : state[o] \in {"absent", "none"} => state'[o] = state[o]
    <2>1. norder' = norder /\ nstate' = nstate
      BY <1>4 DEF normaliser
    <2>2. norder[n] \in Orders /\ state[norder[n]] = "absent"
      BY <2>1
    <2> QED BY <1>4, <2>1, <2>2
  <1> QED BY <1>1, <1>2, <1>3, <1>4, NormaliserSteps

-----------------------------------------------------------------------------
\* No step forgets an attribution.
LEMMA AttributionsStay ==
  ASSUME TypeOK, [Next]_vars, NEW o \in Orders, attributed[o] # "no"
  PROVE  attributed'[o] # "no"
  <1>1. attributed' = attributed \/ \E w \in Workers : Store(w)
    BY DEF Next, Normalise, Reconcile, Handle, Disturb, SelectOrder, WriteOrder,
           WriteFails, TakeJob, Skip, AlreadyDone, Compute, Bill, TurnAway, TryFails, StoreFails,
           ForgoBilling, Crash, Redeliver, FindMissed, PublishMissed, CountAttempts,
           SweepFails, Age, vars, billing
  <1> QED BY <1>1 DEF Store, TypeOK

\* A debt that becomes paid is paid by a worker storing the attribution.
LEMMA DonePaid == IInv /\ [Next]_vars => DoneIsAttributed'
  <1> SUFFICES ASSUME IInv, [Next]_vars, NEW o \in Orders, state'[o] = "done"
               PROVE  attributed'[o] # "no"
    BY DEF DoneIsAttributed
  <1> USE DEF IInv
  <1>1. CASE state[o] = "done"
    BY <1>1, AttributionsStay DEF DoneIsAttributed
  <1>2. ASSUME NEW w \in Workers, Store(w), worder[w] = o PROVE attributed'[o] # "no"
    BY <1>2 DEF Store, TypeOK
  <1>3. CASE state[o] # "done"
    <2>1. state[o] = "pending" /\ state'[o] = "done"
      BY <1>3, DebtSteps
    <2>2. ~CountAttempts
      BY <2>1 DEF CountAttempts, TypeOK
    <2>3. \E w \in Workers : Store(w)
      <3>1. ASSUME NEW n \in Normalisers, WriteOrder(n) PROVE FALSE
        <4>1. state' = [state EXCEPT ![norder[n]] = StateAfterUpsert(n)] /\ o = norder[n]
          BY <1>3, <2>1, <3>1 DEF WriteOrder, TypeOK
        <4> QED BY <1>3, <2>1, <4>1 DEF StateAfterUpsert, TypeOK
      <3> QED BY <2>1, <2>2, <3>1
            DEF Next, Normalise, Reconcile, Handle, Disturb, SelectOrder, WriteFails,
                TakeJob, Skip, AlreadyDone, Compute, Bill, TurnAway, TryFails, StoreFails,
                ForgoBilling, Crash, Redeliver, FindMissed, PublishMissed, SweepFails,
                Age, vars, orderData
    <2> QED BY <1>2, <2>1, <2>3 DEF Store, TypeOK
  <1> QED BY <1>1, <1>3

-----------------------------------------------------------------------------
\* What UnbilledIsAccounted says of one order.
Accounted(o) ==
    attributed[o] = "earning" /\ o \notin commissions =>
        o \in forgone \/ \E w \in Workers : wpc[w] = "bill" /\ worder[w] = o

\* A worker that is not billing may change hands freely.
LEMMA OtherHandsKept ==
  ASSUME IInv, NEW w \in Workers, wpc[w] # "bill",
         UNCHANGED billing,
         \A v \in Workers \ {w} : wpc'[v] = wpc[v] /\ worder'[v] = worder[v]
  PROVE  UnbilledIsAccounted'
  <1> SUFFICES ASSUME NEW o \in Orders, attributed[o] = "earning",
                      o \notin commissions, o \notin forgone
               PROVE  \E v \in Workers : wpc'[v] = "bill" /\ worder'[v] = o
    BY DEF UnbilledIsAccounted, billing
  <1>1. PICK v \in Workers : wpc[v] = "bill" /\ worder[v] = o
    BY DEF IInv, UnbilledIsAccounted
  <1> QED BY <1>1

LEMMA UnbilledKept == IInv /\ [Next]_vars => UnbilledIsAccounted'
  <1> SUFFICES ASSUME IInv, [Next]_vars PROVE UnbilledIsAccounted'
    OBVIOUS
  <1> USE DEF IInv
  <1>1. ASSUME UNCHANGED <<attributed, commissions, forgone, wpc, worder>>
        PROVE  UnbilledIsAccounted'
    BY <1>1 DEF UnbilledIsAccounted
  <1>2. ASSUME NEW w \in Workers, NEW o \in Orders, TakeJob(w, o)
        PROVE  UnbilledIsAccounted'
    BY <1>2, OtherHandsKept DEF TakeJob, TypeOK
  <1>3. ASSUME NEW w \in Workers,
               Skip(w) \/ AlreadyDone(w) \/ Compute(w) \/ TurnAway(w) \/ TryFails(w)
               \/ StoreFails(w)
        PROVE  UnbilledIsAccounted'
    <2>1. wpc[w] # "bill" /\ UNCHANGED billing
      BY <1>3 DEF Skip, AlreadyDone, Compute, TurnAway, TryFails, StoreFails
    <2>2. \A v \in Workers \ {w} : wpc'[v] = wpc[v] /\ worder'[v] = worder[v]
      BY <1>3 DEF Skip, AlreadyDone, Compute, TurnAway, TryFails, StoreFails, JobDone, TypeOK
    <2> QED BY <2>1, <2>2, OtherHandsKept
  <1>4. ASSUME NEW w \in Workers, Store(w), NEW o \in Orders PROVE Accounted(o)'
    <2>1. CASE o = worder[w]
      BY <1>4, <2>1 DEF Store, Accounted, TypeOK, JobDone
    <2>2. CASE o # worder[w]
      <3>1. attributed'[o] = attributed[o] /\ UNCHANGED <<commissions, forgone>>
        BY <1>4, <2>2 DEF Store, TypeOK
      <3>2. \A v \in Workers : wpc[v] = "bill" /\ worder[v] = o =>
                               wpc'[v] = "bill" /\ worder'[v] = o
        BY <1>4, <2>2 DEF Store, TypeOK, JobDone
      <3> QED BY <3>1, <3>2 DEF Accounted, UnbilledIsAccounted
    <2> QED BY <2>1, <2>2
  <1>5. ASSUME NEW w \in Workers, Bill(w) \/ ForgoBilling(w) \/ Crash(w),
               NEW o \in Orders
        PROVE  Accounted(o)'
    <2>1. \A v \in Workers : wpc[v] = "bill" /\ worder[v] = o /\ o # worder[w] =>
                             wpc'[v] = "bill" /\ worder'[v] = o
      BY <1>5 DEF Bill, ForgoBilling, Crash, JobDone, TypeOK
    <2>2. CASE o # worder[w]
      BY <1>5, <2>1, <2>2 DEF Bill, ForgoBilling, Crash, Accounted, UnbilledIsAccounted
    <2>3. CASE o = worder[w] /\ wpc[w] = "bill"
      BY <1>5, <2>3 DEF Bill, ForgoBilling, Crash, Accounted
    <2>4. CASE o = worder[w] /\ wpc[w] # "bill"
      <3>1. Crash(w)
        BY <1>5, <2>4 DEF Bill, ForgoBilling
      <3>2. \A v \in Workers : wpc[v] = "bill" => wpc'[v] = "bill" /\ worder'[v] = worder[v]
        BY <2>4, <3>1 DEF Crash, JobDone, TypeOK
      <3>3. UNCHANGED <<attributed, commissions, forgone>>
        BY <2>4, <3>1 DEF Crash
      <3> QED BY <3>2, <3>3 DEF Accounted, UnbilledIsAccounted
    <2> QED BY <2>2, <2>3, <2>4
  <1>6. \/ UNCHANGED <<attributed, commissions, forgone, wpc, worder>>
        \/ \E w \in Workers :
              \/ Skip(w) \/ AlreadyDone(w) \/ Compute(w) \/ TurnAway(w) \/ TryFails(w)
              \/ StoreFails(w) \/ Bill(w) \/ ForgoBilling(w) \/ Crash(w) \/ Store(w)
              \/ \E o \in Orders : TakeJob(w, o)
    BY DEF Next, Normalise, Reconcile, Handle, Disturb, SelectOrder, WriteOrder,
           WriteFails, Redeliver, FindMissed, PublishMissed, CountAttempts,
           SweepFails, Age, vars, billing, workers
  <1> QED BY <1>1, <1>2, <1>3, <1>4, <1>5, <1>6 DEF Accounted, UnbilledIsAccounted

-----------------------------------------------------------------------------
\* The five parts of the invariant hold together in every reachable state.
LEMMA IInvHolds == Spec => []IInv
  <1>1. IInv /\ [Next]_vars => IInv'
    BY TypesKept, DonePaid, UnbilledKept, NoDebtKept, AloneKept DEF IInv
  <1> QED BY InitIInv, <1>1, PTL DEF Spec

\* Every variable keeps its type, a busy worker has an order, and no job is
\* tried more than MAX_PROCESSING_ATTEMPTS times.
THEOREM AttributionTypes == Spec => []TypeOK
  BY IInvHolds, PTL DEF IInv

\* Whatever fails and whoever else handles the same order: an order's debt is
\* marked paid only when its attribution is stored.
THEOREM DoneOnlyIfAttributed == Spec => []DoneIsAttributed
  BY IInvHolds, PTL DEF IInv

\* An attribution that earns is billed, about to be, or one whose billing was
\* cut short.
THEOREM UnbilledAccounted == Spec => []UnbilledIsAccounted
  BY IInvHolds, PTL DEF IInv

\* A debt paid or given up is never taken on again by a normaliser that decided
\* on what it read before the workers and the reconciler wrote, unless another
\* normaliser wrote the same order in between.
THEOREM SettledStays == Spec => SettledUnlessOvertaken
  <1>1. IInv /\ [Next]_vars =>
          [\A o \in Orders :
              state[o] \in {"done", "failed"} /\ state'[o] # state[o] =>
                  /\ state'[o] = "pending"
                  /\ \E n \in overtaken : norder[n] = o /\ norder'[n] = NoOrder]_vars
    BY DebtSteps
  <1> QED BY <1>1, IInvHolds, PTL DEF Spec, SettledUnlessOvertaken
=============================================================================
