----------------------------- MODULE TrialGate -----------------------------
(***************************************************************************)
(* How the free trial ends.                                                *)
(*                                                                         *)
(* Each attributed order becomes one commission record, which is free as   *)
(* long as the subscription is TRIAL/TRIAL.  The transaction that records  *)
(* it decides whether the trial is over: it adds its own revenue to a sum  *)
(* it read before, counts the orders, and flips the status.  Transactions  *)
(* run at READ COMMITTED: a statement sees what is committed when it       *)
(* starts and what its own transaction wrote.                              *)
(*                                                                         *)
(* One shop with one subscription row.  Jobs are keyed by shop, so two     *)
(* workers handle one shop's orders at once only when a rebalance gives    *)
(* the partition away under a record that is still being handled.          *)
(***************************************************************************)
EXTENDS Integers, FiniteSets

CONSTANTS
    Workers,
    Orders,         \* attributed orders that earn something
    MinOrders,      \* MIN_TRIAL_ORDERS
    RevenueMet(_),  \* whether the orders' revenue reaches the threshold
    MaxFaults       \* bound on failures

NoOrder == 0

ASSUME TrialAssumption ==
    /\ Orders \subseteq Nat \ {NoOrder}
    /\ IsFiniteSet(Orders) /\ IsFiniteSet(Workers) /\ Workers # {}
    /\ MinOrders \in Nat /\ MaxFaults \in Nat
    /\ \A S \in SUBSET Orders : RevenueMet(S) \in BOOLEAN
    /\ \A S, T \in SUBSET Orders : S \subseteq T /\ RevenueMet(S) => RevenueMet(T)

VARIABLES
    status,     \* "trial", "completed", "paid" or "closed": the row's type,
                \* status and is_active, as committed
    trialRows,  \* orders with a committed TRIAL commission
    paidRows,   \* orders with a committed PAID commission
    wpc,        \* per worker: what its transaction does next
    worder,     \* per worker: the order of its attribution
    phase,      \* per worker: the billing phase it chose
    seen,       \* per worker: the rows current_trial_revenue summed
    ending,     \* workers with an uncommitted UPDATE that ends the trial
    late,       \* history: free orders after the evidence was complete
    faults

rows == <<trialRows, paidRows>>
workers == <<wpc, worder, phase, seen>>
vars == <<status, rows, workers, ending, late, faults>>

Init ==
    /\ status = "trial"
    /\ trialRows = {} /\ paidRows = {}
    /\ wpc = [w \in Workers |-> "idle"]
    /\ worder = [w \in Workers |-> NoOrder]
    /\ phase = [w \in Workers |-> "trial"]
    /\ seen = [w \in Workers |-> {}]
    /\ ending = {}
    /\ late = 0 /\ faults = 0

Fault == faults < MaxFaults /\ faults' = faults + 1

Goto(w, label) == wpc' = [wpc EXCEPT ![w] = label]

\* Seeded fault: the worker forgets its order and reads on.
HalfDone(w) ==
    /\ Goto(w, "revenue")
    /\ worder' = [worder EXCEPT ![w] = NoOrder]
    /\ seen' = [seen EXCEPT ![w] = {}]

\* The handler is through with its order.
Done(w) ==
    /\ Goto(w, "idle")
    /\ worder' = [worder EXCEPT ![w] = NoOrder]
    /\ seen' = [seen EXCEPT ![w] = {}]

Enough(S) == RevenueMet(S) /\ Cardinality(S) >= MinOrders

-----------------------------------------------------------------------------
\* No commission for this attribution yet; the subscription's type and status
\* choose the phase.  A completed or closed subscription bills nothing.
Begin(w, o) ==
    /\ wpc[w] = "idle"
    /\ o \notin trialRows \cup paidRows
    /\ status \in {"trial", "paid"}
    /\ worder' = [worder EXCEPT ![w] = o]
    /\ phase' = [phase EXCEPT ![w] = status]
    /\ Goto(w, IF status = "trial" THEN "revenue" ELSE "insert")
    /\ UNCHANGED <<status, rows, seen, ending, late, faults>>

\* calculate_trial_revenue
ReadRevenue(w) ==
    /\ wpc[w] = "revenue"
    /\ seen' = [seen EXCEPT ![w] = trialRows]
    /\ Goto(w, "insert")
    /\ UNCHANGED <<status, rows, worder, phase, ending, late, faults>>

\* Seeded fault: uniqueness within a billing phase only.
TakenInPhase(w) == worder[w] \in IF phase[w] = "trial" THEN trialRows ELSE paidRows

\* The unique constraint on purchase_attribution_id.
Taken(w) == worder[w] \in trialRows \cup paidRows

Uncommitted(w) == wpc[w] \in {"gate", "end", "commit"}

\* The INSERT waits for another transaction's row of the same attribution.  A
\* duplicate is refused and the transaction leaves nothing behind.
Insert(w) ==
    /\ wpc[w] = "insert"
    /\ \A v \in Workers \ {w} : ~(Uncommitted(v) /\ worder[v] = worder[w])
    /\ \/ Taken(w) /\ Done(w)
       \/ /\ ~Taken(w)
          /\ Goto(w, IF phase[w] = "trial" THEN "gate" ELSE "commit")
          /\ UNCHANGED <<worder, seen>>
    /\ UNCHANGED <<status, rows, phase, ending, late, faults>>

\* Seeded faults: either condition ends the trial; the order that completes the
\* count is the only one that can.
EitherMet(w) ==
    RevenueMet(seen[w] \cup {worder[w]}) \/ Cardinality(trialRows \cup {worder[w]}) >= MinOrders
ExactCount(w) ==
    RevenueMet(seen[w] \cup {worder[w]}) /\ Cardinality(trialRows \cup {worder[w]}) = MinOrders

\* The revenue was read before the INSERT, the orders are counted after it.
GateMet(w) ==
    RevenueMet(seen[w] \cup {worder[w]}) /\ Cardinality(trialRows \cup {worder[w]}) >= MinOrders

\* check_trial_completion up to the UPDATE
CheckGate(w) ==
    /\ wpc[w] = "gate"
    /\ Goto(w, IF status = "trial" /\ GateMet(w) THEN "end" ELSE "commit")
    /\ UNCHANGED <<status, rows, worder, phase, seen, ending, late, faults>>

\* An error inside the check is logged: the order is recorded, the trial goes on.
CheckFails(w) ==
    /\ wpc[w] \in {"gate", "end"}
    /\ Fault
    /\ Goto(w, "commit")
    /\ UNCHANGED <<status, rows, worder, phase, seen, ending, late>>

\* Seeded fault: no condition on the status.
AnyStatus == TRUE

StillTrial == status = "trial"

\* UPDATE ... WHERE id = :id AND status = 'TRIAL'.  It waits for the row's lock
\* and then looks at what is committed.
EndTrial(w) ==
    /\ wpc[w] = "end"
    /\ ending = {}
    /\ ending' = IF StillTrial THEN {w} ELSE {}
    /\ Goto(w, "commit")
    /\ UNCHANGED <<status, rows, worder, phase, seen, late, faults>>

\* The record and the end of the trial become visible together.
Commit(w) ==
    /\ wpc[w] = "commit"
    /\ trialRows' = IF phase[w] = "trial" THEN trialRows \cup {worder[w]} ELSE trialRows
    /\ paidRows' = IF phase[w] = "paid" THEN paidRows \cup {worder[w]} ELSE paidRows
    /\ status' = IF w \in ending THEN "completed" ELSE status
    /\ ending' = ending \ {w}
    /\ late' = IF phase[w] = "trial" /\ status' = "trial" /\ Enough(trialRows)
               THEN late + 1 ELSE late
    /\ Done(w)
    /\ UNCHANGED <<phase, faults>>

\* A failed statement or a dead process takes the whole transaction with it.
Rollback(w) ==
    /\ wpc[w] # "idle"
    /\ Fault
    /\ Done(w)
    /\ ending' = ending \ {w}
    /\ UNCHANGED <<status, rows, phase, late>>

-----------------------------------------------------------------------------
(* The admin app rewrites the row by its id; it waits for the row's lock.  *)

Approve ==
    /\ ending = {}
    /\ status # "paid"
    /\ status' = "paid"
    /\ UNCHANGED <<rows, workers, ending, late, faults>>

Close ==
    /\ ending = {}
    /\ status # "closed"
    /\ status' = "closed"
    /\ UNCHANGED <<rows, workers, ending, late, faults>>

Record(w) ==
    \/ \E o \in Orders : Begin(w, o)
    \/ ReadRevenue(w) \/ Insert(w) \/ CheckGate(w) \/ CheckFails(w)
    \/ EndTrial(w) \/ Commit(w) \/ Rollback(w)

Next == Approve \/ Close \/ \E w \in Workers : Record(w)

Spec == Init /\ [][Next]_vars

-----------------------------------------------------------------------------
TypeOK ==
    /\ status \in {"trial", "completed", "paid", "closed"}
    /\ trialRows \subseteq Orders /\ paidRows \subseteq Orders
    /\ wpc \in [Workers -> {"idle", "revenue", "insert", "gate", "end", "commit"}]
    /\ worder \in [Workers -> Orders \cup {NoOrder}]
    /\ \A w \in Workers : wpc[w] # "idle" => worder[w] \in Orders
    /\ phase \in [Workers -> {"trial", "paid"}]
    /\ seen \in [Workers -> SUBSET Orders]
    /\ ending \subseteq Workers
    /\ late \in Nat /\ faults \in Nat

\* "Whoever completes a trial checks both, always": although the sum is stale
\* and the status and the records of concurrent transactions appear in any
\* order, a completed trial has the orders and the revenue to show for it.
EndsOnEvidence == status = "completed" => Enough(trialRows)

\* An order is never both free and charged, even when it is recorded twice at
\* once and the merchant approves the subscription in between.
OneCommission == trialRows \cap paidRows = {}

\* A worker that decided to end the trial before the merchant approved the
\* subscription does not undo the approval.
PaidStaysPaid == [][status = "paid" => status' # "completed"]_vars

\* The sum each transaction reads misses the rows the others have not committed,
\* so the trial can outlive its evidence, but not for long: by one order for
\* each other worker and one for each failed check.
OvershootBounded == late <= Cardinality(Workers) - 1 + faults
=============================================================================
