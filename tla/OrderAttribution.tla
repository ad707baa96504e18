-------------------------- MODULE OrderAttribution --------------------------
(***************************************************************************)
(* From a stored order to a commission record.                             *)
(*                                                                         *)
(* upsert_order_with_line_items decides from the order's evidence whether  *)
(* it owes an attribution (order_data.attribution_state) and a job is      *)
(* published.  A worker of the purchase attribution consumer loads the     *)
(* order, skips it if it is already processed, computes and stores the     *)
(* attribution, which commits and clears the debt, and only then, in a     *)
(* second transaction, creates the commission.  Up to three tries; then    *)
(* the job is dropped.  Every 15 minutes the attribution reconciler        *)
(* publishes the jobs of pending orders again, newest first, and gives an  *)
(* order up after MaxAttempts publications.                                *)
(*                                                                         *)
(* One shop.  Jobs are keyed by shop, so two normalisers or two workers    *)
(* handle its orders at once only around a rebalance.  Two normalisers     *)
(* that insert the same order at once are left to OrderIngestion: here an  *)
(* order has at most one row.  Amounts are left out: an attribution earns  *)
(* something or nothing.                                                   *)
(***************************************************************************)
EXTENDS Integers, FiniteSets

CONSTANTS
    Orders,       \* numbered by their order_date
    Tracked,      \* orders with apollo or mercury tracking data
    Normalisers,  \* handlers of the normalization consumer
    Workers,      \* handlers of the attribution consumer
    Tries,        \* MAX_PROCESSING_ATTEMPTS
    MaxAttempts,  \* MAX_ATTRIBUTION_ATTEMPTS
    SweepLimit,   \* MAX_ORDERS_PER_SWEEP
    MaxWrites,    \* bound on normalisations of orders
    MaxJobs,      \* bound on an order's unread jobs
    MaxFaults     \* bound on mishaps: failures, crashes, suspensions met,
                  \* orders grown old

NoOrder == 0

ASSUME AttributionAssumption ==
    /\ Orders \subseteq Nat \ {NoOrder} /\ Tracked \subseteq Orders
    /\ Tries \in Nat \ {0} /\ MaxAttempts \in Nat \ {0} /\ SweepLimit \in Nat \ {0}
    /\ MaxWrites \in Nat /\ MaxJobs \in Nat /\ MaxFaults \in Nat

VARIABLES
    state,        \* order_data.attribution_state; "absent" without a row
    attempts,     \* order_data.attribution_attempts
    evident,      \* orders whose row carries a stamp or a recorded click
    aged,         \* orders older than LOOKBACK_DAYS
    writes,       \* normalisations so far
    norder,       \* per normaliser: the order being normalised, if any
    nstate,       \* per normaliser: the attribution_state its SELECT found
    nowes,        \* per normaliser: does the version it has carry evidence
    overtaken,    \* normalisers whose order another wrote since their SELECT
    jobs,         \* purchase-attribution-jobs: unread jobs per order
    wpc,          \* per worker: what it does next
    worder,       \* per worker: the order of its job
    wtry,         \* per worker: which try this is
    attributed,   \* purchase_attributions: "no" row, "nothing" or "earning"
    outdated,     \* orders with line items newer than their attribution
    commissions,  \* orders with a commission record
    forgone,      \* orders whose last billing ended without a commission
    found,        \* reconciler: the orders of this sweep
    unsent,       \* reconciler: those yet to be published
    turnedAway,   \* orders a job of which met an inactive shop
    faults        \* mishaps so far

orderData == <<state, attempts, evident, aged>>
normaliser == <<writes, norder, nstate, nowes, overtaken>>
workers == <<wpc, worder, wtry>>
billing == <<attributed, outdated, commissions, forgone>>
sweep == <<found, unsent>>
vars == <<orderData, normaliser, jobs, workers, billing, sweep, turnedAway, faults>>

States == {"absent", "none", "pending", "done", "failed"}

\* An order is yet to come, or was imported with nothing to attribute.
Init ==
    /\ state \in [Orders -> {"absent", "none"}]
    /\ attempts = [o \in Orders |-> 0]
    /\ evident = {} /\ aged = {}
    /\ writes = 0
    /\ norder = [n \in Normalisers |-> NoOrder]
    /\ nstate = [n \in Normalisers |-> "absent"]
    /\ nowes = [n \in Normalisers |-> FALSE]
    /\ overtaken = {}
    /\ jobs = [o \in Orders |-> 0]
    /\ wpc = [w \in Workers |-> "idle"]
    /\ worder = [w \in Workers |-> NoOrder]
    /\ wtry = [w \in Workers |-> 0]
    /\ attributed = [o \in Orders |-> "no"]
    /\ outdated = {} /\ commissions = {} /\ forgone = {}
    /\ found = {} /\ unsent = {}
    /\ turnedAway = {}
    /\ faults = 0

Fault == faults < MaxFaults /\ faults' = faults + 1

Publish(o) == jobs[o] < MaxJobs /\ jobs' = [jobs EXCEPT ![o] = @ + 1]

\* A job is published, or its publication fails, which is logged.
PublishOrLose(o) ==
    \/ Publish(o) /\ UNCHANGED faults
    \/ Fault /\ UNCHANGED jobs

-----------------------------------------------------------------------------
(* The normaliser: upsert_order_with_line_items and the publication.       *)

Normalising(o) == {n \in Normalisers : norder[n] = o}

\* The raw order has been read before; evidence comes with later versions and
\* never goes.  Another normaliser is at the same order only after a rebalance.
SelectOrder(n, o) ==
    /\ norder[n] = NoOrder
    /\ writes < MaxWrites
    /\ writes' = writes + 1
    /\ \/ Normalising(o) = {} /\ UNCHANGED faults
       \/ Normalising(o) # {} /\ state[o] # "absent" /\ Fault
    /\ norder' = [norder EXCEPT ![n] = o]
    /\ nstate' = [nstate EXCEPT ![n] = state[o]]
    /\ \E owes \in BOOLEAN :
          /\ o \in evident => owes
          /\ nowes' = [nowes EXCEPT ![n] = owes]
    /\ UNCHANGED <<orderData, overtaken, jobs, workers, billing, sweep, turnedAway>>

NormaliserDone(n) ==
    /\ norder' = [norder EXCEPT ![n] = NoOrder]
    /\ nstate' = [nstate EXCEPT ![n] = "absent"]
    /\ nowes' = [nowes EXCEPT ![n] = FALSE]

\* Seeded fault: the debt is set whatever the row said.
OwedAgain(n) ==
    IF nowes[n] THEN "pending" ELSE IF nstate[n] = "absent" THEN "none" ELSE state[norder[n]]

\* Only ever promoted from the NULL that the SELECT found; otherwise the UPDATE
\* leaves the column alone.
StateAfterUpsert(n) ==
    CASE nowes[n] /\ nstate[n] \in {"absent", "none"} -> "pending"
      [] ~nowes[n] /\ nstate[n] = "absent"            -> "none"
      [] OTHER                                        -> state[norder[n]]

\* The row is written, its line items are deleted and inserted anew, and the
\* job is published.  A normaliser that was overtaken writes its older version
\* over the newer one, evidence included.
WriteOrder(n) ==
    /\ norder[n] # NoOrder
    /\ evident' = IF nowes[n] THEN evident \cup {norder[n]} ELSE evident \ {norder[n]}
    /\ state' = [state EXCEPT ![norder[n]] = StateAfterUpsert(n)]
    /\ outdated' = outdated \cup {norder[n]}
    /\ PublishOrLose(norder[n])
    /\ NormaliserDone(n)
    /\ overtaken' = (overtaken \cup Normalising(norder[n])) \ {n}
    /\ UNCHANGED <<attempts, aged, writes, workers, attributed, commissions, forgone,
                   sweep, turnedAway>>

\* The upsert raises: False, nothing is published and the job is committed.
WriteFails(n) ==
    /\ norder[n] # NoOrder /\ Fault
    /\ NormaliserDone(n)
    /\ overtaken' = overtaken \ {n}
    /\ UNCHANGED <<orderData, writes, jobs, workers, billing, sweep, turnedAway>>

-----------------------------------------------------------------------------
(* A worker: _process_with_retry, _handle_message and what it calls.       *)

TakeJob(w, o) ==
    /\ wpc[w] = "idle"
    /\ jobs[o] > 0
    /\ jobs' = [jobs EXCEPT ![o] = @ - 1]
    /\ wpc' = [wpc EXCEPT ![w] = "load"]
    /\ worder' = [worder EXCEPT ![w] = o]
    /\ wtry' = [wtry EXCEPT ![w] = 1]
    /\ UNCHANGED <<orderData, normaliser, billing, sweep, turnedAway, faults>>

\* Seeded fault: the finished job's worker goes on without an order.
JobHalfDone(w) ==
    /\ wpc' = [wpc EXCEPT ![w] = "load"]
    /\ worder' = [worder EXCEPT ![w] = NoOrder]
    /\ wtry' = [wtry EXCEPT ![w] = 0]

\* The offset is committed.
JobDone(w) ==
    /\ wpc' = [wpc EXCEPT ![w] = "idle"]
    /\ worder' = [worder EXCEPT ![w] = NoOrder]
    /\ wtry' = [wtry EXCEPT ![w] = 0]

\* The shop is not active just then: the job goes to the dead-letter queue,
\* which writes nothing.
TurnAway(w) ==
    /\ wpc[w] = "load" /\ Fault
    /\ turnedAway' = turnedAway \cup {worder[w]}
    /\ JobDone(w)
    /\ UNCHANGED <<orderData, normaliser, jobs, billing, sweep>>

\* No such order, or neither evidence on it nor an offer shown to the shopper.
Skip(w) ==
    /\ wpc[w] = "load"
    /\ state[worder[w]] = "absent" \/ worder[w] \notin evident \cup Tracked
    /\ JobDone(w)
    /\ UNCHANGED <<orderData, normaliser, jobs, billing, sweep, turnedAway, faults>>

\* _is_purchase_already_processed.  The tracking_interactions it looks for are
\* never written, so tracked orders are always computed again.
AlreadyProcessed(o) ==
    attributed[o] # "no" /\ o \notin Tracked /\ o \notin outdated

AlreadyDone(w) ==
    /\ wpc[w] = "load"
    /\ AlreadyProcessed(worder[w])
    /\ JobDone(w)
    /\ UNCHANGED <<orderData, normaliser, jobs, billing, sweep, turnedAway, faults>>

\* Seeded fault: the debt is cleared before the attribution is computed.
ClearFirst(w) ==
    /\ wpc[w] = "load"
    /\ state[worder[w]] # "absent"
    /\ ~AlreadyProcessed(worder[w])
    /\ wpc' = [wpc EXCEPT ![w] = "store"]
    /\ state' = [state EXCEPT ![worder[w]] = IF @ = "pending" THEN "done" ELSE @]
    /\ UNCHANGED <<attempts, evident, aged, normaliser, jobs, worder, wtry, billing,
                   sweep, turnedAway, faults>>

\* An offer shown to the shopper is enough (_has_offer_impressions).
Compute(w) ==
    /\ wpc[w] = "load"
    /\ state[worder[w]] # "absent"
    /\ ~AlreadyProcessed(worder[w])
    /\ wpc' = [wpc EXCEPT ![w] = "store"]
    /\ UNCHANGED <<orderData, normaliser, jobs, worder, wtry, billing, sweep, turnedAway,
                   faults>>

\* Seeded fault: what was stored is not billed.
StoreUnbilled(w) ==
    /\ wpc[w] = "store"
    /\ \E result \in {"nothing", "earning"} :
          attributed' = [attributed EXCEPT ![worder[w]] = result]
    /\ state' = [state EXCEPT ![worder[w]] = IF @ = "pending" THEN "done" ELSE @]
    /\ outdated' = outdated \ {worder[w]}
    /\ JobDone(w)
    /\ UNCHANGED <<attempts, evident, aged, normaliser, jobs, commissions, forgone,
                   sweep, turnedAway, faults>>

\* _save_attribution inserts or updates the row, clears the debt and commits.
\* Nothing earned ends the job.
Store(w) ==
    /\ wpc[w] = "store"
    /\ state' = [state EXCEPT ![worder[w]] = IF @ = "pending" THEN "done" ELSE @]
    /\ outdated' = outdated \ {worder[w]}
    /\ \/ /\ attributed' = [attributed EXCEPT ![worder[w]] = "earning"]
          /\ wpc' = [wpc EXCEPT ![w] = "bill"]
          /\ UNCHANGED <<worder, wtry>>
       \/ /\ attributed' = [attributed EXCEPT ![worder[w]] = "nothing"]
          /\ JobDone(w)
    /\ UNCHANGED <<attempts, evident, aged, normaliser, jobs, commissions, forgone,
                   sweep, turnedAway, faults>>

\* An exception before the attribution is stored is a try, and so is an insert
\* refused because another worker's came first, which leaves the session
\* unusable.  What failed may have passed by the next try, or outlast them all:
\* then the job is dropped.
TryFails(w) ==
    /\ wpc[w] \in {"load", "store"} /\ Fault
    /\ \/ /\ wtry[w] < Tries
          /\ wpc' = [wpc EXCEPT ![w] = "load"]
          /\ wtry' = [wtry EXCEPT ![w] = @ + 1]
          /\ UNCHANGED worder
       \/ JobDone(w)
    /\ UNCHANGED <<orderData, normaliser, jobs, billing, sweep, turnedAway>>

\* _store_attribution_result swallows the error of a statement: without a
\* stored row nothing is billed, and the job ends with the debt still owed.
StoreFails(w) ==
    /\ wpc[w] = "store" /\ Fault
    /\ JobDone(w)
    /\ UNCHANGED <<orderData, normaliser, jobs, billing, sweep, turnedAway>>

\* create_commission_record finds the commission or creates it
\* (CommissionCharging has the rest).
Bill(w) ==
    /\ wpc[w] = "bill"
    /\ commissions' = commissions \cup {worder[w]}
    /\ forgone' = forgone \ {worder[w]}
    /\ JobDone(w)
    /\ UNCHANGED <<orderData, normaliser, jobs, attributed, outdated, sweep, turnedAway,
                   faults>>

\* No rate within MAX_RATE_AGE_DAYS, no billable subscription, an exception, or
\* no answer to the commit of Store: None, and the job ends all the same.
ForgoBilling(w) ==
    /\ wpc[w] = "bill" /\ worder[w] \notin commissions /\ Fault
    /\ forgone' = forgone \cup {worder[w]}
    /\ JobDone(w)
    /\ UNCHANGED <<orderData, normaliser, jobs, attributed, outdated, commissions,
                   sweep, turnedAway>>

\* The process dies and the job comes back.
Crash(w) ==
    /\ wpc[w] # "idle" /\ Fault
    /\ jobs' = [jobs EXCEPT ![worder[w]] = @ + 1]
    /\ forgone' = IF wpc[w] = "bill" THEN (forgone \cup {worder[w]}) \ commissions
                  ELSE forgone
    /\ JobDone(w)
    /\ UNCHANGED <<orderData, normaliser, attributed, outdated, commissions, sweep,
                   turnedAway>>

\* The partition is taken away: the job comes back while it is being handled.
Redeliver(w) ==
    /\ wpc[w] # "idle" /\ Fault
    /\ jobs' = [jobs EXCEPT ![worder[w]] = @ + 1]
    /\ UNCHANGED <<orderData, normaliser, workers, billing, sweep, turnedAway>>

-----------------------------------------------------------------------------
(* The attribution reconciler: reconcile_once.                             *)

\* Seeded fault: the count starts as NULL, which is below no bound.
TriedBefore ==
    {o \in Orders : /\ state[o] = "pending" /\ o \notin aged
                    /\ attempts[o] > 0 /\ attempts[o] < MaxAttempts}

Unattributed ==
    {o \in Orders : state[o] = "pending" /\ o \notin aged /\ attempts[o] < MaxAttempts}

\* ORDER BY order_date DESC LIMIT.
Newest(S) == {o \in S : Cardinality({p \in S : p > o}) < SweepLimit}

FindMissed ==
    /\ found = {}
    /\ Unattributed # {}
    /\ found' = Newest(Unattributed)
    /\ unsent' = Newest(Unattributed)
    /\ UNCHANGED <<orderData, normaliser, jobs, workers, billing, turnedAway, faults>>

PublishMissed(o) ==
    /\ o \in unsent
    /\ unsent' = unsent \ {o}
    /\ PublishOrLose(o)
    /\ UNCHANGED <<orderData, normaliser, workers, billing, found, turnedAway>>

\* One attempt for each order found and still pending, published or not.
CountAttempts ==
    /\ found # {} /\ unsent = {}
    /\ LET counted == {o \in found : state[o] = "pending"} IN
          /\ attempts' = [o \in Orders |->
                             IF o \in counted THEN attempts[o] + 1 ELSE attempts[o]]
          /\ state' = [o \in Orders |->
                          IF o \in counted /\ attempts[o] + 1 >= MaxAttempts
                          THEN "failed" ELSE state[o]]
    /\ found' = {}
    /\ UNCHANGED <<evident, aged, normaliser, jobs, workers, billing, unsent, turnedAway,
                   faults>>

\* The process ends, or counting fails: what was published is not counted.
SweepFails ==
    /\ found # {} /\ Fault
    /\ found' = {} /\ unsent' = {}
    /\ UNCHANGED <<orderData, normaliser, jobs, workers, billing, turnedAway>>

-----------------------------------------------------------------------------
(* Time passes.                                                            *)

\* LOOKBACK_DAYS pass while the order is pending.
Age(o) ==
    /\ state[o] = "pending" /\ Fault
    /\ aged' = aged \cup {o}
    /\ UNCHANGED <<state, attempts, evident, normaliser, jobs, workers, billing,
                   sweep, turnedAway>>

-----------------------------------------------------------------------------
Normalise(n) == WriteOrder(n) \/ WriteFails(n) \/ \E o \in Orders : SelectOrder(n, o)

Handle(w) ==
    Skip(w) \/ AlreadyDone(w) \/ Compute(w) \/ Store(w) \/ Bill(w)

Disturb(w) ==
    \/ TurnAway(w) \/ TryFails(w) \/ StoreFails(w) \/ ForgoBilling(w)
    \/ Crash(w) \/ Redeliver(w)

Reconcile ==
    \/ FindMissed \/ CountAttempts \/ SweepFails
    \/ \E o \in Orders : PublishMissed(o)

Next ==
    \/ Reconcile
    \/ \E n \in Normalisers : Normalise(n)
    \/ \E o \in Orders : Age(o)
    \/ \E w \in Workers : Handle(w) \/ Disturb(w) \/ \E o \in Orders : TakeJob(w, o)

Spec == Init /\ [][Next]_vars

\* Workers take jobs and go on with them; the reconciler sweeps again and again
\* (JobKeepsRunning of SingleRun) and its publications return.
Fairness ==
    /\ \A o \in Orders : WF_vars(\E w \in Workers : TakeJob(w, o))
    /\ \A w \in Workers : WF_vars(Handle(w))
    /\ WF_vars(FindMissed) /\ WF_vars(CountAttempts)
    /\ \A o \in Orders : WF_vars(PublishMissed(o))

FairSpec == Spec /\ Fairness

-----------------------------------------------------------------------------
TypeOK ==
    /\ state \in [Orders -> States] /\ attempts \in [Orders -> Nat]
    /\ evident \subseteq Orders /\ aged \subseteq Orders
    /\ writes \in Nat
    /\ norder \in [Normalisers -> Orders \cup {NoOrder}]
    /\ nstate \in [Normalisers -> States]
    /\ nowes \in [Normalisers -> BOOLEAN]
    /\ overtaken \subseteq Normalisers
    /\ jobs \in [Orders -> Nat]
    /\ wpc \in [Workers -> {"idle", "load", "store", "bill"}]
    /\ worder \in [Workers -> Orders \cup {NoOrder}]
    /\ \A w \in Workers : wpc[w] # "idle" => worder[w] \in Orders
    /\ wtry \in [Workers -> 0 .. Tries]
    /\ attributed \in [Orders -> {"no", "nothing", "earning"}]
    /\ outdated \subseteq Orders /\ commissions \subseteq Orders
    /\ forgone \subseteq Orders
    /\ unsent \subseteq found /\ found \subseteq Orders
    /\ turnedAway \subseteq Orders /\ faults \in Nat

\* A debt is marked paid only together with the attribution that pays it, as
\* _clear_attribution_debt is at pains to ensure.  The converse does not hold:
\* a job read after the order was given up attributes an order that stays
\* 'failed'.
DoneIsAttributed == \A o \in Orders : state[o] = "done" => attributed[o] # "no"

\* The attribution commits before the commission exists, and a redelivered job
\* finds the order already processed.  So an attribution that earns and has no
\* commission is in a worker's hands or one whose billing was cut short by a
\* crash, an error, a missing rate or the lack of a billable subscription.
UnbilledIsAccounted ==
    \A o \in Orders :
        attributed[o] = "earning" /\ o \notin commissions =>
            o \in forgone \/ \E w \in Workers : wpc[w] = "bill" /\ worder[w] = o

\* "An order already marked 'done' must not be reset by an unrelated
\* orders/updated webhook, and one dead-lettered as 'failed' must not be
\* resurrected": the column is read in one statement and written in another,
\* while workers and the reconciler change it.  A normaliser breaks the rule
\* only if another wrote the same order in between, and can only take the debt
\* on again.
SettledUnlessOvertaken ==
    [][\A o \in Orders :
          state[o] \in {"done", "failed"} /\ state'[o] # state[o] =>
              /\ state'[o] = "pending"
              /\ \E n \in overtaken : norder[n] = o /\ norder'[n] = NoOrder]_vars

\* With fewer faults than attempts an order that owes an attribution gets it,
\* although every job may be lost and newer orders go first, unless it leaves
\* the reconciler's window, its shop was suspended when a job was read, or an
\* overtaken normaliser took its evidence away again.
OwedIsAttributed ==
    \A o \in Orders :
        state[o] = "pending" ~> \/ attributed[o] # "no"
                                \/ o \in aged \cup turnedAway
                                \/ o \notin evident
=============================================================================
