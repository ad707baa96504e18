------------------------ MODULE CommissionReconciler ------------------------
(***************************************************************************)
(* commission_reconciler.py over CommissionCharging: the pass that reopens *)
(* CAPPED commissions when a shop's cap looks raised and republishes the   *)
(* events of stale PENDING ones.  run_forever makes a pass every hour      *)
(* under single_run.claim; POST /reconcile-commissions makes one without   *)
(* the claim, so passes may overlap.  Every transaction of a pass and      *)
(* every call it awaits is a step of its own.                              *)
(*                                                                         *)
(* A shop has a subscription row per installation or approval.  A pass     *)
(* looks at each row with a Shopify subscription id, in force or not; the  *)
(* baseline it records goes to some row of the shop.                       *)
(*                                                                         *)
(* Prefix R marks the initial states, next-state relation and              *)
(* specification of the system with its reconciler.                        *)
(***************************************************************************)
EXTENDS CommissionCharging

CONSTANTS
    Passes,      \* reconciliation passes that may be under way at once
    SubRows,     \* rows of shop_subscriptions
    Bound,       \* those with a shopify_subscription_id
    RowShop,     \* [SubRows -> Shops]
    CapAmounts,  \* what Shopify may give as cappedAmount.amount
    LexAfter,    \* <<a, b>> \in LexAfter: str(a) > str(b)
    MaxRecords   \* bound on the records that republishing may put on the topic

NoAmount == 0
NoRow == "no row"

ASSUME ReconcilerAssumption ==
    /\ CapAmounts \in (SUBSET (Nat \ {NoAmount})) \ {{}}
    /\ Bound \subseteq SubRows
    /\ RowShop \in [SubRows -> Shops]
    /\ NoRow \notin Bound
    /\ LexAfter \subseteq CapAmounts \X CapAmounts
    /\ MaxRecords \in Nat

VARIABLES
    rpc,       \* per pass: what it does next
    todo,      \* per pass: candidate rows it has yet to look at
    seen,      \* per pass: last_seen_period_end of each row, as first read
    rrow,      \* per pass: the row whose shop is being reopened, if any
    stale,     \* per pass: stale PENDING rows of shops not yet re-read
    resend,    \* per pass: rows whose events are being published again
    lastSeen,  \* shop_subscription_metadata["last_seen_period_end"]
    aged,      \* rows whose updated_at is over an hour old
    cap        \* Shopify: cappedAmount.amount of the row's line item

passes == <<rpc, todo, seen, rrow, stale, resend>>
rvars == <<vars, passes, lastSeen, aged, cap>>

RPhases == {"idle", "shops", "reset", "clear", "resend"}

RInit ==
    /\ Init
    /\ rpc = [p \in Passes |-> "idle"]
    /\ todo = [p \in Passes |-> {}]
    /\ seen = [p \in Passes |-> [r \in Bound |-> NoAmount]]
    /\ rrow = [p \in Passes |-> NoRow]
    /\ stale = [p \in Passes |-> {}]
    /\ resend = [p \in Passes |-> {}]
    /\ lastSeen = [r \in SubRows |-> NoAmount]
    /\ aged = {}
    /\ cap \in [Bound -> CapAmounts]

-----------------------------------------------------------------------------
(* Sweep 1: rows of shops with CAPPED commissions.                         *)

\* The query joins commissions with every bound row of their shop.
Candidates ==
    {r \in Bound :
        \E c \in Commissions : ShopOf[c] = RowShop[r] /\ status[c] = "CAPPED"}

\* The candidates are read with their metadata.  When there is none the pass
\* returns at once, before Sweep 2.
BeginPass(p) ==
    /\ rpc[p] = "idle"
    /\ Candidates # {}
    /\ rpc' = [rpc EXCEPT ![p] = "shops"]
    /\ todo' = [todo EXCEPT ![p] = Candidates]
    /\ seen' = [seen EXCEPT ![p] = [r \in Bound |-> lastSeen[r]]]
    /\ UNCHANGED <<vars, rrow, stale, resend, lastSeen, aged, cap>>

RowDone(p, r) ==
    /\ todo' = [todo EXCEPT ![p] = @ \ {r}]
    /\ seen' = [seen EXCEPT ![p][r] = NoAmount]

\* No token, no answer from Shopify, another pricing model, any exception, or
\* an amount that does not compare greater than the one seen before.
PassOver(p, r) ==
    /\ rpc[p] = "shops" /\ r \in todo[p]
    /\ RowDone(p, r)
    /\ UNCHANGED <<vars, rpc, rrow, stale, resend, lastSeen, aged, cap>>

\* First sight of the row: what is called the period end is the cap.  It goes
\* to the row a SELECT by shop with LIMIT 1 gives, this one or another.
RecordBaseline(p, r) ==
    /\ rpc[p] = "shops" /\ r \in todo[p]
    /\ seen[p][r] = NoAmount
    /\ \E b \in SubRows :
          /\ RowShop[b] = RowShop[r]
          /\ lastSeen' = [lastSeen EXCEPT ![b] = cap[r]]
    /\ RowDone(p, r)
    /\ UNCHANGED <<vars, rpc, rrow, stale, resend, aged, cap>>

\* Faults seeded in DetectRollover: the row is not noted, and the operands of
\* the comparison are swapped.
DetectUnnamed(p, r) ==
    /\ rpc[p] = "shops" /\ r \in todo[p]
    /\ <<cap[r], seen[p][r]>> \in LexAfter
    /\ rpc' = [rpc EXCEPT ![p] = "reset"]
    /\ UNCHANGED <<vars, todo, seen, rrow, stale, resend, lastSeen, aged, cap>>
DetectSwapped(p, r) ==
    /\ rpc[p] = "shops" /\ r \in todo[p]
    /\ <<seen[p][r], cap[r]>> \in LexAfter
    /\ rpc' = [rpc EXCEPT ![p] = "reset"]
    /\ rrow' = [rrow EXCEPT ![p] = r]
    /\ UNCHANGED <<vars, todo, seen, stale, resend, lastSeen, aged, cap>>

DetectRollover(p, r) ==
    /\ rpc[p] = "shops" /\ r \in todo[p]
    /\ seen[p][r] # NoAmount
    /\ <<cap[r], seen[p][r]>> \in LexAfter
    /\ rpc' = [rpc EXCEPT ![p] = "reset"]
    /\ rrow' = [rrow EXCEPT ![p] = r]
    /\ UNCHANGED <<vars, todo, seen, stale, resend, lastSeen, aged, cap>>

\* Seeded fault: the update forgets to filter on the status.
ReopenedCarelessly(s) == {c \in Commissions : ShopOf[c] = s /\ status[c] # "absent"}

\* The rows _reset_capped_commissions updates.  Its cutoff is the now() of the
\* update itself, so it holds nothing back.
Reopened(s) == {c \in Commissions : ShopOf[c] = s /\ status[c] = "CAPPED"}

\* Their updated_at becomes now, so that none of them is stale.
ResetCapped(p) ==
    /\ rpc[p] = "reset"
    /\ LET C == Reopened(RowShop[rrow[p]]) IN
          /\ status' = [c \in Commissions |->
                           IF c \in C THEN "PENDING" ELSE status[c]]
          /\ aged' = aged \ C
    /\ rpc' = [rpc EXCEPT ![p] = "clear"]
    /\ UNCHANGED <<usageRecord, paused, sub, creation, dropped, handlers,
                   shopify, disruptions, kafkaVars, todo, seen, rrow, stale,
                   resend, lastSeen, cap>>

\* _clear_paused, in a transaction of its own.
ClearPaused(p) ==
    /\ rpc[p] = "clear"
    /\ paused' = [paused EXCEPT ![RowShop[rrow[p]]] = FALSE]
    /\ rpc' = [rpc EXCEPT ![p] = "shops"]
    /\ RowDone(p, rrow[p])
    /\ rrow' = [rrow EXCEPT ![p] = NoRow]
    /\ UNCHANGED <<status, usageRecord, sub, creation, dropped, handlers,
                   shopify, disruptions, kafkaVars, stale, resend, lastSeen,
                   aged, cap>>

\* Either update raises: the row is skipped and the pass goes on.
RolloverFails(p) ==
    /\ rpc[p] \in {"reset", "clear"}
    /\ rpc' = [rpc EXCEPT ![p] = "shops"]
    /\ RowDone(p, rrow[p])
    /\ rrow' = [rrow EXCEPT ![p] = NoRow]
    /\ UNCHANGED <<vars, stale, resend, lastSeen, aged, cap>>

-----------------------------------------------------------------------------
(* Sweep 2: stale PENDING commissions.                                     *)

ReadStale(p) ==
    /\ rpc[p] = "shops" /\ todo[p] = {}
    /\ rpc' = [rpc EXCEPT ![p] = "resend"]
    /\ stale' = [stale EXCEPT ![p] = {c \in aged : status[c] = "PENDING"}]
    /\ UNCHANGED <<vars, todo, seen, rrow, resend, lastSeen, aged, cap>>

\* One shop's rows are read again: still PENDING, and not yet charged.
RereadShop(p, s) ==
    /\ rpc[p] = "resend" /\ resend[p] = {}
    /\ LET C == {c \in stale[p] : ShopOf[c] = s} IN
          /\ C # {}
          /\ stale' = [stale EXCEPT ![p] = @ \ C]
          /\ resend' = [resend EXCEPT ![p] =
                {c \in C : status[c] = "PENDING" /\ ~ usageRecord[c]}]
    /\ UNCHANGED <<vars, rpc, todo, seen, rrow, lastSeen, aged, cap>>

Republish(p, c) ==
    /\ c \in resend[p]
    /\ Len(log) < MaxRecords
    /\ Append1(c, 1)
    /\ resend' = [resend EXCEPT ![p] = @ \ {c}]
    /\ UNCHANGED <<rows, sub, creation, dropped, handlers, shopify,
                   disruptions, rpc, todo, seen, rrow, stale, lastSeen, aged,
                   cap>>

\* A failed publish is logged and passed over.
RepublishFails(p, c) ==
    /\ c \in resend[p]
    /\ resend' = [resend EXCEPT ![p] = @ \ {c}]
    /\ UNCHANGED <<vars, rpc, todo, seen, rrow, stale, lastSeen, aged, cap>>

FinishPass(p) ==
    /\ rpc[p] = "resend" /\ stale[p] = {} /\ resend[p] = {}
    /\ rpc' = [rpc EXCEPT ![p] = "idle"]
    /\ UNCHANGED <<vars, todo, seen, rrow, stale, resend, lastSeen, aged, cap>>

\* The process dies, the stale query raises, or no publisher can be started:
\* the transactions already committed stay.
AbortPass(p) ==
    /\ rpc[p] # "idle"
    /\ rpc' = [rpc EXCEPT ![p] = "idle"]
    /\ todo' = [todo EXCEPT ![p] = {}]
    /\ seen' = [seen EXCEPT ![p] = [r \in Bound |-> NoAmount]]
    /\ rrow' = [rrow EXCEPT ![p] = NoRow]
    /\ stale' = [stale EXCEPT ![p] = {}]
    /\ resend' = [resend EXCEPT ![p] = {}]
    /\ UNCHANGED <<vars, lastSeen, aged, cap>>

-----------------------------------------------------------------------------
(* Time, and the merchant's dealings with Shopify.                         *)

GrowOld(c) ==
    /\ status[c] = "PENDING" /\ c \notin aged
    /\ aged' = aged \cup {c}
    /\ UNCHANGED <<vars, passes, lastSeen, cap>>

ChangeCap(r) ==
    /\ \E a \in CapAmounts \ {cap[r]} : cap' = [cap EXCEPT ![r] = a]
    /\ UNCHANGED <<vars, passes, lastSeen, aged>>

-----------------------------------------------------------------------------
Look(p) ==
    \E r \in Bound :
        PassOver(p, r) \/ RecordBaseline(p, r) \/ DetectRollover(p, r)

GoOn(p) ==
    \/ BeginPass(p) \/ Look(p)
    \/ ResetCapped(p) \/ ClearPaused(p) \/ RolloverFails(p)
    \/ ReadStale(p) \/ (\E s \in Shops : RereadShop(p, s))
    \/ (\E c \in Commissions : Republish(p, c) \/ RepublishFails(p, c))
    \/ FinishPass(p)

Reconcile(p) == GoOn(p) \/ AbortPass(p)

RNext ==
    \/ Next /\ UNCHANGED <<passes, lastSeen, aged, cap>>
    \/ \E p \in Passes : Reconcile(p)
    \/ \E c \in Commissions : GrowOld(c)
    \/ \E r \in Bound : ChangeCap(r)

RSpec == RInit /\ [][RNext]_rvars

\* run_forever makes passes for ever, and a pass that has begun goes on.
\* Shopify, the database and Kafka do not fail, nor the process die, every
\* time: a step that is possible again and again is taken.
RFairness ==
    \A p \in Passes :
        /\ WF_rvars(GoOn(p))
        /\ SF_rvars(Look(p))
        /\ \A r \in Bound : SF_rvars(DetectRollover(p, r))
        /\ SF_rvars(ResetCapped(p))
        /\ SF_rvars(ReadStale(p)) /\ SF_rvars(\E s \in Shops : RereadShop(p, s))
        /\ \A c \in Commissions : SF_rvars(Republish(p, c))

RFairSpec == RSpec /\ RFairness

\* Less is enough for Sweep 1: some pass goes on, and where passes could again
\* and again see a rise, or reopen, one of them does.
CapFairness ==
    /\ WF_rvars(\E p \in Passes : GoOn(p))
    /\ \A r \in Bound : SF_rvars(\E p \in Passes : DetectRollover(p, r))
    /\ SF_rvars(\E p \in Passes : ResetCapped(p))

RCapSpec == RSpec /\ CapFairness

-----------------------------------------------------------------------------
(* Properties.                                                             *)

\* Types of what the passes keep.
RTypeOK ==
    /\ TypeOK
    /\ rpc \in [Passes -> RPhases]
    /\ todo \in [Passes -> SUBSET Bound]
    /\ seen \in [Passes -> [Bound -> CapAmounts \cup {NoAmount}]]
    /\ rrow \in [Passes -> Bound \cup {NoRow}]
    /\ \A p \in Passes : rpc[p] \in {"reset", "clear"} => rrow[p] \in Bound
    /\ stale \in [Passes -> SUBSET Commissions]
    /\ resend \in [Passes -> SUBSET Commissions]
    /\ lastSeen \in [SubRows -> CapAmounts \cup {NoAmount}]
    /\ aged \in SUBSET Commissions
    /\ cap \in [Bound -> CapAmounts]

\* Reopening and republishing leave what was charged, or given up, alone.
RVerdictIsFinal ==
    [][\A c \in Commissions :
          status[c] \in {"RECORDED", "FAILED"} => status'[c] = status[c]]_rvars

\* What commission_reconciler.py says of Sweep 2: a PENDING commission whose event was lost does
\* not stay without one for ever.
Forgotten(c) ==
    status[c] = "PENDING" /\ c \notin publishing /\ ~ Undelivered(c)
    /\ Len(log) < MaxRecords
StalePendingIsRepublished ==
    \A c \in Commissions : ~ <>[](c \in aged /\ Forgotten(c))

\* A cap that compares greater than the baseline its own row carries reopens
\* the shop's commissions, whichever row of the shop that is.  Nothing is said
\* of a row whose baseline was written to another.
RaisedCapReopens ==
    \A c \in Commissions, r \in Bound :
        RowShop[r] = ShopOf[c] =>
            ~ <>[](status[c] = "CAPPED" /\ <<cap[r], lastSeen[r]>> \in LexAfter)
=============================================================================
