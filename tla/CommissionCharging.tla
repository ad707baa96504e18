------------------------- MODULE CommissionCharging -------------------------
(***************************************************************************)
(* From a billable purchase attribution to a line on the merchant's        *)
(* Shopify invoice.                                                        *)
(*                                                                         *)
(* CommissionServiceV2.create_commission_record inserts a PENDING row and, *)
(* after the commit, publishes a shopify-usage-events record.  The worker  *)
(* processes of one consumer group take the records and run                *)
(* charge_commission_to_shopify: read the row in one transaction, call     *)
(* Shopify outside any transaction, write the verdict in a second one.     *)
(*                                                                         *)
(* Shopify and Kafka are external.  Shopify answers or does not, charges   *)
(* or does not, and remembers idempotency keys.  Amounts are left out: a   *)
(* commission is charged for all it earned or not at all.                  *)
(***************************************************************************)
EXTENDS KafkaPartition

CONSTANTS
    Commissions,        \* ids of the commission_records rows that may be created
    Shops,
    ShopOf,             \* [Commissions -> Shops]
    StartOffset,        \* 0, or NoOffset for a consumer group that never committed
    SubStates,          \* what the admin app may make of a subscription row
    UserErrorOutcomes,  \* what a Shopify userError is classified as
    MaxDisruptions      \* bound on worker crashes and forced rebalances

NoCommission == "nothing"

ASSUME ChargingAssumption ==
    /\ NoCommission \notin Commissions
    /\ ShopOf \in [Commissions -> Shops]
    /\ StartOffset \in {0, NoOffset}
    \* "none": no is_active row; "no_item": active but without a Shopify usage
    \* line item; "active" and "suspended": is_active, with a line item.
    /\ SubStates \in (SUBSET {"none", "no_item", "active", "suspended"}) \ {{}}
    /\ UserErrorOutcomes \in (SUBSET {"FAILED", "CAPPED"}) \ {{}}
    /\ MaxDisruptions \in Nat

VARIABLES
    status,       \* commission_records.status, "absent" before the insert
    usageRecord,  \* is commission_records.shopify_usage_record_id set
    sub,          \* the shop's is_active subscription row, seen by Phase 1
    paused,       \* shop_subscriptions.paused
    publishing,   \* commissions inserted whose creator has yet to publish
    withheld,     \* commissions inserted, and not published, while suspended
    dropped,      \* commissions for which an error was logged and swallowed
    pc,           \* per worker: the phase its handler is in
    cur,          \* per worker: the commission being handled, if any
    charges,      \* Shopify: usage records that exist, per commission
    usedKeys,     \* Shopify: idempotency keys it has created a record for
    disruptions   \* crashes and forced rebalances so far

rows == <<status, usageRecord, paused>>
creation == <<publishing, withheld>>
handlers == <<pc, cur>>
shopify == <<charges, usedKeys>>
vars == <<rows, sub, creation, dropped, handlers, shopify, disruptions, kafkaVars>>

Statuses == {"absent", "PENDING", "RECORDED", "FAILED", "CAPPED"}
Outcomes == {"RECORDED", "FAILED", "CAPPED"}

\* What a worker does next; an outcome stands for the Phase 3 that writes it.
Phases == {"idle", "read", "call", "commit"} \cup Outcomes

Init ==
    /\ KafkaInit(StartOffset)
    /\ status = [c \in Commissions |-> "absent"]
    /\ usageRecord = [c \in Commissions |-> FALSE]
    /\ sub \in [Shops -> SubStates]
    /\ paused = [s \in Shops |-> FALSE]
    /\ publishing = {}
    /\ withheld = {}
    /\ dropped = {}
    /\ pc = [w \in Members |-> "idle"]
    /\ cur = [w \in Members |-> NoCommission]
    /\ charges = [c \in Commissions |-> 0]
    /\ usedKeys = {}
    /\ disruptions = 0

-----------------------------------------------------------------------------
(* The creator: a purchase-attribution worker.                             *)

\* A paid row is born PENDING and without a usage record, whatever it earned.
InsertPaid(c) == status' = [status EXCEPT ![c] = "PENDING"] /\ UNCHANGED usageRecord

\* Whether the creator goes on to publish is decided by the subscription's
\* status: a SUSPENDED shop's commission stays PENDING without an event.
Announce(c) ==
    IF sub[ShopOf[c]] = "suspended"
    THEN withheld' = withheld \cup {c} /\ UNCHANGED publishing
    ELSE publishing' = publishing \cup {c} /\ UNCHANGED withheld

\* create_commission_record up to its commit, for a PAID subscription that is
\* ACTIVE or SUSPENDED.  The unique constraint on purchase_attribution_id
\* makes every other attempt return the existing row and publish nothing.
CreateCommission(c) ==
    /\ status[c] = "absent"
    /\ sub[ShopOf[c]] # "none"
    /\ InsertPaid(c)
    /\ Announce(c)
    /\ UNCHANGED <<paused, sub, dropped, handlers, shopify,
                   disruptions, kafkaVars>>

\* The event reaches the topic, once or, after a resend, twice.
PublishUsageEvent(c) ==
    /\ c \in publishing
    /\ \E copies \in 1 .. 2 : Append1(c, copies)
    /\ publishing' = publishing \ {c}
    /\ UNCHANGED <<rows, sub, withheld, dropped, handlers, shopify, disruptions>>

\* Publishing fails and the exception is swallowed, the process dies first,
\* or the buffered record is lost (send is not awaited for delivery).
LoseUsageEvent(c) ==
    /\ c \in publishing
    /\ publishing' = publishing \ {c}
    /\ dropped' = dropped \cup {c}
    /\ UNCHANGED <<rows, sub, withheld, handlers, shopify, disruptions, kafkaVars>>

-----------------------------------------------------------------------------
(* The usage consumer: charge_commission_to_shopify in three phases.       *)

Receive(w) ==
    /\ pc[w] = "idle"
    /\ \E c \in Commissions :
          /\ Fetch(w, c)
          /\ cur' = [cur EXCEPT ![w] = c]
    /\ pc' = [pc EXCEPT ![w] = "read"]
    /\ UNCHANGED <<rows, sub, creation, dropped, shopify, disruptions>>

\* Phase 1, the row is no longer PENDING: a redelivery of handled work.
SkipSettled(w) ==
    /\ pc[w] = "read"
    /\ status[cur[w]] # "PENDING"
    /\ pc' = [pc EXCEPT ![w] = "commit"]
    /\ UNCHANGED <<rows, sub, creation, dropped, cur, shopify,
                   disruptions, kafkaVars>>

\* What Phase 1 asks of the row: is_active and a line item.  It does not read
\* the status, so that a suspended shop is charged for what was published.
Chargeable == {"active", "suspended"}

\* Phase 1, no active subscription or no line item: PermanentError, which
\* the consumer logs; the row stays PENDING and the record is committed.
RejectUnchargeable(w) ==
    /\ pc[w] = "read"
    /\ status[cur[w]] = "PENDING"
    /\ sub[ShopOf[cur[w]]] \notin Chargeable
    /\ pc' = [pc EXCEPT ![w] = "commit"]
    /\ dropped' = dropped \cup {cur[w]}
    /\ UNCHANGED <<rows, sub, creation, cur, shopify, disruptions,
                   kafkaVars>>

ReadPending(w) ==
    /\ pc[w] = "read"
    /\ status[cur[w]] = "PENDING"
    /\ sub[ShopOf[cur[w]]] \in Chargeable
    /\ pc' = [pc EXCEPT ![w] = "call"]
    /\ UNCHANGED <<rows, sub, creation, dropped, cur, shopify,
                   disruptions, kafkaVars>>

\* The transaction of Phase 1 or Phase 3 fails.  _handle_message swallows
\* everything but TransientError, so the record is committed all the same.
DatabaseError(w) ==
    /\ pc[w] \in {"read"} \cup Outcomes
    /\ pc' = [pc EXCEPT ![w] = "commit"]
    /\ dropped' = dropped \cup {cur[w]}
    /\ UNCHANGED <<rows, sub, creation, cur, shopify, disruptions,
                   kafkaVars>>

\* Faults seeded in IdempotencyKey: a key per worker, and one per attempt.
KeyPerWorker(c, w) == <<c, w>>
KeyPerAttempt(c, w) == <<c, charges[c]>>

\* The idempotency_key argument of record_usage: a function of the commission
\* alone, so that every attempt by every worker sends the same key.
IdempotencyKey(c, w) == c

\* Shopify creates a usage record unless it has seen the key before.
CreateUsageRecord(c, key) ==
    IF key \in usedKeys
    THEN UNCHANGED shopify
    ELSE /\ charges' = [charges EXCEPT ![c] = @ + 1]
         /\ usedKeys' = usedKeys \cup {key}

\* Seeded fault: no answer is taken for success.
InterpretOptimistic(answer) ==
    IF answer = "user_error" THEN UserErrorOutcomes ELSE {"RECORDED"}

\* What record_usage and the code around it make of Shopify's answer.  Every
\* exception inside record_usage, a timeout or a 5xx included, becomes None,
\* and None becomes a PermanentError.
Interpret(answer) ==
    {o \in Outcomes :
        \/ answer = "usage_record" /\ o = "RECORDED"
        \/ answer = "user_error"   /\ o \in UserErrorOutcomes
        \/ answer = "none"         /\ o = "FAILED"}

\* Phase 2, outside any transaction.
CallShopify(w) ==
    /\ pc[w] = "call"
    /\ \E answer \in {"usage_record", "user_error", "none"} :
          /\ \/ /\ answer \in {"usage_record", "none"}
                /\ CreateUsageRecord(cur[w], IdempotencyKey(cur[w], w))
             \/ /\ answer \in {"user_error", "none"}
                /\ UNCHANGED shopify
          /\ \E o \in Interpret(answer) : pc' = [pc EXCEPT ![w] = o]
    /\ UNCHANGED <<rows, sub, creation, dropped, cur, disruptions, kafkaVars>>

\* Phase 3, SELECT FOR UPDATE finds that someone else decided meanwhile.
SettleTooLate(w) ==
    /\ pc[w] \in Outcomes
    /\ status[cur[w]] # "PENDING"
    /\ pc' = [pc EXCEPT ![w] = "commit"]
    /\ UNCHANGED <<rows, sub, creation, dropped, cur, shopify,
                   disruptions, kafkaVars>>

\* Phase 3 writes the verdict; a cap also pauses the shop.
WriteVerdict(c, v) ==
    /\ status' = [status EXCEPT ![c] = v]
    /\ usageRecord' = [usageRecord EXCEPT ![c] = @ \/ v = "RECORDED"]
    /\ paused' = [paused EXCEPT ![ShopOf[c]] = @ \/ v = "CAPPED"]

\* Seeded fault: Phase 3 trusts the status read in Phase 1.
SettleUnchecked(w) ==
    /\ pc[w] \in Outcomes
    /\ WriteVerdict(cur[w], pc[w])
    /\ pc' = [pc EXCEPT ![w] = "commit"]
    /\ UNCHANGED <<sub, creation, dropped, cur, shopify, disruptions, kafkaVars>>

Settle(w) ==
    /\ pc[w] \in Outcomes
    /\ status[cur[w]] = "PENDING"
    /\ WriteVerdict(cur[w], pc[w])
    /\ pc' = [pc EXCEPT ![w] = "commit"]
    /\ UNCHANGED <<sub, creation, dropped, cur, shopify, disruptions,
                   kafkaVars>>

\* start_consuming commits after the handler, whatever became of it; a
\* failed commit is reported by a return value nobody reads.
CommitRecord(w) ==
    /\ pc[w] = "commit"
    /\ CommitPosition(w) \/ UNCHANGED kafkaVars
    /\ pc' = [pc EXCEPT ![w] = "idle"]
    /\ cur' = [cur EXCEPT ![w] = NoCommission]
    /\ UNCHANGED <<rows, sub, creation, dropped, shopify, disruptions>>

-----------------------------------------------------------------------------
(* The environment.                                                        *)

Crash(w) ==
    /\ disruptions < MaxDisruptions
    /\ Leave(w)
    /\ pc' = [pc EXCEPT ![w] = "idle"]
    /\ disruptions' = disruptions + 1
    /\ UNCHANGED <<rows, sub, creation, dropped, cur, shopify>>

\* The group gives the partition to w while its former owner, whose session
\* expired, is still busy with a record.
Rebalance(w) ==
    /\ owner # Nobody
    /\ disruptions < MaxDisruptions
    /\ Assign(w)
    /\ disruptions' = disruptions + 1
    /\ UNCHANGED <<rows, sub, creation, dropped, handlers, shopify>>

TakeOver(w) ==
    /\ owner = Nobody
    /\ Assign(w)
    /\ UNCHANGED <<rows, sub, creation, dropped, handlers, shopify, disruptions>>

\* Activation, dunning, cancellation and uninstall in the admin app rewrite
\* the subscription row at any time.
ChangeSubscription(s) ==
    /\ \E v \in SubStates \ {sub[s]} : sub' = [sub EXCEPT ![s] = v]
    /\ UNCHANGED <<rows, creation, dropped, handlers, shopify, disruptions,
                   kafkaVars>>

-----------------------------------------------------------------------------
Handle(w) ==
    \/ SkipSettled(w) \/ RejectUnchargeable(w) \/ ReadPending(w)
    \/ CallShopify(w)
    \/ SettleTooLate(w) \/ Settle(w)

Next ==
    \/ \E c \in Commissions :
          CreateCommission(c) \/ PublishUsageEvent(c) \/ LoseUsageEvent(c)
    \/ \E w \in Members :
          \/ Receive(w) \/ Handle(w) \/ DatabaseError(w) \/ CommitRecord(w)
          \/ Crash(w) \/ Rebalance(w) \/ TakeOver(w)
    \/ \E s \in Shops : ChangeSubscription(s)

Spec == Init /\ [][Next]_vars

\* The event loop keeps running every started handler, consumers are started
\* with the process and restarted by the consumer manager, the coordinator
\* reassigns an orphaned partition.  Nothing forces a commission, a failure
\* or a rebalance to happen.
Fairness ==
    /\ \A w \in Members :
          /\ WF_vars(Receive(w))
          /\ WF_vars(Handle(w))
          /\ WF_vars(CommitRecord(w))
    /\ WF_vars(\E w \in Members : TakeOver(w))

FairSpec == Spec /\ Fairness

-----------------------------------------------------------------------------
(* Properties.                                                             *)

\* Every variable holds what the code can put there.
TypeOK ==
    /\ KafkaTypeOK(Commissions)
    /\ status \in [Commissions -> Statuses]
    /\ usageRecord \in [Commissions -> BOOLEAN]
    /\ sub \in [Shops -> SubStates]
    /\ paused \in [Shops -> BOOLEAN]
    /\ publishing \in SUBSET Commissions
    /\ withheld \in SUBSET Commissions
    /\ dropped \in SUBSET Commissions
    /\ pc \in [Members -> Phases]
    /\ cur \in [Members -> Commissions \cup {NoCommission}]
    /\ charges \in [Commissions -> Nat]
    /\ disruptions \in 0 .. MaxDisruptions

\* The merchant never pays twice for one commission, whatever is redelivered,
\* resent, crashed in the middle or handled by two workers at once.
NoDoubleCharge == \A c \in Commissions : charges[c] <= 1

\* A commission the database calls RECORDED is on the merchant's invoice and
\* carries the id of its usage record.
RecordedIsCharged ==
    \A c \in Commissions :
        status[c] = "RECORDED" => charges[c] = 1 /\ usageRecord[c]

\* RECORDED and FAILED are final: the slower of two workers handling the
\* same commission never overwrites the verdict of the faster one.
VerdictIsFinal ==
    [][\A c \in Commissions :
          status[c] \in {"RECORDED", "FAILED"} => status'[c] = status[c]]_vars

\* The record of c is still to be delivered, for the first time or again.
Undelivered(c) == \E i \in (committed + 1) .. Len(log) : log[i] = c

\* Crashes, rebalances and failed commits never strand a commission: one that
\* is PENDING has its event still to come, unless an error was swallowed or
\* its shop was suspended when it was created.
PendingIsOnItsWay ==
    StartOffset = 0 =>
        \A c \in Commissions :
            status[c] = "PENDING" =>
                \/ c \in publishing \/ Undelivered(c)
                \/ c \in dropped \/ c \in withheld

\* The other half of "the charge is the source of truth": a commission the
\* database calls FAILED was not charged.  The code does not keep it.
FailedIsUncharged ==
    \A c \in Commissions : status[c] = "FAILED" => charges[c] = 0

\* Handled: decided, or given up with a log line.
Handled(c) == status[c] # "PENDING" \/ c \in dropped

\* Every published usage event is eventually handled, across crashes of the
\* worker that took it.
EveryEventHandled ==
    \A c \in Commissions :
        (StartOffset = 0 /\ \E i \in 1 .. Len(log) : log[i] = c) ~> Handled(c)

\* The database row and the invoice implement the abstract ChargeOnce.
Abstract == INSTANCE ChargeOnce WITH
    bills <- charges,
    verdict <- [c \in Commissions |->
                   IF status[c] \in Outcomes THEN status[c] ELSE "open"]

\* Charging implements ChargeOnce: one bill at most, one verdict at most.
ImplementsChargeOnce == Abstract!Spec
=============================================================================
