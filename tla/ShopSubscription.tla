-------------------------- MODULE ShopSubscription --------------------------
(***************************************************************************)
(* One shop's subscription between Shopify and the admin app.              *)
(*                                                                         *)
(* Shopify knows at most one active subscription; the app keeps rows in    *)
(* shop_subscriptions and a flag in shops.  Webhooks, the merchant's       *)
(* return from the approval screen and every load of the billing page      *)
(* update the two tables, one statement at a time and without a            *)
(* transaction, so handlers interleave between statements.  Some of what   *)
(* that leads to is wrong and left to the README: the history of the model *)
(* is spoilt once a request that opens the shop overlaps one that closes   *)
(* it, a webhook comes after Shopify's state has moved on, or one is lost  *)
(* or half done and not made good by its repetition.                       *)
(***************************************************************************)
EXTENDS Integers, Sequences, FiniteSets

CONSTANTS
    Handlers,    \* concurrent requests to the app
    MaxSubs,     \* bound on subscriptions approved
    MaxRows,     \* bound on installations that create a row
    MaxEvents,   \* bound on page loads, payments, uninstallations, cancellations
                 \* and approvals offered and declined
    MaxFaults    \* bound on requests that fail half way

ASSUME SubscriptionAssumption ==
    {MaxSubs, MaxRows, MaxEvents, MaxFaults} \subseteq Nat

NoSub == 0
Subs == 1 .. MaxSubs
Declined == -1  \* the id of an approval that the merchant declined

VARIABLES
    current,    \* Shopify: the active subscription
    made,       \* Shopify: subscriptions approved so far
    installed,  \* the app has a session for the shop
    pending,    \* webhooks on their way, in no order
    rows,       \* shop_subscriptions by created_at
    shop,       \* shops.is_active and suspension_reason
    task,       \* per handler: the request and its next statement
    events, faults,
    spoilt      \* history: two requests overlapped, or a webhook was lost,
                \* half done or came when Shopify's state had moved on

shopify == <<current, made, installed>>
tables == <<rows, shop>>
bounds == <<events, faults>>
vars == <<shopify, pending, tables, task, bounds, spoilt>>

Webhook(kind, sub) == [kind |-> kind, sub |-> sub]

Idle == [step |-> "idle", kind |-> "none", sub |-> NoSub, row |-> 0, dunning |-> "none"]

Init ==
    /\ current = NoSub /\ made = 0
    /\ installed = FALSE
    /\ pending = {}
    /\ rows = <<>>
    /\ shop = [active |-> FALSE, reason |-> "none"]
    /\ task = [h \in Handlers |-> Idle]
    /\ events = 0 /\ faults = 0
    /\ spoilt = FALSE

Event == events < MaxEvents /\ events' = events + 1 /\ UNCHANGED faults
Busy == \E h \in Handlers : task[h].step # "idle"

Openers == {"ACTIVE", "ACTIVATE", "SYNC", "PAID"}
Closers == {"CANCELLED", "DECLINED", "FAILED", "UNINSTALL"}
InFlight(kinds) == \E h \in Handlers : task[h].kind \in kinds

ActiveRows == {i \in DOMAIN rows : rows[i].active}
IsNewest(i, S) == i \in S /\ \A j \in S : j <= i

-----------------------------------------------------------------------------
(* Shopify and the merchant.                                               *)

\* A new subscription replaces the active one.
Approve ==
    /\ ~spoilt
    /\ installed /\ made < MaxSubs
    /\ made' = made + 1 /\ current' = made + 1
    /\ pending' = pending \cup {Webhook("ACTIVE", made + 1)}
          \cup IF current = NoSub THEN {} ELSE {Webhook("CANCELLED", current)}
    /\ spoilt' = InFlight(Openers)
    /\ UNCHANGED <<installed, tables, task, bounds>>

Cancel ==
    /\ ~spoilt
    /\ current # NoSub /\ Event
    /\ current' = NoSub
    /\ pending' = pending \cup {Webhook("CANCELLED", current)}
    /\ spoilt' = InFlight(Openers)
    /\ UNCHANGED <<made, installed, tables, task>>

\* api.billing.setup offers an approval at any time, also beside an active
\* subscription, which stays when the merchant declines.  The offer and the
\* refusal count as two events.
Decline ==
    /\ ~spoilt
    /\ installed
    /\ events + 2 <= MaxEvents /\ events' = events + 2
    /\ pending' = pending \cup {Webhook("DECLINED", Declined)}
    /\ UNCHANGED <<shopify, tables, task, faults, spoilt>>

\* A billing attempt on the active subscription.
Charge ==
    /\ ~spoilt
    /\ current # NoSub /\ Event
    /\ \E kind \in {"FAILED", "PAID"} : pending' = pending \cup {Webhook(kind, current)}
    /\ UNCHANGED <<shopify, tables, task, spoilt>>

Uninstall ==
    /\ ~spoilt
    /\ installed /\ Event
    /\ installed' = FALSE /\ current' = NoSub
    /\ pending' = pending \cup {Webhook("UNINSTALL", NoSub)}
          \cup IF current = NoSub THEN {} ELSE {Webhook("CANCELLED", current)}
    /\ spoilt' = InFlight(Openers)
    /\ UNCHANGED <<made, tables, task>>

\* Days pass without a payment: the shop's dunning period is over.
TimePasses ==
    /\ ~spoilt
    /\ ~Busy
    /\ \E i \in DOMAIN rows :
          /\ rows[i].dunning = "started"
          /\ rows' = [rows EXCEPT ![i].dunning = "over"]
    /\ UNCHANGED <<shopify, pending, shop, task, bounds, spoilt>>

-----------------------------------------------------------------------------
(* Onboarding: one transaction, serialised by the shop's row.              *)

\* Seeded fault: only the statuses are looked at.
LiveStatus == \E i \in DOMAIN rows : rows[i].status \in {"TRIAL", "ACTIVE", "SUSPENDED"}

Existing ==
    \E i \in DOMAIN rows :
        rows[i].active \/ rows[i].status \in {"TRIAL", "ACTIVE", "SUSPENDED"}

TrialRow == [sub |-> NoSub, status |-> "TRIAL", active |-> TRUE, dunning |-> "none"]

\* completeOnboardingTransaction.  The suspension reason stays behind.
Onboard ==
    /\ ~spoilt
    /\ ~installed
    /\ installed' = TRUE
    /\ shop' = [shop EXCEPT !.active = TRUE]
    /\ \/ Existing /\ UNCHANGED rows
       \/ ~Existing /\ Len(rows) < MaxRows /\ rows' = Append(rows, TrialRow)
    /\ spoilt' = (InFlight(Closers) \/ Webhook("CANCELLED", made) \in pending)
    /\ UNCHANGED <<current, made, pending, task, bounds>>

\* The shop comes back, and the loader finds that it was onboarded before.
Reinstall ==
    /\ ~spoilt
    /\ ~installed /\ rows # <<>>
    /\ installed' = TRUE
    /\ spoilt' = (InFlight(Closers) \/ Webhook("CANCELLED", made) \in pending)
    /\ UNCHANGED <<current, made, pending, tables, task, bounds>>

\* The worker's complete_trial_subscription (TrialGate).
CompleteTrial ==
    /\ ~spoilt
    /\ \E i \in ActiveRows :
          /\ rows[i].status = "TRIAL"
          /\ rows' = [rows EXCEPT ![i].status = "TRIAL_COMPLETED"]
    /\ UNCHANGED <<shopify, pending, shop, task, bounds, spoilt>>

-----------------------------------------------------------------------------
(* Requests.                                                               *)

\* Shopify's state has moved on since the webhook was sent.
Outdated(m) ==
    CASE m.kind = "CANCELLED" -> m.sub # made \/ m.sub = current
      [] m.kind = "DECLINED"  -> FALSE
      [] m.kind = "UNINSTALL" -> installed
      [] OTHER                -> m.sub # current

\* A request that switches the shop on meets one that switches it off.
Clashes(kind) == InFlight(IF kind \in Openers THEN Closers ELSE Openers)

\* Seeded fault: a cancellation is written without looking for its row.
FirstStepHasty(kind) == IF kind \in {"UNINSTALL", "CANCELLED"} THEN "row" ELSE "find"

\* updateMany needs no lookup.
FirstStep(kind) == IF kind = "UNINSTALL" THEN "row" ELSE "find"

\* The properties say nothing of a spoilt history: it ends there.
At(h, step) == ~spoilt /\ task[h].step = step

Start(h, kind, sub) ==
    /\ At(h, "idle")
    /\ task' = [task EXCEPT ![h] =
          [step |-> FirstStep(kind), kind |-> kind, sub |-> sub, row |-> 0,
           dunning |-> "none"]]

Receive(h, m) ==
    /\ Start(h, m.kind, m.sub)
    /\ pending' = pending \ {m}
    /\ spoilt' = (Clashes(m.kind) \/ Outdated(m))
    /\ UNCHANGED <<shopify, tables, bounds>>

\* The merchant comes back with a charge id, or loads the billing page, which
\* asks Shopify for the active subscription.
Request(h) ==
    /\ installed /\ current # NoSub /\ Event
    /\ \E kind \in {"ACTIVATE", "SYNC"} : Start(h, kind, current)
    /\ spoilt' = Clashes("SYNC")
    /\ UNCHANGED <<shopify, pending, tables>>

Goto(h, step) == task' = [task EXCEPT ![h].step = step]
Finish(h) == task' = [task EXCEPT ![h] = Idle]

\* Seeded fault: every handler looks for the active row.
OnlyActive(t) == ActiveRows

\* The rows a request's findFirst may return.  The id of a declined approval
\* is in no row, and its handler takes the active one (as CANCELLED does, when
\* no row has the id).
Candidates(t) ==
    CASE t.kind = "ACTIVE"    -> {i \in DOMAIN rows : rows[i].sub \in {t.sub, NoSub}}
      [] t.kind = "CANCELLED" -> {i \in DOMAIN rows : rows[i].sub = t.sub \/ rows[i].active}
      [] OTHER                -> ActiveRows

\* These order by created_at.
TakesNewest(t) == t.kind \in {"ACTIVE", "CANCELLED", "DECLINED", "SYNC"}

\* What follows the lookup of row i: nothing if another subscription is bound,
\* or if there is no dunning to reset.
AfterFind(t, i) ==
    CASE t.kind = "ACTIVATE" /\ rows[i].sub \notin {NoSub, t.sub} -> "idle"
      [] t.kind = "PAID" /\ rows[i].dunning = "none"              -> "idle"
      [] t.kind \in {"FAILED", "PAID"}                            -> "dunning"
      [] OTHER                                                    -> "row"

Find(h) ==
    /\ At(h, "find")
    /\ LET C == Candidates(task[h]) IN
       \/ C = {} /\ Finish(h)
       \/ \E i \in C :
             /\ TakesNewest(task[h]) => IsNewest(i, C)
             /\ IF AfterFind(task[h], i) = "idle" THEN Finish(h)
                ELSE task' = [task EXCEPT ![h].step = AfterFind(task[h], i),
                                          ![h].row = i,
                                          ![h].dunning = rows[i].dunning]
    /\ UNCHANGED <<shopify, pending, tables, bounds, spoilt>>

Continue(h, step) == IF step = "idle" THEN Finish(h) ELSE Goto(h, step)

\* Seeded fault: the second failed payment suspends, whatever time has passed.
NoGrace(t) ==
    CASE t.kind = "PAID"    -> "look"
      [] t.dunning = "none" -> "idle"
      [] OTHER              -> "row"

\* The stage of the dunning period that was read decides what follows.
AfterDunning(t) ==
    CASE t.kind = "PAID"    -> "look"
      [] t.dunning = "over" -> "row"
      [] OTHER              -> "idle"

\* The metadata that was read is written back, with the period started or reset.
WriteDunning(h) ==
    /\ At(h, "dunning")
    /\ LET t == task[h] IN
       rows' = [rows EXCEPT ![t.row].dunning =
                   IF t.kind = "PAID" THEN "none"
                   ELSE IF t.dunning = "none" THEN "started" ELSE t.dunning]
    /\ Continue(h, AfterDunning(task[h]))
    /\ UNCHANGED <<shopify, pending, shop, bounds, spoilt>>

\* billing_success: is the shop suspended for a failed payment?
Look(h) ==
    /\ At(h, "look")
    /\ IF ~shop.active /\ shop.reason = "payment_failure" THEN Goto(h, "shop") ELSE Finish(h)
    /\ UNCHANGED <<shopify, pending, tables, bounds, spoilt>>

RowAfter(t, r) ==
    CASE t.kind = "ACTIVE"    -> [r EXCEPT !.sub = t.sub, !.status = "ACTIVE", !.active = TRUE]
      [] t.kind \in {"ACTIVATE", "SYNC"}
                              -> [r EXCEPT !.sub = t.sub, !.status = "ACTIVE"]
      [] t.kind \in {"CANCELLED", "DECLINED"}
                              -> [r EXCEPT !.sub = t.sub, !.status = "CANCELLED", !.active = FALSE]
      [] t.kind = "FAILED"    -> [r EXCEPT !.status = "SUSPENDED", !.active = FALSE]
      [] t.kind = "PAID"      -> [r EXCEPT !.status = "ACTIVE", !.active = TRUE]

\* Seeded fault: activation leaves the shop to somebody else.
RowOnly(kind) == IF kind \in {"SYNC", "PAID", "ACTIVE"} THEN "idle" ELSE "shop"

AfterRow(kind) == IF kind \in {"SYNC", "PAID"} THEN "idle" ELSE "shop"

\* An uninstallation without a session does nothing (checked at its start; the
\* session is deleted at its end).
WriteRow(h) ==
    /\ At(h, "row")
    /\ LET t == task[h] IN
       rows' = IF t.kind = "UNINSTALL"
               THEN [i \in DOMAIN rows |->
                        IF rows[i].active
                        THEN [rows[i] EXCEPT !.status = "CANCELLED", !.active = FALSE]
                        ELSE rows[i]]
               ELSE [rows EXCEPT ![t.row] = RowAfter(t, @)]
    /\ Continue(h, AfterRow(task[h].kind))
    /\ UNCHANGED <<shopify, pending, shop, bounds, spoilt>>

\* Only the unconditional reactivations and PAID clear the reason.
WriteShop(h) ==
    /\ At(h, "shop")
    /\ LET kind == task[h].kind IN
       /\ shop' = CASE kind \in {"CANCELLED", "DECLINED"} ->
                           [active |-> FALSE, reason |-> "subscription_cancelled"]
                    [] kind = "UNINSTALL" -> [active |-> FALSE, reason |-> "app_uninstalled"]
                    [] kind = "FAILED"    -> [active |-> FALSE, reason |-> "payment_failure"]
                    [] OTHER              -> [active |-> TRUE, reason |-> "none"]
       /\ Continue(h, IF kind = "PAID" THEN "row" ELSE "idle")
    /\ UNCHANGED <<shopify, pending, rows, bounds, spoilt>>

\* A statement fails.  Shopify sends the webhook again after a 500; a repeat of
\* subscriptions/update within a minute is taken for a duplicate.  An
\* uninstallation answers 200 all the same and requests are the merchant's.
\* The repetition for a declined approval need not come back to the row it has
\* written, if another row is active by then.
Fail(h) ==
    /\ ~spoilt /\ task[h].step # "idle"
    /\ faults < MaxFaults /\ faults' = faults + 1
    /\ LET t == task[h] IN
       \/ /\ t.kind \in {"ACTIVE", "CANCELLED", "DECLINED", "FAILED", "PAID"}
          /\ pending' = pending \cup {Webhook(t.kind, t.sub)}
          /\ spoilt' = (t.kind = "DECLINED" /\ t.step = "shop")
       \/ /\ t.kind \notin {"FAILED", "PAID"}
          /\ spoilt' = TRUE
          /\ UNCHANGED pending
    /\ Finish(h)
    /\ UNCHANGED <<shopify, tables, events>>

-----------------------------------------------------------------------------
Merchant ==
    \/ Approve \/ Cancel \/ Decline \/ Charge
    \/ Uninstall \/ Onboard \/ Reinstall
    \/ TimePasses \/ CompleteTrial

Statement(h) == Find(h) \/ WriteDunning(h) \/ Look(h) \/ WriteRow(h) \/ WriteShop(h)

Deliver(m) == m \in pending /\ \E h \in Handlers : Receive(h, m)

Next ==
    \/ Merchant
    \/ \E m \in pending : Deliver(m)
    \/ \E h \in Handlers : Request(h) \/ Statement(h) \/ Fail(h)

Spec == Init /\ [][Next]_vars

Webhooks ==
    [kind : {"ACTIVE", "CANCELLED", "FAILED", "PAID"}, sub : Subs]
        \cup {Webhook("UNINSTALL", NoSub), Webhook("DECLINED", Declined)}

\* Shopify keeps sending a webhook until it is accepted; a handler that has
\* begun goes on, and frees itself for the next request.
Fairness ==
    /\ \A m \in Webhooks : WF_vars(Deliver(m))
    /\ \A h \in Handlers : WF_vars(Statement(h))

FairSpec == Spec /\ Fairness

-----------------------------------------------------------------------------
Ids == Subs \cup {NoSub, Declined}

Row == [sub : Ids,
        status : {"TRIAL", "TRIAL_COMPLETED", "ACTIVE", "SUSPENDED", "CANCELLED"},
        active : BOOLEAN,
        dunning : {"none", "started", "over"}]

Task == [step : {"idle", "find", "dunning", "look", "row", "shop"},
         kind : Openers \cup Closers \cup {"none"},
         sub : Ids,
         row : 0 .. MaxRows,
         dunning : {"none", "started", "over"}]

Reasons == {"none", "subscription_cancelled", "app_uninstalled", "payment_failure"}

\* Types; a request's next statement suits it, and if it writes to a row, it
\* knows which.
TypeOK ==
    /\ current \in Subs \cup {NoSub} /\ made \in 0 .. MaxSubs
    /\ installed \in BOOLEAN
    /\ pending \subseteq Webhooks
    /\ rows \in Seq(Row) /\ Len(rows) <= MaxRows
    /\ shop \in [active : BOOLEAN, reason : Reasons]
    /\ task \in [Handlers -> Task]
    /\ events \in 0 .. MaxEvents /\ faults \in 0 .. MaxFaults
    /\ \A h \in Handlers :
          /\ task[h].kind = "none" <=> task[h].step = "idle"
          /\ task[h].kind \notin {"none", "UNINSTALL", "DECLINED"} => task[h].sub \in Subs
          /\ task[h].kind = "DECLINED" => task[h].sub = Declined
          /\ task[h].step = "dunning" => task[h].kind \in {"FAILED", "PAID"}
          /\ task[h].step \notin {"idle", "find"} =>
                 task[h].row \in DOMAIN rows \/ task[h].kind = "UNINSTALL"
    /\ spoilt \in BOOLEAN

\* No webhook on its way speaks of a subscription that Shopify has replaced or
\* ended since.  (That of an uninstallation may wait for the next one, that of
\* a declined approval speaks of none.)
NoneOvertaken == \A m \in pending : m.kind # "UNINSTALL" => ~Outdated(m)

\* get_shop_subscription takes the one active row of the shop and bills nothing
\* when there are two.  As long as opening and closing requests do not overlap
\* and webhooks are not overtaken, no sequence of installations, approvals,
\* failed payments and cancellations makes a second one; up to the first
\* approval not even if webhooks wait while Shopify moves on.  An approval that
\* replaces a subscription can: its webhook takes the newest row not yet bound,
\* which may be the trial of an earlier installation beside today's active row.
OneActiveRow ==
    ~spoilt /\ (made <= 1 \/ NoneOvertaken) => Cardinality(ActiveRows) <= 1

\* Every handler changes row and shop, one after the other, and may be repeated
\* after failing in between.  Once all is handled, a shop with an active row,
\* whose orders are billed, is not switched off.
BilledIsServed ==
    ~spoilt /\ ~Busy /\ pending = {} => (ActiveRows # {} => shop.active)

\* The active row of the subscription that the merchant pays for is deactivated
\* only when its dunning period is over, or because an approval offered beside
\* it was declined: the webhook for that is handled as a cancellation and takes
\* the active row, whichever subscription it is bound to.  In particular a
\* failed payment whose handler has read the metadata before others wrote it
\* does not do so, nor the cancellation of an earlier subscription that is still
\* under way when the merchant approves the next.  Cancellations delivered after
\* that, failed payments beside successful ones and uninstallations delivered
\* after the shop's return are spoilt histories, of which nothing is claimed.
PaidForIsServed ==
    [][~spoilt' /\ current # NoSub =>
          \A i \in ActiveRows :
              rows[i].sub = current =>
                  \/ rows'[i].active \/ rows[i].dunning = "over"
                  \/ \E h \in Handlers : task[h].kind = "DECLINED" /\ task[h].row = i]_vars

\* When the shop has a row that can be bound to it, an approved subscription
\* becomes the active one and opens the shop, whatever the webhook's failures,
\* page loads and suspensions before it, unless another approval was declined:
\* if that is handled first, it takes the row.
ApprovalArrives ==
    \A s \in Subs :
        /\ Webhook("ACTIVE", s) \in pending
        /\ \E i \in DOMAIN rows : rows[i].sub \in {s, NoSub}
        ~> \/ spoilt
           \/ Webhook("DECLINED", Declined) \in pending \/ InFlight({"DECLINED"})
           \/ shop.active /\ \E i \in ActiveRows : rows[i].sub = s /\ rows[i].status = "ACTIVE"
=============================================================================
