----------------------- MODULE ShopSubscriptionProofs -----------------------
(***************************************************************************)
(* Proofs about ShopSubscription, for any number of concurrent requests,   *)
(* subscriptions, installations, payments and failing statements.          *)
(***************************************************************************)
EXTENDS ShopSubscription, FiniteSetTheorems, SequenceTheorems, TLAPS

LEMMA Bounds == MaxSubs \in Nat /\ MaxRows \in Nat /\ MaxEvents \in Nat /\ MaxFaults \in Nat
BY SubscriptionAssumption

\* Ids are integers; that of a declined approval is no subscription's.
LEMMA IdTypes ==
    /\ Ids \subseteq Int /\ NoSub \in Ids /\ Declined \in Ids
    /\ Subs \subseteq Nat \ {NoSub} /\ Declined \notin Subs \cup {NoSub}
BY Bounds DEF Ids, Subs, NoSub, Declined

\* A sequence with one element replaced, and with one appended.
LEMMA Replaced ==
    ASSUME TypeOK, NEW i \in DOMAIN rows, NEW r \in Row,
           rows' = [rows EXCEPT ![i] = r]
    PROVE  /\ rows' \in Seq(Row) /\ Len(rows') = Len(rows)
           /\ DOMAIN rows' = DOMAIN rows
           /\ \A j \in DOMAIN rows : rows'[j] = IF j = i THEN r ELSE rows[j]
<1>1. rows \in Seq(Row)
  BY DEF TypeOK
<1>2. QED
  BY <1>1

LEMMA RowTypes ==
    TypeOK => /\ DOMAIN rows = 1 .. Len(rows) /\ Len(rows) \in Nat
              /\ \A i \in DOMAIN rows : rows[i] \in Row
BY DEF TypeOK

LEMMA WebhookTypes ==
    /\ Webhook("UNINSTALL", NoSub) \in Webhooks /\ Webhook("DECLINED", Declined) \in Webhooks
    /\ \A s \in Subs : \A kind \in {"ACTIVE", "CANCELLED", "FAILED", "PAID"} :
          Webhook(kind, s) \in Webhooks
<1>1. Webhook("UNINSTALL", NoSub) \in Webhooks /\ Webhook("DECLINED", Declined) \in Webhooks
  BY DEF Webhooks
<1>2. ASSUME NEW s \in Subs, NEW kind \in {"ACTIVE", "CANCELLED", "FAILED", "PAID"}
      PROVE  Webhook(kind, s) \in [kind : {"ACTIVE", "CANCELLED", "FAILED", "PAID"}, sub : Subs]
  BY DEF Webhook
<1>3. QED
  BY <1>1, <1>2 DEF Webhooks

Steps == {"idle", "find", "dunning", "look", "row", "shop"}
Periods == {"none", "started", "over"}

\* The fields of a task, one after the other.
LEMMA TaskFields ==
    ASSUME NEW t \in Task, NEW step \in Steps, NEW row \in 0 .. MaxRows, NEW d \in Periods
    PROVE  /\ [t EXCEPT !.step = step] \in Task
           /\ [t EXCEPT !.step = step, !.row = row, !.dunning = d] \in Task
<1> DEFINE t1 == [t EXCEPT !.step = step]
           t2 == [t1 EXCEPT !.row = row]
           t3 == [t2 EXCEPT !.dunning = d]
<1>1. t1 \in Task
  BY DEF Task, Steps
<1>2. t2 \in Task
  <2> HIDE DEF t1
  <2> QED
    BY <1>1 DEF Task
<1>3. t3 \in Task
  <2> HIDE DEF t2
  <2> QED
    BY <1>2 DEF Task, Periods
<1>4. QED
  BY <1>1, <1>3

LEMMA IdleTask == Idle \in Task /\ Idle.step = "idle" /\ Idle.kind = "none"
BY Bounds, IdTypes DEF Idle, Task

\* The parts of TypeOK that a request does not touch, but for its task.
TablesOK ==
    /\ current \in Subs \cup {NoSub} /\ made \in 0 .. MaxSubs
    /\ installed \in BOOLEAN
    /\ pending \subseteq Webhooks
    /\ rows \in Seq(Row) /\ Len(rows) <= MaxRows
    /\ shop \in [active : BOOLEAN, reason : Reasons]
    /\ events \in 0 .. MaxEvents /\ faults \in 0 .. MaxFaults
    /\ spoilt \in BOOLEAN

TaskOK ==
    /\ task \in [Handlers -> Task]
    /\ \A h \in Handlers :
          /\ task[h].kind = "none" <=> task[h].step = "idle"
          /\ task[h].kind \notin {"none", "UNINSTALL", "DECLINED"} => task[h].sub \in Subs
          /\ task[h].kind = "DECLINED" => task[h].sub = Declined
          /\ task[h].step = "dunning" => task[h].kind \in {"FAILED", "PAID"}
          /\ task[h].step \notin {"idle", "find"} =>
                 task[h].row \in DOMAIN rows \/ task[h].kind = "UNINSTALL"

LEMMA TwoParts == TypeOK <=> TablesOK /\ TaskOK
BY DEF TypeOK, TablesOK, TaskOK

\* The fields of a row.
LEMMA RowFields ==
    ASSUME NEW r \in Row, NEW sub \in Ids,
           NEW st \in {"ACTIVE", "SUSPENDED", "CANCELLED"}, NEW b \in BOOLEAN
    PROVE  /\ [r EXCEPT !.sub = sub, !.status = st] \in Row
           /\ [r EXCEPT !.status = st, !.active = b] \in Row
           /\ [r EXCEPT !.sub = sub, !.status = st, !.active = b] \in Row
<1> DEFINE r1 == [r EXCEPT !.sub = sub]
           r2 == [r1 EXCEPT !.status = st]
           r3 == [r2 EXCEPT !.active = b]
           q1 == [r EXCEPT !.status = st]
           q2 == [q1 EXCEPT !.active = b]
<1>1. r1 \in Row /\ q1 \in Row
  BY DEF Row
<1>2. r2 \in Row /\ q2 \in Row
  <2> HIDE DEF r1, q1
  <2> QED
    BY <1>1 DEF Row
<1>3. r3 \in Row
  <2> HIDE DEF r2
  <2> QED
    BY <1>2 DEF Row
<1>4. QED
  BY <1>2, <1>3

\* The rows after a request's statement.
LEMMA WrittenRow ==
    ASSUME TypeOK, NEW h \in Handlers, task[h].step = "row",
           task[h].kind # "UNINSTALL", NEW r \in Row
    PROVE  RowAfter(task[h], r) \in Row
<1> DEFINE t == task[h]
<1>1. t \in Task /\ t.kind # "none"
  BY DEF TypeOK
<1>2. t.sub \in Ids
  BY <1>1 DEF Task
<1>3. t.kind \in {"ACTIVE", "ACTIVATE", "SYNC", "CANCELLED", "DECLINED", "FAILED", "PAID"}
  BY <1>1 DEF Task, Openers, Closers
<1> HIDE DEF t
<1>4. CASE t.kind = "ACTIVE"
  BY <1>2, <1>4, RowFields DEF RowAfter, t
<1>5. CASE t.kind \in {"ACTIVATE", "SYNC"}
  BY <1>2, <1>5, RowFields DEF RowAfter, t
<1>6. CASE t.kind \in {"CANCELLED", "DECLINED"}
  BY <1>2, <1>6, RowFields DEF RowAfter, t
<1>7. CASE t.kind \in {"FAILED", "PAID"}
  BY <1>7, RowFields, IdTypes DEF RowAfter, t
<1>8. QED
  BY <1>3, <1>4, <1>5, <1>6, <1>7

LEMMA UninstalledRows ==
    ASSUME TypeOK
    PROVE  LET after == [i \in DOMAIN rows |->
                            IF rows[i].active
                            THEN [rows[i] EXCEPT !.status = "CANCELLED", !.active = FALSE]
                            ELSE rows[i]]
           IN  after \in Seq(Row) /\ Len(after) = Len(rows)
<1>1. \A r \in Row : [r EXCEPT !.status = "CANCELLED", !.active = FALSE] \in Row
  BY RowFields, IdTypes
<1>2. DOMAIN rows = 1 .. Len(rows) /\ Len(rows) \in Nat /\ \A i \in DOMAIN rows : rows[i] \in Row
  BY RowTypes
<1> DEFINE after == [i \in DOMAIN rows |->
                        IF rows[i].active
                        THEN [rows[i] EXCEPT !.status = "CANCELLED", !.active = FALSE]
                        ELSE rows[i]]
<1>3. after \in [1 .. Len(rows) -> Row]
  BY <1>1, <1>2
<1> HIDE DEF after
<1>4. after \in Seq(Row) /\ Len(after) = Len(rows)
  BY <1>2, <1>3, SeqDef
<1>5. QED
  BY <1>4 DEF after

\* What a request may do to its task.
LEMMA TaskTypes ==
    ASSUME TypeOK, NEW h \in Handlers, NEW t \in Task,
           task' = [task EXCEPT ![h] = t],
           t.kind = "none" <=> t.step = "idle",
           t.kind \notin {"none", "UNINSTALL", "DECLINED"} => t.sub \in Subs,
           t.kind = "DECLINED" => t.sub = Declined,
           t.step = "dunning" => t.kind \in {"FAILED", "PAID"},
           t.step \notin {"idle", "find"} =>
               t.row \in DOMAIN rows \/ t.kind = "UNINSTALL",
           DOMAIN rows \subseteq DOMAIN rows'
    PROVE  TaskOK'
BY DEF TypeOK, TaskOK

LEMMA InitTypes == Init => TypeOK
<1> SUFFICES ASSUME Init PROVE TypeOK
  OBVIOUS
<1>1. TaskOK
  BY IdleTask DEF Init, TaskOK
<1>2. rows \in Seq(Row) /\ Len(rows) <= MaxRows
  BY Bounds DEF Init
<1>3. shop \in [active : BOOLEAN, reason : Reasons]
  BY DEF Init, Reasons
<1>4. made \in 0 .. MaxSubs /\ events \in 0 .. MaxEvents /\ faults \in 0 .. MaxFaults
  BY Bounds DEF Init
<1>5. QED
  BY <1>1, <1>2, <1>3, <1>4, TwoParts DEF Init, TablesOK

\* The tables and Shopify's state, action by action.
LEMMA NextTables == TypeOK /\ [Next]_vars => TablesOK'
<1> SUFFICES ASSUME TypeOK, [Next]_vars PROVE TablesOK'
  OBVIOUS
<1> USE Bounds
<1>t. TablesOK
  BY TwoParts
<1>1. CASE Approve
  <2>1. made + 1 \in Subs /\ (current # NoSub => current \in Subs)
    BY <1>1, <1>t DEF Approve, TablesOK, Subs, NoSub
  <2>2. pending' \subseteq Webhooks
    BY <1>1, <1>t, <2>1, WebhookTypes DEF Approve, TablesOK
  <2>3. current' \in Subs /\ made' \in 0 .. MaxSubs /\ spoilt' \in BOOLEAN
    BY <1>1, <2>1 DEF Approve, Subs, InFlight
  <2>4. UNCHANGED <<installed, rows, shop, events, faults>>
    BY <1>1 DEF Approve, tables, bounds
  <2>5. QED
    BY <1>t, <2>2, <2>3, <2>4 DEF TablesOK
<1>2. CASE Cancel
  <2>1. current \in Subs
    BY <1>2, <1>t DEF Cancel, TablesOK
  <2>2. pending' \subseteq Webhooks
    BY <1>2, <1>t, <2>1, WebhookTypes DEF Cancel, TablesOK
  <2>3. events' \in 0 .. MaxEvents /\ spoilt' \in BOOLEAN
    BY <1>2, <1>t DEF Cancel, Event, TablesOK, InFlight
  <2>4. current' = NoSub /\ UNCHANGED <<made, installed, rows, shop, faults>>
    BY <1>2 DEF Cancel, tables, Event
  <2>5. QED
    BY <1>t, <2>2, <2>3, <2>4 DEF TablesOK
<1>3. CASE Charge
  <2>1. current \in Subs
    BY <1>3, <1>t DEF Charge, TablesOK
  <2>2. pending' \subseteq Webhooks
    BY <1>3, <1>t, <2>1, WebhookTypes DEF Charge, TablesOK
  <2>3. events' \in 0 .. MaxEvents
    BY <1>3, <1>t DEF Charge, Event, TablesOK
  <2>4. UNCHANGED <<current, made, installed, rows, shop, faults, spoilt>>
    BY <1>3 DEF Charge, shopify, tables, Event
  <2>5. QED
    BY <1>t, <2>2, <2>3, <2>4 DEF TablesOK
<1>4. CASE Uninstall
  <2>1. current # NoSub => current \in Subs
    BY <1>t DEF TablesOK
  <2>2. pending' \subseteq Webhooks
    BY <1>4, <1>t, <2>1, WebhookTypes DEF Uninstall, TablesOK
  <2>3. events' \in 0 .. MaxEvents /\ spoilt' \in BOOLEAN
    BY <1>4, <1>t DEF Uninstall, Event, TablesOK, InFlight
  <2>4. current' = NoSub /\ installed' = FALSE /\ UNCHANGED <<made, rows, shop, faults>>
    BY <1>4 DEF Uninstall, tables, Event
  <2>5. QED
    BY <1>t, <2>2, <2>3, <2>4 DEF TablesOK
<1>5. CASE TimePasses
  <2>1. PICK i \in DOMAIN rows : rows' = [rows EXCEPT ![i].dunning = "over"]
    BY <1>5 DEF TimePasses
  <2>2. rows[i] \in Row
    BY RowTypes
  <2>3. [rows[i] EXCEPT !.dunning = "over"] \in Row
    BY <2>2 DEF Row
  <2>4. rows' \in Seq(Row) /\ Len(rows') = Len(rows)
    BY <2>1, <2>3, Replaced
  <2>5. UNCHANGED <<current, made, installed, pending, shop, events, faults, spoilt>>
    BY <1>5 DEF TimePasses, shopify, bounds
  <2>6. QED
    BY <1>t, <2>4, <2>5 DEF TablesOK
<1>6. CASE Onboard
  <2>1. TrialRow \in Row
    BY IdTypes DEF TrialRow, Row
  <2>2. rows' \in Seq(Row) /\ Len(rows') <= MaxRows
    <3>1. CASE UNCHANGED rows
      BY <1>t, <3>1 DEF TablesOK
    <3>2. CASE Len(rows) < MaxRows /\ rows' = Append(rows, TrialRow)
      <4>1. rows \in Seq(Row) /\ Len(rows) \in Nat
        BY <1>t DEF TablesOK
      <4>2. rows' \in Seq(Row) /\ Len(rows') = Len(rows) + 1
        BY <2>1, <3>2, <4>1, AppendProperties
      <4>3. QED
        BY <3>2, <4>1, <4>2
    <3>3. QED
      BY <1>6, <3>1, <3>2 DEF Onboard
  <2>3. shop' \in [active : BOOLEAN, reason : Reasons]
    BY <1>6, <1>t DEF Onboard, TablesOK
  <2>4. spoilt' \in BOOLEAN /\ installed' = TRUE
    BY <1>6 DEF Onboard, InFlight
  <2>5. UNCHANGED <<current, made, pending, events, faults>>
    BY <1>6 DEF Onboard, bounds
  <2>6. QED
    BY <1>t, <2>2, <2>3, <2>4, <2>5 DEF TablesOK
<1>7. CASE CompleteTrial
  <2>1. PICK i \in DOMAIN rows : rows' = [rows EXCEPT ![i].status = "TRIAL_COMPLETED"]
    BY <1>7 DEF CompleteTrial, ActiveRows
  <2>2. rows[i] \in Row
    BY RowTypes
  <2>3. [rows[i] EXCEPT !.status = "TRIAL_COMPLETED"] \in Row
    BY <2>2 DEF Row
  <2>4. rows' \in Seq(Row) /\ Len(rows') = Len(rows)
    BY <2>1, <2>3, Replaced
  <2>5. UNCHANGED <<current, made, installed, pending, shop, events, faults, spoilt>>
    BY <1>7 DEF CompleteTrial, shopify, bounds
  <2>6. QED
    BY <1>t, <2>4, <2>5 DEF TablesOK
<1>8. ASSUME NEW h \in Handlers, NEW m \in pending, Receive(h, m) PROVE TablesOK'
  <2>1. pending' \subseteq Webhooks /\ spoilt' \in BOOLEAN
    BY <1>8, <1>t DEF Receive, TablesOK, Clashes, InFlight, Outdated
  <2>2. UNCHANGED <<current, made, installed, rows, shop, events, faults>>
    BY <1>8 DEF Receive, shopify, tables, bounds
  <2>3. QED
    BY <1>t, <2>1, <2>2 DEF TablesOK
<1>9. ASSUME NEW h \in Handlers, Request(h) PROVE TablesOK'
  <2>1. events' \in 0 .. MaxEvents /\ spoilt' \in BOOLEAN
    BY <1>9, <1>t DEF Request, TablesOK, Clashes, InFlight, Event
  <2>2. UNCHANGED <<current, made, installed, pending, rows, shop, faults>>
    BY <1>9 DEF Request, shopify, tables, Event
  <2>3. QED
    BY <1>t, <2>1, <2>2 DEF TablesOK
<1>10. ASSUME NEW h \in Handlers, Find(h) \/ Look(h) PROVE TablesOK'
  BY <1>10, <1>t DEF Find, Look, TablesOK, shopify, tables, bounds
<1>11. ASSUME NEW h \in Handlers, WriteDunning(h) PROVE TablesOK'
  <2>1. task[h].row \in DOMAIN rows
    BY <1>11 DEF WriteDunning, At, TypeOK
  <2>2. PICK d \in Periods : rows' = [rows EXCEPT ![task[h].row].dunning = d]
    <3>1. task[h] \in Task
      BY DEF TypeOK
    <3>2. task[h].dunning \in Periods
      BY <3>1 DEF Task, Periods
    <3>3. QED
      BY <1>11, <3>2 DEF WriteDunning, Periods
  <2>3. rows[task[h].row] \in Row
    BY <2>1, RowTypes
  <2>4. [rows[task[h].row] EXCEPT !.dunning = d] \in Row
    BY <2>3 DEF Row, Periods
  <2>5. rows' \in Seq(Row) /\ Len(rows') = Len(rows)
    BY <2>1, <2>2, <2>4, Replaced
  <2>6. UNCHANGED <<current, made, installed, pending, shop, events, faults, spoilt>>
    BY <1>11 DEF WriteDunning, shopify, bounds
  <2>7. QED
    BY <1>t, <2>5, <2>6 DEF TablesOK
<1>12. ASSUME NEW h \in Handlers, WriteShop(h) PROVE TablesOK'
  <2>1. shop' \in [active : BOOLEAN, reason : Reasons]
    BY <1>12 DEF WriteShop, Reasons
  <2>2. UNCHANGED <<current, made, installed, pending, rows, events, faults, spoilt>>
    BY <1>12 DEF WriteShop, shopify, bounds
  <2>3. QED
    BY <1>t, <2>1, <2>2 DEF TablesOK
<1>13. ASSUME NEW h \in Handlers, WriteRow(h) PROVE TablesOK'
  <2>1. rows' \in Seq(Row) /\ Len(rows') = Len(rows)
    <3>1. CASE task[h].kind = "UNINSTALL"
      BY <1>13, <3>1, UninstalledRows DEF WriteRow
    <3>2. CASE task[h].kind # "UNINSTALL"
      <4>1. task[h].row \in DOMAIN rows
        BY <1>13, <3>2 DEF WriteRow, At, TypeOK
      <4>2. rows' = [rows EXCEPT ![task[h].row] = RowAfter(task[h], rows[task[h].row])]
        BY <1>13, <3>2 DEF WriteRow
      <4>3. RowAfter(task[h], rows[task[h].row]) \in Row
        <5>1. task[h].step = "row" /\ rows[task[h].row] \in Row
          BY <1>13, <4>1, RowTypes DEF WriteRow, At
        <5>2. QED
          BY <3>2, <5>1, WrittenRow
      <4>4. QED
        BY <4>1, <4>2, <4>3, Replaced
    <3>3. QED
      BY <3>1, <3>2
  <2>2. UNCHANGED <<current, made, installed, pending, shop, events, faults, spoilt>>
    BY <1>13 DEF WriteRow, shopify, bounds
  <2>3. QED
    BY <1>t, <2>1, <2>2 DEF TablesOK
<1>14. ASSUME NEW h \in Handlers, Fail(h) PROVE TablesOK'
  <2>1. faults' \in 0 .. MaxFaults /\ spoilt' \in BOOLEAN
    <3>1. faults < MaxFaults /\ faults' = faults + 1
      BY <1>14 DEF Fail
    <3>2. spoilt' \in {TRUE, FALSE}
      BY <1>14 DEF Fail
    <3>3. faults' \in 0 .. MaxFaults
      BY <1>t, <3>1 DEF TablesOK
    <3>4. spoilt' \in BOOLEAN
      BY <3>2
    <3>5. QED
      BY <3>3, <3>4
  <2>2. pending' \subseteq Webhooks
    <3> DEFINE m == Webhook(task[h].kind, task[h].sub)
    <3>1. \/ task[h].kind \in {"ACTIVE", "CANCELLED", "DECLINED", "FAILED", "PAID"}
             /\ pending' = pending \cup {m}
          \/ UNCHANGED pending
      BY <1>14 DEF Fail
    <3>2. task[h].kind \in {"ACTIVE", "CANCELLED", "DECLINED", "FAILED", "PAID"} => m \in Webhooks
      BY WebhookTypes DEF TypeOK
    <3> HIDE DEF m
    <3>3. QED
      BY <1>t, <3>1, <3>2 DEF TablesOK
  <2>3. UNCHANGED <<current, made, installed, rows, shop, events>>
    BY <1>14 DEF Fail, shopify, tables
  <2>4. QED
    BY <1>t, <2>1, <2>2, <2>3 DEF TablesOK
<1>15. CASE UNCHANGED vars
  BY <1>15, <1>t DEF TablesOK, vars, shopify, tables, bounds
<1>16. CASE Decline
  <2>1. pending' \subseteq Webhooks
    BY <1>16, <1>t, WebhookTypes DEF Decline, TablesOK
  <2>2. events' \in 0 .. MaxEvents
    BY <1>16, <1>t DEF Decline, TablesOK
  <2>3. UNCHANGED <<current, made, installed, rows, shop, faults, spoilt>>
    BY <1>16 DEF Decline, shopify, tables
  <2>4. QED
    BY <1>t, <2>1, <2>2, <2>3 DEF TablesOK
<1>17. CASE Reinstall
  <2>1. spoilt' \in BOOLEAN /\ installed' = TRUE
    BY <1>17 DEF Reinstall, InFlight
  <2>2. UNCHANGED <<current, made, pending, rows, shop, events, faults>>
    BY <1>17 DEF Reinstall, tables, bounds
  <2>3. QED
    BY <1>t, <2>1, <2>2 DEF TablesOK
<1>18. QED
  BY <1>1, <1>2, <1>3, <1>4, <1>5, <1>6, <1>7, <1>8, <1>9, <1>10, <1>11,
     <1>12, <1>13, <1>14, <1>15, <1>16, <1>17
  DEF Next, Merchant, Deliver, Statement

\* A request that begins, and one that ends.
LEMMA StartTask ==
    ASSUME TypeOK, NEW h \in Handlers, NEW kind \in Openers \cup Closers,
           NEW sub \in Ids, kind \notin {"UNINSTALL", "DECLINED"} => sub \in Subs,
           kind = "DECLINED" => sub = Declined,
           Start(h, kind, sub), UNCHANGED rows
    PROVE  TaskOK'
<1> DEFINE new == [step |-> FirstStep(kind), kind |-> kind, sub |-> sub, row |-> 0,
                   dunning |-> "none"]
<1>1. /\ new \in Task /\ new.sub = sub /\ new.kind = kind
      /\ new.step = IF kind = "UNINSTALL" THEN "row" ELSE "find"
  BY Bounds DEF Task, FirstStep
<1>2. task' = [task EXCEPT ![h] = new]
  BY DEF Start
<1>3. kind # "none"
  BY DEF Openers, Closers
<1> HIDE DEF new
<1>4. QED
  BY <1>1, <1>2, <1>3, TaskTypes

LEMMA FinishTask ==
    ASSUME TypeOK, NEW h \in Handlers, Finish(h), DOMAIN rows \subseteq DOMAIN rows'
    PROVE  TaskOK'
BY IdleTask, TaskTypes DEF Finish

\* A request that goes on to a statement that needs no row, or the row it has.
LEMMA GotoTask ==
    ASSUME TypeOK, NEW h \in Handlers, task[h].step # "idle",
           NEW step \in {"look", "row", "shop"}, Goto(h, step),
           task[h].row \in DOMAIN rows \/ task[h].kind = "UNINSTALL",
           DOMAIN rows \subseteq DOMAIN rows'
    PROVE  TaskOK'
<1> DEFINE t == [task[h] EXCEPT !.step = step]
<1>1. task[h] \in Task
  BY DEF TypeOK
<1>2. t \in Task
  BY <1>1 DEF Task
<1>3. t.step = step /\ t.kind = task[h].kind /\ t.row = task[h].row /\ t.sub = task[h].sub
  BY <1>1 DEF Task
<1>4. task' = [task EXCEPT ![h] = t]
  BY DEF Goto
<1>5. /\ task[h].kind # "none"
      /\ task[h].kind \notin {"none", "UNINSTALL", "DECLINED"} => task[h].sub \in Subs
      /\ task[h].kind = "DECLINED" => task[h].sub = Declined
  BY DEF TypeOK
<1> HIDE DEF t
<1>6. QED
  BY <1>2, <1>3, <1>4, <1>5, TaskTypes

LEMMA NextTask == TypeOK /\ [Next]_vars => TaskOK'
<1> SUFFICES ASSUME TypeOK, [Next]_vars PROVE TaskOK'
  OBVIOUS
<1>t. TaskOK
  BY TwoParts
<1>1. ASSUME UNCHANGED task, DOMAIN rows \subseteq DOMAIN rows' PROVE TaskOK'
  BY <1>t, <1>1 DEF TaskOK
<1>2. CASE Approve \/ Cancel \/ Decline \/ Charge \/ Uninstall \/ Reinstall \/ UNCHANGED vars
  BY <1>1, <1>2 DEF Approve, Cancel, Decline, Charge, Uninstall, Reinstall, vars, tables
<1>3. CASE TimePasses \/ CompleteTrial
  <2>1. UNCHANGED task /\ DOMAIN rows' = DOMAIN rows
    BY <1>3 DEF TimePasses, CompleteTrial
  <2>2. QED
    BY <1>1, <2>1
<1>4. CASE Onboard
  <2>1. rows \in Seq(Row)
    BY DEF TypeOK
  <2>2. DOMAIN rows \subseteq DOMAIN rows'
    <3>1. CASE rows' = Append(rows, TrialRow)
      <4>1. DOMAIN rows' = 1 .. Len(rows) + 1 /\ DOMAIN rows = 1 .. Len(rows) /\ Len(rows) \in Nat
        BY <2>1, <3>1
      <4>2. QED
        BY <4>1
    <3>2. QED
      BY <1>4, <3>1 DEF Onboard
  <2>3. QED
    BY <1>1, <1>4, <2>2 DEF Onboard
<1>5. ASSUME NEW h \in Handlers, NEW m \in pending, Receive(h, m) PROVE TaskOK'
  <2>1. /\ m.kind \in Openers \cup Closers /\ m.sub \in Ids
        /\ m.kind \notin {"UNINSTALL", "DECLINED"} => m.sub \in Subs
        /\ m.kind = "DECLINED" => m.sub = Declined
    BY DEF TypeOK, Webhooks, Webhook, Openers, Closers, Ids
  <2>2. QED
    BY <1>5, <2>1, StartTask DEF Receive, tables
<1>6. ASSUME NEW h \in Handlers, Request(h) PROVE TaskOK'
  <2>1. PICK kind \in {"ACTIVATE", "SYNC"} : Start(h, kind, current)
    BY <1>6 DEF Request
  <2>2. kind \in Openers \cup Closers /\ current \in Subs /\ current \in Ids
    BY <1>6 DEF TypeOK, Openers, Request, Ids
  <2>3. QED
    BY <1>6, <2>1, <2>2, StartTask DEF Request, tables
<1>7. ASSUME NEW h \in Handlers, Find(h) PROVE TaskOK'
  <2>1. task[h].step = "find" /\ UNCHANGED rows /\ task[h] \in Task /\ task[h].kind # "none"
    BY <1>7 DEF Find, At, tables, TypeOK
  <2>2. CASE Finish(h)
    BY <2>1, <2>2, FinishTask
  <2>3. CASE ~Finish(h)
    <3>1. PICK i \in Candidates(task[h]) :
             /\ AfterFind(task[h], i) # "idle"
             /\ task' = [task EXCEPT ![h].step = AfterFind(task[h], i),
                                     ![h].row = i,
                                     ![h].dunning = rows[i].dunning]
      BY <1>7, <2>3 DEF Find
    <3> DEFINE t == [task[h] EXCEPT !.step = AfterFind(task[h], i), !.row = i,
                                    !.dunning = rows[i].dunning]
    <3>2. i \in DOMAIN rows /\ i \in 0 .. MaxRows /\ rows[i].dunning \in Periods
      <4>1. i \in DOMAIN rows
        BY DEF Candidates, ActiveRows
      <4>2. rows[i] \in Row /\ DOMAIN rows = 1 .. Len(rows) /\ Len(rows) \in Nat
        BY <4>1, RowTypes
      <4>3. Len(rows) <= MaxRows
        BY DEF TypeOK
      <4>4. QED
        BY <4>1, <4>2, <4>3, Bounds DEF Row, Periods
    <3>3. /\ AfterFind(task[h], i) \in {"dunning", "row"}
          /\ AfterFind(task[h], i) = "dunning" => task[h].kind \in {"FAILED", "PAID"}
      BY <3>1 DEF AfterFind
    <3>4. t \in Task
      BY <2>1, <3>2, <3>3, TaskFields DEF Steps
    <3>5. t.step = AfterFind(task[h], i) /\ t.row = i /\ t.kind = task[h].kind /\ t.sub = task[h].sub
      BY <2>1 DEF Task
    <3>6. task' = [task EXCEPT ![h] = t]
      BY <3>1 DEF TypeOK
    <3>7. /\ task[h].kind \notin {"none", "UNINSTALL", "DECLINED"} => task[h].sub \in Subs
          /\ task[h].kind = "DECLINED" => task[h].sub = Declined
      BY DEF TypeOK
    <3> HIDE DEF t
    <3>8. QED
      BY <2>1, <3>2, <3>3, <3>4, <3>5, <3>6, <3>7, TaskTypes
  <2>4. QED
    BY <2>2, <2>3
<1>8. ASSUME NEW h \in Handlers, WriteDunning(h) PROVE TaskOK'
  <2>1. task[h].step = "dunning" /\ DOMAIN rows' = DOMAIN rows
    BY <1>8 DEF WriteDunning, At
  <2>2. task[h].row \in DOMAIN rows
    BY <2>1 DEF TypeOK
  <2>3. Finish(h) \/ Goto(h, "look") \/ Goto(h, "row")
    BY <1>8 DEF WriteDunning, Continue, AfterDunning
  <2>4. QED
    BY <2>1, <2>2, <2>3, FinishTask, GotoTask
<1>9. ASSUME NEW h \in Handlers, Look(h) PROVE TaskOK'
  <2>1. task[h].step = "look" /\ UNCHANGED rows /\ (Finish(h) \/ Goto(h, "shop"))
    BY <1>9 DEF Look, At, tables
  <2>2. task[h].row \in DOMAIN rows \/ task[h].kind = "UNINSTALL"
    BY <2>1 DEF TypeOK
  <2>3. QED
    BY <2>1, <2>2, FinishTask, GotoTask
<1>10. ASSUME NEW h \in Handlers, WriteRow(h) PROVE TaskOK'
  <2>1. task[h].step = "row" /\ DOMAIN rows' = DOMAIN rows
    BY <1>10 DEF WriteRow, At
  <2>2. Finish(h) \/ Goto(h, "shop")
    BY <1>10 DEF WriteRow, Continue, AfterRow
  <2>3. task[h].row \in DOMAIN rows \/ task[h].kind = "UNINSTALL"
    BY <2>1 DEF TypeOK
  <2>4. QED
    BY <2>1, <2>2, <2>3, FinishTask, GotoTask
<1>11. ASSUME NEW h \in Handlers, WriteShop(h) PROVE TaskOK'
  <2>1. /\ task[h].step = "shop" /\ UNCHANGED rows
        /\ Finish(h) \/ (task[h].kind = "PAID" /\ Goto(h, "row"))
    BY <1>11 DEF WriteShop, At, Continue
  <2>2. task[h].row \in DOMAIN rows \/ task[h].kind = "UNINSTALL"
    BY <2>1 DEF TypeOK
  <2>3. QED
    BY <2>1, <2>2, FinishTask, GotoTask
<1>12. ASSUME NEW h \in Handlers, Fail(h) PROVE TaskOK'
  <2>1. Finish(h) /\ UNCHANGED rows
    BY <1>12 DEF Fail, tables
  <2>2. QED
    BY <2>1, FinishTask
<1>13. QED
  BY <1>2, <1>3, <1>4, <1>5, <1>6, <1>7, <1>8, <1>9, <1>10, <1>11, <1>12
  DEF Next, Merchant, Deliver, Statement

LEMMA NextTypes == TypeOK /\ [Next]_vars => TypeOK'
<1> SUFFICES ASSUME TypeOK, [Next]_vars PROVE TypeOK'
  OBVIOUS
<1>1. TablesOK' /\ TaskOK'
  BY NextTables, NextTask
<1>2. QED
  BY <1>1 DEF TypeOK, TablesOK, TaskOK

\* Type correctness; in particular a request that writes to a row has found one.
THEOREM SubscriptionTypes == Spec => []TypeOK
BY InitTypes, NextTypes, PTL DEF Spec

-----------------------------------------------------------------------------
(* What a step does to the tasks.                                          *)

LEMMA Begins ==
    ASSUME TypeOK, NEW h \in Handlers, NEW kind, NEW sub, Start(h, kind, sub)
    PROVE  /\ ~spoilt /\ task[h].step = "idle"
           /\ task'[h].step = FirstStep(kind) /\ task'[h].kind = kind /\ task'[h].sub = sub
           /\ \A g \in Handlers \ {h} : task'[g] = task[g]
BY DEF TypeOK, Start, At

LEMMA Ends ==
    ASSUME TypeOK, NEW h \in Handlers, Finish(h)
    PROVE  /\ task'[h].step = "idle" /\ task'[h].kind = "none" /\ task'[h].sub = NoSub
           /\ \A g \in Handlers \ {h} : task'[g] = task[g]
BY DEF TypeOK, Finish, Idle

LEMMA Goes ==
    ASSUME TypeOK, NEW h \in Handlers, NEW step, Goto(h, step)
    PROVE  /\ task'[h].step = step /\ task'[h].kind = task[h].kind
           /\ task'[h].sub = task[h].sub /\ task'[h].row = task[h].row
           /\ \A g \in Handlers \ {h} : task'[g] = task[g]
BY DEF TypeOK, Goto, Task

\* A lookup that leads on has found a row.
LEMMA Picks ==
    ASSUME TypeOK, NEW h \in Handlers, Find(h)
    PROVE  \/ /\ Finish(h)
              /\ \/ Candidates(task[h]) = {}
                 \/ \E i \in Candidates(task[h]) : AfterFind(task[h], i) = "idle"
           \/ \E i \in Candidates(task[h]) :
                 /\ TakesNewest(task[h]) => IsNewest(i, Candidates(task[h]))
                 /\ AfterFind(task[h], i) # "idle"
                 /\ task'[h].step = AfterFind(task[h], i) /\ task'[h].row = i
                 /\ task'[h].kind = task[h].kind /\ task'[h].sub = task[h].sub
                 /\ \A g \in Handlers \ {h} : task'[g] = task[g]
<1>1. CASE Candidates(task[h]) = {} /\ Finish(h)
  BY <1>1
<1>2. ASSUME NEW i \in Candidates(task[h]),
             TakesNewest(task[h]) => IsNewest(i, Candidates(task[h])),
             IF AfterFind(task[h], i) = "idle" THEN Finish(h)
             ELSE task' = [task EXCEPT ![h].step = AfterFind(task[h], i),
                                       ![h].row = i,
                                       ![h].dunning = rows[i].dunning]
      PROVE  \/ /\ Finish(h)
                /\ \E j \in Candidates(task[h]) : AfterFind(task[h], j) = "idle"
             \/ /\ AfterFind(task[h], i) # "idle"
                /\ task'[h].step = AfterFind(task[h], i) /\ task'[h].row = i
                /\ task'[h].kind = task[h].kind /\ task'[h].sub = task[h].sub
                /\ \A g \in Handlers \ {h} : task'[g] = task[g]
  <2>1. CASE AfterFind(task[h], i) = "idle"
    BY <1>2, <2>1
  <2>2. CASE AfterFind(task[h], i) # "idle"
    BY <1>2, <2>2 DEF TypeOK, Task
  <2>3. QED
    BY <2>1, <2>2
<1>3. QED
  BY <1>1, <1>2 DEF Find

\* A request keeps its kind and its subscription until it ends.
Continues(h) ==
    /\ task'[h].kind = task[h].kind /\ task'[h].sub = task[h].sub
    /\ \A g \in Handlers \ {h} : task'[g] = task[g]

LEMMA StatementTask ==
    ASSUME TypeOK, NEW h \in Handlers, Statement(h)
    PROVE  /\ Finish(h) \/ Continues(h)
           /\ UNCHANGED <<current, made, installed, pending, spoilt>>
<1>1. UNCHANGED <<current, made, installed, pending, spoilt>>
  BY DEF Statement, Find, WriteDunning, Look, WriteRow, WriteShop, shopify
<1>2. ASSUME Find(h) PROVE Finish(h) \/ Continues(h)
  <2>1. \/ Finish(h)
        \/ /\ task'[h].kind = task[h].kind /\ task'[h].sub = task[h].sub
           /\ \A g \in Handlers \ {h} : task'[g] = task[g]
    BY <1>2, Picks
  <2>2. QED
    BY <2>1 DEF Continues
<1>3. ASSUME NEW step, Goto(h, step) PROVE Continues(h)
  BY <1>3, Goes DEF Continues
<1>4. ASSUME ~Find(h) PROVE Finish(h) \/ Continues(h)
  <2>1. CASE WriteDunning(h)
    BY <1>3, <2>1 DEF WriteDunning, Continue, AfterDunning
  <2>2. CASE Look(h)
    BY <1>3, <2>2 DEF Look
  <2>3. CASE WriteRow(h)
    BY <1>3, <2>3 DEF WriteRow, Continue
  <2>4. CASE WriteShop(h)
    BY <1>3, <2>4 DEF WriteShop, Continue
  <2>5. QED
    BY <1>4, <2>1, <2>2, <2>3, <2>4 DEF Statement
<1>5. QED
  BY <1>1, <1>2, <1>4

-----------------------------------------------------------------------------
(* Shopify's state and the requests under way, until the history is spoilt. *)

Opening(h) == task[h].kind \in Openers
Closing(h) == task[h].kind \in Closers

\* What Shopify holds is the newest subscription or none; webhooks are about
\* the past.
SubsInv ==
    /\ current \in {NoSub, made}
    /\ ~installed => current = NoSub
    /\ \A m \in pending :
          /\ m.sub <= made
          /\ m.kind = "CANCELLED" => m.sub # current
    /\ \A i \in DOMAIN rows : rows[i].sub <= made

\* A request that opens is about the current subscription, one that closes is
\* not when it cancels, and they are not under way together.
TaskInv ==
    /\ \A h \in Handlers :
          /\ task[h].sub <= made
          /\ Opening(h) => task[h].sub = current
          /\ task[h].kind = "CANCELLED" => task[h].sub # current
    /\ \A g, h \in Handlers : ~(Opening(g) /\ Closing(h))

LEMMA StaysSpoilt == [Next]_vars /\ ~spoilt' => ~spoilt
BY DEF Next, Merchant, Approve, Cancel, Decline, Charge, Uninstall, Reinstall,
       TimePasses, Onboard,
       CompleteTrial, Deliver, Receive, Request, Start, Statement, Find, WriteDunning,
       Look, WriteRow, WriteShop, At, Fail, vars

LEMMA InitTasks == Init => SubsInv /\ TaskInv
BY DEF Init, SubsInv, TaskInv, Opening, Closing, Idle, Openers, Closers, NoSub

\* Tasks that stay, end or begin keep TaskInv.
LEMMA KeptTasks ==
    ASSUME TypeOK, TaskInv, UNCHANGED <<current, made>>,
           \/ UNCHANGED task
           \/ \E h \in Handlers : Finish(h) \/ Continues(h)
    PROVE  TaskInv'
<1>1. CASE UNCHANGED task
  BY <1>1 DEF TaskInv, Opening, Closing
<1>2. ASSUME NEW h \in Handlers, Finish(h) PROVE TaskInv'
  <2>1. made \in Nat
    BY Bounds DEF TypeOK
  <2>2. QED
    BY <1>2, <2>1, Ends DEF TaskInv, Opening, Closing, Openers, Closers, NoSub
<1>3. ASSUME NEW h \in Handlers, Continues(h) PROVE TaskInv'
  BY <1>3 DEF Continues, TaskInv, Opening, Closing
<1>4. QED
  BY <1>1, <1>2, <1>3

LEMMA BegunTask ==
    ASSUME TypeOK, TaskInv, UNCHANGED <<current, made>>,
           NEW h \in Handlers, NEW kind \in Openers \cup Closers,
           NEW sub \in Int, sub <= made,
           Start(h, kind, sub), ~Clashes(kind),
           kind \in Openers => sub = current,
           kind = "CANCELLED" => sub # current
    PROVE  TaskInv'
<1>1. /\ task'[h].kind = kind /\ task'[h].sub = sub
      /\ \A g \in Handlers \ {h} : task'[g] = task[g]
  BY Begins
<1>2. Openers \cap Closers = {}
  BY DEF Openers, Closers
<1>3. \A g \in Handlers : ~(Opening(g)' /\ Closing(h)') /\ ~(Opening(h)' /\ Closing(g)')
  BY <1>1, <1>2 DEF Clashes, InFlight, Opening, Closing
<1>4. \A g, k \in Handlers \ {h} : ~(Opening(g)' /\ Closing(k)')
  BY <1>1 DEF TaskInv, Opening, Closing
<1>5. \A g \in Handlers : /\ task'[g].sub <= made
                          /\ Opening(g)' => task'[g].sub = current
                          /\ task'[g].kind = "CANCELLED" => task'[g].sub # current
  BY <1>1 DEF TaskInv, Opening
<1>6. QED
  BY <1>3, <1>4, <1>5 DEF TaskInv

LEMMA NextTaskInv ==
    ASSUME TypeOK, SubsInv, TaskInv, [Next]_vars, ~spoilt'
    PROVE  TaskInv'
<1> USE Bounds
<1>t. made \in Nat /\ current \in Nat /\ MaxSubs \in Nat
  BY DEF TypeOK, Subs, NoSub
<1>1. ASSUME Approve \/ Cancel \/ Uninstall PROVE TaskInv'
  <2>1. UNCHANGED task /\ \A h \in Handlers : ~Opening(h)
    BY <1>1 DEF Approve, Cancel, Uninstall, InFlight, Opening
  <2>2. made' >= made /\ (current' = NoSub \/ (current' = made + 1 /\ Approve))
    BY <1>1, <1>t DEF Approve, Cancel, Uninstall
  <2>3. \A h \in Handlers :
            task[h].sub \in Int /\ (task[h].kind = "CANCELLED" => task[h].sub \in Subs)
    <3>1. \A h \in Handlers : task[h].sub \in Ids
      BY DEF TypeOK, Task
    <3>2. QED
      BY <3>1, IdTypes DEF TypeOK
  <2>4. \A h \in Handlers : task[h].kind = "CANCELLED" => task[h].sub # current'
    BY <2>2, <2>3, <1>t DEF TaskInv, Closing, Closers, Subs, NoSub
  <2>5. \A h \in Handlers : task[h].sub <= made'
    BY <2>2, <2>3, <1>t, <1>1 DEF TaskInv, Approve, Cancel, Uninstall
  <2>6. QED
    BY <2>1, <2>4, <2>5 DEF TaskInv, Opening, Closing
<1>2. ASSUME Decline \/ Charge \/ TimePasses \/ Onboard \/ Reinstall \/ CompleteTrial
             \/ UNCHANGED vars
      PROVE  TaskInv'
  BY <1>2, KeptTasks
  DEF Decline, Charge, TimePasses, Onboard, Reinstall, CompleteTrial, vars, shopify
<1>3. ASSUME NEW h \in Handlers, NEW m \in pending, Receive(h, m) PROVE TaskInv'
  <2>1. m.kind \in Openers \cup Closers /\ m.sub \in Int /\ m.sub <= made
    BY DEF TypeOK, Webhooks, Webhook, Openers, Closers, SubsInv, Subs, NoSub, Declined
  <2>2. ~Clashes(m.kind) /\ ~Outdated(m)
    BY <1>3 DEF Receive
  <2>3. (m.kind \in Openers => m.sub = current) /\ (m.kind = "CANCELLED" => m.sub # current)
    BY <2>2 DEF Outdated, Openers
  <2>4. QED
    BY <1>3, <2>1, <2>2, <2>3, BegunTask DEF Receive, shopify
<1>4. ASSUME NEW h \in Handlers, Request(h) PROVE TaskInv'
  <2>1. PICK kind \in {"ACTIVATE", "SYNC"} : Start(h, kind, current)
    BY <1>4 DEF Request
  <2>2. kind \in Openers /\ "SYNC" \in Openers /\ kind # "CANCELLED"
    BY DEF Openers
  <2>3. ~Clashes(kind) /\ UNCHANGED <<current, made>>
    BY <1>4, <2>2 DEF Request, Clashes, shopify
  <2>4. current \in Int /\ current <= made
    BY <1>t DEF SubsInv, NoSub
  <2>5. QED
    BY <2>1, <2>2, <2>3, <2>4, BegunTask
<1>5. ASSUME NEW h \in Handlers, Statement(h) \/ Fail(h) PROVE TaskInv'
  <2>1. UNCHANGED <<current, made>> /\ (Finish(h) \/ Continues(h))
    BY <1>5, StatementTask DEF Fail, shopify
  <2>2. QED
    BY <2>1, KeptTasks
<1>6. QED
  BY <1>1, <1>2, <1>3, <1>4, <1>5 DEF Next, Merchant, Deliver

-----------------------------------------------------------------------------
(* What a step does to the rows: which are active and what they are bound to. *)

SameRow(i) == rows'[i].active = rows[i].active /\ rows'[i].sub = rows[i].sub
SameRows == DOMAIN rows' = DOMAIN rows /\ \A i \in DOMAIN rows : SameRow(i)

\* A dunning period or a status changes.
LEMMA QuietRows ==
    ASSUME TypeOK, TimePasses \/ CompleteTrial \/ (\E h \in Handlers : WriteDunning(h))
                              \/ UNCHANGED rows
    PROVE  SameRows
<1>1. ASSUME NEW i \in DOMAIN rows, NEW d, rows' = [rows EXCEPT ![i].dunning = d]
      PROVE  SameRows
  <2>1. rows[i] \in Row
    BY RowTypes
  <2>2. QED
    BY <1>1, <2>1 DEF SameRows, SameRow, Row
<1>2. ASSUME NEW i \in DOMAIN rows, rows' = [rows EXCEPT ![i].status = "TRIAL_COMPLETED"]
      PROVE  SameRows
  <2>1. rows[i] \in Row
    BY RowTypes
  <2>2. QED
    BY <1>2, <2>1 DEF SameRows, SameRow, Row
<1>3. ASSUME NEW h \in Handlers, WriteDunning(h) PROVE SameRows
  <2>1. task[h].row \in DOMAIN rows
    BY <1>3 DEF WriteDunning, At, TypeOK
  <2>2. QED
    BY <1>1, <1>3, <2>1 DEF WriteDunning
<1>4. QED
  BY <1>1, <1>2, <1>3 DEF TimePasses, CompleteTrial, ActiveRows, SameRows, SameRow

LEMMA AppendedRow ==
    ASSUME TypeOK, Onboard
    PROVE  \/ UNCHANGED rows
           \/ /\ ActiveRows = {} /\ DOMAIN rows' = DOMAIN rows \cup {Len(rows) + 1}
              /\ Len(rows') = Len(rows) + 1
              /\ rows'[Len(rows) + 1].sub = NoSub /\ rows'[Len(rows) + 1].active
              /\ \A i \in DOMAIN rows : rows'[i] = rows[i] /\ i < Len(rows) + 1
<1>1. rows \in Seq(Row) /\ DOMAIN rows = 1 .. Len(rows) /\ Len(rows) \in Nat
  BY RowTypes DEF TypeOK
<1>2. TrialRow \in Row /\ TrialRow.sub = NoSub /\ TrialRow.active
  BY IdTypes DEF TrialRow, Row
<1>3. CASE ~Existing /\ rows' = Append(rows, TrialRow)
  <2>1. ActiveRows = {}
    BY <1>3 DEF Existing, ActiveRows
  <2>2. /\ Len(rows') = Len(rows) + 1 /\ rows' \in Seq(Row)
        /\ \A i \in 1 .. Len(rows) : rows'[i] = rows[i]
        /\ rows'[Len(rows) + 1] = TrialRow
    BY <1>1, <1>2, <1>3, AppendProperties
  <2>3. DOMAIN rows' = 1 .. Len(rows) + 1
    BY <2>2
  <2>4. QED
    BY <1>1, <1>2, <2>1, <2>2, <2>3
<1>4. QED
  BY <1>3 DEF Onboard

\* One row is written: bound to the request's subscription or not, and
\* activated, deactivated or left.
LEMMA OneRowWritten ==
    ASSUME TypeOK, NEW h \in Handlers, WriteRow(h), task[h].kind # "UNINSTALL"
    PROVE  LET t == task[h] IN
           /\ t.step = "row" /\ t.row \in DOMAIN rows
           /\ DOMAIN rows' = DOMAIN rows /\ Len(rows') = Len(rows)
           /\ \A i \in DOMAIN rows \ {t.row} : rows'[i] = rows[i]
           /\ rows'[t.row].sub = IF t.kind \in {"FAILED", "PAID"} THEN rows[t.row].sub ELSE t.sub
           /\ rows'[t.row].active = IF t.kind \in {"ACTIVE", "PAID"} THEN TRUE
                                    ELSE IF t.kind \in {"ACTIVATE", "SYNC"} THEN rows[t.row].active
                                    ELSE FALSE
           /\ t.kind \in {"ACTIVE", "ACTIVATE", "SYNC", "CANCELLED", "DECLINED", "FAILED", "PAID"}
<1> DEFINE t == task[h]
           r == rows[t.row]
<1>1. t.step = "row"
  BY DEF WriteRow, At
<1>2. /\ t.row \in DOMAIN rows /\ t \in Task /\ t.kind # "none"
  BY <1>1 DEF TypeOK
<1>3. r \in Row
  BY <1>2, RowTypes
<1>4. rows' = [rows EXCEPT ![t.row] = RowAfter(t, r)]
  BY DEF WriteRow
<1>5. rows'[t.row] = RowAfter(t, r) /\ DOMAIN rows' = DOMAIN rows
      /\ \A i \in DOMAIN rows \ {t.row} : rows'[i] = rows[i]
  BY <1>2, <1>4
<1>6. Len(rows') = Len(rows)
  BY <1>1, <1>2, <1>3, <1>4, WrittenRow, Replaced
<1>7. t.kind \in {"ACTIVE", "ACTIVATE", "SYNC", "CANCELLED", "DECLINED", "FAILED", "PAID"}
  BY <1>2 DEF Task, Openers, Closers
<1> HIDE DEF t, r
<1>8. /\ RowAfter(t, r).sub = IF t.kind \in {"FAILED", "PAID"} THEN r.sub ELSE t.sub
      /\ RowAfter(t, r).active = IF t.kind \in {"ACTIVE", "PAID"} THEN TRUE
                                 ELSE IF t.kind \in {"ACTIVATE", "SYNC"} THEN r.active
                                 ELSE FALSE
  <2>1. CASE t.kind = "ACTIVE"
    BY <1>3, <2>1 DEF RowAfter, Row
  <2>2. CASE t.kind \in {"ACTIVATE", "SYNC"}
    BY <1>3, <2>2 DEF RowAfter, Row
  <2>3. CASE t.kind \in {"CANCELLED", "DECLINED"}
    BY <1>3, <2>3 DEF RowAfter, Row
  <2>4. CASE t.kind = "FAILED"
    BY <1>3, <2>4 DEF RowAfter, Row
  <2>5. CASE t.kind = "PAID"
    BY <1>3, <2>5 DEF RowAfter, Row
  <2>6. QED
    BY <1>7, <2>1, <2>2, <2>3, <2>4, <2>5
<1>9. QED
  BY <1>1, <1>2, <1>5, <1>6, <1>7, <1>8 DEF t, r

LEMMA AllRowsClosed ==
    ASSUME TypeOK, NEW h \in Handlers, WriteRow(h), task[h].kind = "UNINSTALL"
    PROVE  /\ DOMAIN rows' = DOMAIN rows /\ Len(rows') = Len(rows)
           /\ \A i \in DOMAIN rows : ~rows'[i].active /\ rows'[i].sub = rows[i].sub
<1>1. \A i \in DOMAIN rows : rows[i] \in Row
  BY RowTypes
<1>2. rows' = [i \in DOMAIN rows |->
                  IF rows[i].active
                  THEN [rows[i] EXCEPT !.status = "CANCELLED", !.active = FALSE]
                  ELSE rows[i]]
  BY DEF WriteRow
<1>3. Len(rows') = Len(rows) /\ DOMAIN rows' = DOMAIN rows
  BY <1>2, UninstalledRows
<1>4. ASSUME NEW i \in DOMAIN rows
      PROVE  ~rows'[i].active /\ rows'[i].sub = rows[i].sub
  <2>1. CASE rows[i].active
    BY <1>1, <1>2, <2>1 DEF Row
  <2>2. CASE ~rows[i].active
    BY <1>2, <2>2
  <2>3. QED
    BY <2>1, <2>2
<1>5. QED
  BY <1>3, <1>4

\* The other steps leave the rows alone.
LEMMA OtherRows ==
    ASSUME [Next]_vars, ~TimePasses, ~CompleteTrial, ~Onboard,
           \A h \in Handlers : ~WriteDunning(h) /\ ~WriteRow(h)
    PROVE  UNCHANGED rows
BY DEF Next, Merchant, Approve, Cancel, Decline, Charge, Uninstall, Reinstall,
       Deliver, Receive, Request,
       Statement, Find, Look, WriteShop, Fail, tables, vars

LEMMA NextSubs ==
    ASSUME TypeOK, SubsInv, TaskInv, [Next]_vars, ~spoilt'
    PROVE  SubsInv'
<1> USE Bounds
<1>t. made \in Nat /\ current \in Nat
  BY DEF TypeOK, Subs, NoSub
<1>r. /\ \A i \in DOMAIN rows : rows[i].sub \in Int
      /\ \A h \in Handlers : task[h].sub \in Int
      /\ \A m \in pending : m.sub \in Int
  <2>1. \A i \in DOMAIN rows : rows[i].sub \in Int
    BY RowTypes, IdTypes DEF Row
  <2>2. \A h \in Handlers : task[h].sub \in Int
    BY IdTypes DEF TypeOK, Task
  <2>3. \A m \in pending : m.sub \in Int
    BY DEF TypeOK, Webhooks, Webhook, Subs, NoSub, Declined
  <2>4. QED
    BY <2>1, <2>2, <2>3
<1>m. made' \in {made, made + 1}
  BY StatementTask DEF Next, Merchant, Approve, Cancel, Decline, Charge, Uninstall, Reinstall,
                       TimePasses, Onboard,
         CompleteTrial, Deliver, Receive, Request, Fail, shopify, vars
<1>1. \A i \in DOMAIN rows' : rows'[i].sub <= made'
  <2>1. CASE SameRows
    BY <2>1, <1>m, <1>r, <1>t DEF SameRows, SameRow, SubsInv
  <2>2. CASE Onboard
    BY <2>2, <1>m, <1>r, <1>t, AppendedRow DEF SubsInv, NoSub
  <2>3. ASSUME NEW h \in Handlers, WriteRow(h)
        PROVE  \A i \in DOMAIN rows' : rows'[i].sub <= made'
    <3>1. task[h].sub <= made
      BY DEF TaskInv
    <3>2. CASE task[h].kind = "UNINSTALL"
      BY <2>3, <3>2, <1>m, <1>r, <1>t, AllRowsClosed DEF SubsInv
    <3>3. CASE task[h].kind # "UNINSTALL"
      <4>1. \A i \in DOMAIN rows : rows'[i].sub \in {rows[i].sub, task[h].sub}
        BY <2>3, <3>3, OneRowWritten
      <4>2. DOMAIN rows' = DOMAIN rows
        BY <2>3, <3>3, OneRowWritten
      <4>3. QED
        BY <3>1, <4>1, <4>2, <1>m, <1>r, <1>t DEF SubsInv
    <3>4. QED
      BY <3>2, <3>3
  <2>4. QED
    BY <2>1, <2>2, <2>3, QuietRows, OtherRows
<1>2. CASE UNCHANGED <<current, made, installed, pending>>
  BY <1>1, <1>2 DEF SubsInv
<1>3. CASE Approve
  <2>1. current' = made' /\ made' = made + 1 /\ installed'
    BY <1>3 DEF Approve
  <2>2. ASSUME NEW m \in pending'
        PROVE  m.sub <= made' /\ (m.kind = "CANCELLED" => m.sub # current')
    <3>1. m \in pending \/ (m.sub = made' /\ m.kind = "ACTIVE") \/ m.sub = current
      <4>1. m \in pending \/ m = Webhook("ACTIVE", made + 1) \/ m = Webhook("CANCELLED", current)
        BY <1>3 DEF Approve
      <4>2. QED
        BY <2>1, <4>1 DEF Webhook
    <3>2. current <= made
      BY <1>t DEF SubsInv, NoSub
    <3>3. m \in pending \/ m.sub = current => m.sub <= made
      BY <3>2 DEF SubsInv
    <3>4. QED
      BY <2>1, <3>1, <3>2, <3>3, <1>t, <1>r
  <2>3. QED
    BY <1>1, <2>1, <2>2 DEF SubsInv
<1>4. CASE Cancel \/ Uninstall
  <2>1. made' = made /\ current' = NoSub
    BY <1>4 DEF Cancel, Uninstall
  <2>2. ASSUME NEW m \in pending'
        PROVE  m.sub <= made /\ (m.kind = "CANCELLED" => m.sub # NoSub)
    <3>1. \/ m \in pending
          \/ m.sub = current /\ current # NoSub
          \/ m.kind = "UNINSTALL" /\ m.sub = NoSub
      BY <1>4 DEF Cancel, Uninstall, Webhook
    <3>2. m \in pending /\ m.kind = "CANCELLED" => m.sub # NoSub
      BY DEF TypeOK, Webhooks, Webhook, Subs, NoSub
    <3>3. QED
      BY <3>1, <3>2, <1>t DEF SubsInv, NoSub
  <2>3. QED
    BY <1>1, <2>1, <2>2 DEF SubsInv
<1>5. CASE Charge
  <2>1. \A m \in pending' : m \in pending \/ (m.sub = current /\ m.kind # "CANCELLED")
    BY <1>5 DEF Charge, Webhook
  <2>2. UNCHANGED <<current, made, installed>>
    BY <1>5 DEF Charge, shopify
  <2>3. current <= made
    BY <1>t DEF SubsInv, NoSub
  <2>4. QED
    BY <1>1, <2>1, <2>2, <2>3 DEF SubsInv
<1>6. CASE Onboard \/ Reinstall
  BY <1>1, <1>6 DEF Onboard, Reinstall, SubsInv
<1>7. ASSUME NEW h \in Handlers, NEW m \in pending, Receive(h, m) PROVE SubsInv'
  BY <1>1, <1>7 DEF Receive, shopify, SubsInv
<1>8. ASSUME NEW h \in Handlers, Fail(h) PROVE SubsInv'
  <2>1. \A m \in pending' : m \in pending \/ (m.kind = task[h].kind /\ m.sub = task[h].sub)
    BY <1>8 DEF Fail, Webhook
  <2>2. UNCHANGED <<current, made, installed>>
    BY <1>8 DEF Fail, shopify
  <2>3. QED
    BY <1>1, <2>1, <2>2 DEF SubsInv, TaskInv
<1>9. CASE Decline
  <2>1. \A m \in pending' : m \in pending \/ (m.sub = Declined /\ m.kind # "CANCELLED")
    BY <1>9 DEF Decline, Webhook
  <2>2. UNCHANGED <<current, made, installed>>
    BY <1>9 DEF Decline, shopify
  <2>3. Declined <= made
    BY <1>t DEF Declined
  <2>4. QED
    BY <1>1, <2>1, <2>2, <2>3 DEF SubsInv
<1>10. QED
  BY <1>2, <1>3, <1>4, <1>5, <1>6, <1>7, <1>8, <1>9, StatementTask
  DEF Next, Merchant, TimePasses, CompleteTrial, Deliver, Request, shopify, vars

-----------------------------------------------------------------------------
(* Which row a request has picked.                                         *)

Picked(h) == task[h].step \notin {"idle", "find"}

LEMMA MovesOn ==
    ASSUME TypeOK, NEW h \in Handlers, WriteDunning(h) \/ Look(h) \/ WriteRow(h) \/ WriteShop(h)
    PROVE  /\ Picked(h)
           /\ Finish(h) \/ \E step \in {"look", "row", "shop"} : Goto(h, step)
<1>1. CASE WriteDunning(h)
  BY <1>1 DEF WriteDunning, At, Continue, AfterDunning, Picked
<1>2. CASE Look(h)
  BY <1>2 DEF Look, At, Picked
<1>3. CASE WriteRow(h)
  BY <1>3 DEF WriteRow, At, Continue, AfterRow, Picked
<1>4. CASE WriteShop(h)
  BY <1>4 DEF WriteShop, At, Continue, Picked
<1>5. QED
  BY <1>1, <1>2, <1>3, <1>4

\* A request has a row because it had it before, or has just found it.
LEMMA PickedTask ==
    ASSUME TypeOK, [Next]_vars, NEW g \in Handlers, Picked(g)', task'[g].kind # "UNINSTALL"
    PROVE  LET t == task[g] IN
           /\ task'[g].kind = t.kind /\ task'[g].sub = t.sub
           /\ \/ Picked(g) /\ task'[g].row = t.row
              \/ /\ Find(g) /\ task'[g].row \in Candidates(t)
                 /\ TakesNewest(t) => IsNewest(task'[g].row, Candidates(t))
                 /\ task'[g].step = AfterFind(t, task'[g].row)
<1> DEFINE Kept == /\ task'[g].kind = task[g].kind /\ task'[g].sub = task[g].sub
                   /\ Picked(g) /\ task'[g].row = task[g].row
<1>1. ASSUME task'[g] = task[g] PROVE Kept
  BY <1>1 DEF Picked
<1>2. ASSUME NEW h \in Handlers, NEW kind, NEW sub, Start(h, kind, sub) PROVE Kept
  <2>1. h = g => kind = "UNINSTALL"
    BY <1>2, Begins DEF Picked, FirstStep
  <2>2. QED
    BY <1>1, <1>2, <2>1, Begins
<1>3. ASSUME NEW h \in Handlers, Finish(h) PROVE Kept
  BY <1>1, <1>3, Ends DEF Picked
<1>4. ASSUME NEW h \in Handlers, WriteDunning(h) \/ Look(h) \/ WriteRow(h) \/ WriteShop(h)
      PROVE  Kept
  <2>1. ASSUME NEW step, Goto(h, step) PROVE Kept
    BY <1>1, <1>4, <2>1, MovesOn, Goes
  <2>2. QED
    BY <1>3, <1>4, <2>1, MovesOn
<1> HIDE DEF Kept
<1>5. ASSUME NEW h \in Handlers, Find(h), ~Kept
      PROVE  h = g /\ \E i \in Candidates(task[g]) :
                /\ TakesNewest(task[g]) => IsNewest(i, Candidates(task[g]))
                /\ task'[g].step = AfterFind(task[g], i) /\ task'[g].row = i
                /\ task'[g].kind = task[g].kind /\ task'[g].sub = task[g].sub
  BY <1>1, <1>3, <1>5, Picks
<1>6. ASSUME ~Kept, \A h \in Handlers : ~Find(h) PROVE FALSE
  <2>1. UNCHANGED task => Kept
    BY <1>1
  <2>2. QED
    BY <1>2, <1>3, <1>4, <1>6, <2>1
    DEF Next, Merchant, Approve, Cancel, Decline, Charge, Uninstall, Reinstall,
        TimePasses, Onboard,
        CompleteTrial, Deliver, Receive, Request, Statement, Fail, vars
<1>7. CASE Kept
  BY <1>7 DEF Kept
<1>8. CASE ~Kept
  <2>1. PICK h \in Handlers : Find(h)
    BY <1>6, <1>8
  <2>2. h = g
    BY <1>5, <1>8, <2>1
  <2>3. QED
    BY <1>5, <1>8, <2>1, <2>2
<1>9. QED
  BY <1>7, <1>8

\* Rows stay, but for the one appended, and a row once bound stays bound.
LEMMA SameLength ==
    ASSUME TypeOK, [Next]_vars, DOMAIN rows' = DOMAIN rows
    PROVE  Len(rows') = Len(rows)
<1>1. TypeOK'
  BY NextTypes
<1>2. DOMAIN rows' = 1 .. Len(rows') /\ Len(rows') \in Nat
  BY <1>1 DEF TypeOK
<1>3. QED
  BY <1>2, RowTypes

LEMMA StayBound ==
    ASSUME TypeOK, [Next]_vars, ~Onboard
    PROVE  /\ DOMAIN rows' = DOMAIN rows /\ Len(rows') = Len(rows)
           /\ \A i \in DOMAIN rows : rows'[i].sub = NoSub => rows[i].sub = NoSub
<1>1. CASE SameRows
  BY <1>1, SameLength DEF SameRows, SameRow
<1>2. ASSUME NEW h \in Handlers, WriteRow(h), task[h].kind = "UNINSTALL"
      PROVE  /\ DOMAIN rows' = DOMAIN rows
             /\ \A i \in DOMAIN rows : rows'[i].sub = NoSub => rows[i].sub = NoSub
  BY <1>2, AllRowsClosed
<1>3. ASSUME NEW h \in Handlers, WriteRow(h), task[h].kind # "UNINSTALL"
      PROVE  /\ DOMAIN rows' = DOMAIN rows
             /\ \A i \in DOMAIN rows : rows'[i].sub = NoSub => rows[i].sub = NoSub
  <2>1. task[h].sub \in Subs \cup {Declined}
    BY <1>3, OneRowWritten DEF TypeOK
  <2>2. task[h].sub # NoSub
    BY <2>1, IdTypes
  <2>3. QED
    BY <1>3, <2>2, OneRowWritten
<1>4. QED
  BY <1>1, <1>2, <1>3, QuietRows, OtherRows, SameLength

\* When a row is appended no request is under way.
LEMMA QuietOnboard ==
    ASSUME TypeOK, SubsInv, TaskInv, Onboard, ~spoilt'
    PROVE  /\ \A h \in Handlers : task[h].kind = "none" /\ task[h].step = "idle"
           /\ UNCHANGED <<task, current, made, pending>> /\ current = NoSub
           /\ Webhook("CANCELLED", made) \notin pending
<1>1. /\ current = NoSub /\ UNCHANGED <<task, current, made, pending>>
      /\ Webhook("CANCELLED", made) \notin pending
  BY DEF Onboard, SubsInv
<1>2. \A h \in Handlers : ~Closing(h)
  BY DEF Onboard, InFlight, Closing
<1>3. ASSUME NEW h \in Handlers PROVE ~Opening(h)
  <2>1. Opening(h) => task[h].sub \in Subs
    BY DEF TypeOK, Opening, Openers
  <2>2. QED
    BY <1>1, <2>1, Bounds DEF TaskInv, Subs, NoSub
<1>4. \A h \in Handlers : task[h].kind \in Openers \cup Closers \cup {"none"}
  BY DEF TypeOK, Task
<1>5. QED
  BY <1>1, <1>2, <1>3, <1>4 DEF TypeOK, Opening, Closing

-----------------------------------------------------------------------------
(* The newest rows.                                                        *)

\* A row that is not yet bound is the last one in use: those before it are
\* inactive and not bound to the current subscription.
NewerBound ==
    \A i, j \in DOMAIN rows :
        j < i /\ rows[i].sub = NoSub =>
            ~rows[j].active /\ (current # NoSub => rows[j].sub # current)

\* A request that opens the shop has picked the newest row that is not bound.
PickedNewest ==
    \A h \in Handlers : Opening(h) /\ Picked(h) =>
        \A i \in DOMAIN rows : i > task[h].row => rows[i].sub # NoSub

\* The rows that an approval is bound to or can be.
Usable == {i \in DOMAIN rows : rows[i].sub # Declined}

\* Up to the first approval all happens in the newest of these.
LastActive ==
    made <= 1 =>
        /\ \A i \in ActiveRows : IsNewest(i, Usable)
        /\ \A h \in Handlers :
              /\ Opening(h) /\ Picked(h) => IsNewest(task[h].row, Usable)
              /\ task[h].kind = "CANCELLED" /\ Picked(h) =>
                     \A i \in ActiveRows : task[h].row <= i

LEMMA NextPickedNewest ==
    ASSUME TypeOK, SubsInv, TaskInv, NewerBound, PickedNewest, [Next]_vars, ~spoilt'
    PROVE  PickedNewest'
<1>1. CASE Onboard
  BY <1>1, QuietOnboard DEF PickedNewest, Picked
<1>2. CASE ~Onboard
  <2> SUFFICES ASSUME NEW h \in Handlers, Opening(h)', Picked(h)',
                      NEW i \in DOMAIN rows', i > task'[h].row, rows'[i].sub = NoSub
               PROVE  FALSE
    BY DEF PickedNewest
  <2>1. i \in DOMAIN rows /\ rows[i].sub = NoSub
    BY <1>2, StayBound
  <2>2. task'[h].kind # "UNINSTALL"
    BY DEF Opening, Openers
  <2>3. Opening(h)
    BY <2>2, PickedTask DEF Opening
  <2>4. CASE Picked(h) /\ task'[h].row = task[h].row
    BY <2>1, <2>3, <2>4 DEF PickedNewest
  <2>5. CASE /\ task'[h].row \in Candidates(task[h])
             /\ TakesNewest(task[h]) => IsNewest(task'[h].row, Candidates(task[h]))
    <3>1. CASE task[h].kind = "ACTIVE"
      <4>1. i \in Candidates(task[h])
        BY <2>1, <3>1 DEF Candidates
      <4>2. i <= task'[h].row
        BY <2>5, <3>1, <4>1 DEF TakesNewest, IsNewest
      <4>3. task'[h].row \in Nat /\ i \in Nat
        BY <2>1, <2>5, <3>1, RowTypes DEF Candidates
      <4>4. QED
        BY <4>2, <4>3
    <3>2. CASE task[h].kind # "ACTIVE"
      <4>1. Candidates(task[h]) = ActiveRows
        BY <2>3, <3>2 DEF Candidates, Opening, Openers
      <4>2. QED
        BY <2>1, <2>5, <4>1 DEF ActiveRows, NewerBound
    <3>3. QED
      BY <3>1, <3>2
  <2>6. QED
    BY <2>2, <2>4, <2>5, PickedTask
<1>3. QED
  BY <1>1, <1>2

\* What Shopify holds changes to a new subscription or to none.
LEMMA NextCurrent ==
    ASSUME TypeOK, [Next]_vars
    PROVE  \/ UNCHANGED <<current, made>>
           \/ UNCHANGED <<rows, task>> /\ current' = NoSub /\ made' = made
           \/ UNCHANGED <<rows, task>> /\ current' = made + 1 /\ made' = made + 1
BY StatementTask
DEF Next, Merchant, Approve, Cancel, Decline, Charge, Uninstall, Reinstall,
    TimePasses, Onboard, CompleteTrial,
    Deliver, Receive, Request, Fail, shopify, tables, vars

LEMMA NextNewerBound ==
    ASSUME TypeOK, SubsInv, TaskInv, NewerBound, PickedNewest, [Next]_vars, ~spoilt'
    PROVE  NewerBound'
<1>1. CASE UNCHANGED <<rows, task>>
  <2>1. \A j \in DOMAIN rows : current' = made + 1 => rows[j].sub # current'
    <3>1. made \in Nat /\ \A j \in DOMAIN rows : rows[j].sub \in Int
      <4>1. \A j \in DOMAIN rows : rows[j].sub \in Int
        BY RowTypes, IdTypes DEF Row
      <4>2. QED
        BY <4>1, Bounds DEF TypeOK
    <3>2. QED
      BY <3>1 DEF SubsInv
  <2>2. QED
    BY <1>1, <2>1, NextCurrent DEF NewerBound
<1>2. CASE current' = current /\ SameRows
  BY <1>2 DEF NewerBound, SameRows, SameRow
<1>3. CASE Onboard
  <2>1. CASE UNCHANGED rows
    BY <1>3, <2>1, QuietOnboard DEF NewerBound
  <2>2. CASE ~UNCHANGED rows
    <3>1. /\ ActiveRows = {} /\ DOMAIN rows' = DOMAIN rows \cup {Len(rows) + 1}
          /\ \A i \in DOMAIN rows : rows'[i] = rows[i] /\ i < Len(rows) + 1
      BY <1>3, <2>2, AppendedRow
    <3>2. current' = NoSub
      BY <1>3, QuietOnboard
    <3>3. \A j \in DOMAIN rows : ~rows'[j].active
      BY <3>1 DEF ActiveRows
    <3>4. ASSUME NEW i \in DOMAIN rows', NEW j \in DOMAIN rows', j < i PROVE j \in DOMAIN rows
      BY <3>1, <3>4, RowTypes
    <3>5. QED
      BY <3>2, <3>3, <3>4 DEF NewerBound
  <2>3. QED
    BY <2>1, <2>2
<1>4. ASSUME NEW h \in Handlers, WriteRow(h) PROVE NewerBound'
  <2>1. current' = current
    BY <1>4 DEF WriteRow, shopify
  <2>2. CASE task[h].kind = "UNINSTALL"
    BY <1>4, <2>1, <2>2, AllRowsClosed DEF NewerBound
  <2>3. CASE task[h].kind # "UNINSTALL"
    <3> DEFINE k == task[h].row
    <3>1. /\ k \in DOMAIN rows /\ DOMAIN rows' = DOMAIN rows /\ task[h].step = "row"
          /\ \A i \in DOMAIN rows \ {k} : rows'[i] = rows[i]
      BY <1>4, <2>3, OneRowWritten
    <3>2. \A i \in DOMAIN rows : rows'[i].sub = NoSub => rows[i].sub = NoSub
      BY <1>4, StayBound DEF WriteRow, Onboard, shopify, SubsInv, Next, Statement
    <3> SUFFICES ASSUME NEW i \in DOMAIN rows, NEW j \in DOMAIN rows,
                        j < i, rows[i].sub = NoSub, j = k
                 PROVE  ~rows'[j].active /\ (current # NoSub => rows'[j].sub # current)
      BY <2>1, <3>1, <3>2 DEF NewerBound
    <3>3. ~rows[j].active /\ (current # NoSub => rows[j].sub # current)
      BY DEF NewerBound
    <3>4. ~Opening(h)
      BY <3>1 DEF PickedNewest, Picked
    <3>5. task[h].kind \in {"CANCELLED", "DECLINED", "FAILED"}
      BY <2>3, <3>1, <3>4 DEF TypeOK, Task, Opening, Openers, Closers
    <3>6. ~rows'[j].active /\ rows'[j].sub \in {task[h].sub, rows[j].sub}
          /\ (task[h].kind = "FAILED" => rows'[j].sub = rows[j].sub)
      BY <1>4, <2>3, <3>5, OneRowWritten
    <3>7. task[h].kind \in {"CANCELLED", "DECLINED"} => task[h].sub # current
      BY IdTypes DEF TaskInv, TypeOK
    <3>8. QED
      BY <3>3, <3>5, <3>6, <3>7
  <2>4. QED
    BY <2>2, <2>3
<1>5. QED
  BY <1>1, <1>2, <1>3, <1>4, QuietRows, OtherRows, NextCurrent

\* Neither do the requests that close make a row active, nor those that open
\* change which rows are usable.
LEMMA UsableStep ==
    ASSUME TypeOK, SubsInv, TaskInv, LastActive, [Next]_vars, ~spoilt', ~Onboard, made <= 1
    PROVE  /\ \A i \in ActiveRows' : IsNewest(i, Usable')
           /\ \A h \in Handlers : /\ Opening(h) => Usable' = Usable
                                  /\ Closing(h) => ActiveRows' \subseteq ActiveRows
<1>1. ASSUME SameRows PROVE Usable' = Usable /\ ActiveRows' = ActiveRows
  BY <1>1 DEF SameRows, SameRow, Usable, ActiveRows
<1>2. ASSUME NEW h \in Handlers, WriteRow(h), task[h].kind = "UNINSTALL"
      PROVE  Usable' = Usable /\ ActiveRows' = {}
  BY <1>2, AllRowsClosed DEF Usable, ActiveRows
<1>3. ASSUME NEW h \in Handlers, WriteRow(h), task[h].kind # "UNINSTALL"
      PROVE  /\ \A i \in ActiveRows' : IsNewest(i, Usable')
             /\ Opening(h) => Usable' = Usable
             /\ Closing(h) => ActiveRows' \subseteq ActiveRows
             /\ Opening(h) \/ Closing(h)
  <2> DEFINE t == task[h]
             k == task[h].row
  <2>1. /\ k \in DOMAIN rows /\ DOMAIN rows' = DOMAIN rows /\ t.step = "row"
        /\ \A i \in DOMAIN rows \ {k} : rows'[i] = rows[i]
        /\ rows'[k].sub = IF t.kind \in {"FAILED", "PAID"} THEN rows[k].sub ELSE t.sub
        /\ rows'[k].active = IF t.kind \in {"ACTIVE", "PAID"} THEN TRUE
                             ELSE IF t.kind \in {"ACTIVATE", "SYNC"} THEN rows[k].active
                             ELSE FALSE
    BY <1>3, OneRowWritten
  <2>2. t.kind \in {"ACTIVE", "ACTIVATE", "SYNC", "CANCELLED", "DECLINED", "FAILED", "PAID"}
    BY <1>3, OneRowWritten
  <2>3. t.kind \notin {"DECLINED", "UNINSTALL", "none"} => t.sub # Declined
    BY IdTypes DEF TypeOK
  <2>4. t.kind = "DECLINED" => t.sub = Declined
    BY DEF TypeOK
  <2>5. \A i \in ActiveRows : IsNewest(i, Usable)
    BY DEF LastActive
  <2>6. CASE Opening(h)
    <3>1. IsNewest(k, Usable) /\ t.kind \notin Closers
      BY <2>1, <2>6 DEF LastActive, Picked, Opening, Openers, Closers
    <3>2. k \in Usable /\ rows[k].sub # Declined
      BY <3>1 DEF IsNewest, Usable
    <3>3. rows'[k].sub # Declined
      BY <2>1, <2>2, <2>3, <3>1, <3>2 DEF Closers
    <3>4. Usable' = Usable
      BY <2>1, <3>2, <3>3 DEF Usable
    <3>5. ActiveRows' \subseteq ActiveRows \cup {k}
      BY <2>1 DEF ActiveRows
    <3>6. ~Closing(h)
      BY <3>1 DEF Closing
    <3>7. QED
      BY <2>5, <2>6, <3>1, <3>4, <3>5, <3>6
  <2>7. CASE ~Opening(h)
    <3>1. t.kind \in {"CANCELLED", "DECLINED", "FAILED"}
      BY <2>2, <2>7 DEF Opening, Openers
    <3>2. Closing(h) /\ ~rows'[k].active
      BY <2>1, <3>1 DEF Closing, Closers
    <3>3. ActiveRows' \subseteq ActiveRows \ {k}
      BY <2>1, <3>2 DEF ActiveRows
    <3>4. ASSUME NEW i \in ActiveRows', NEW j \in Usable' PROVE j <= i
      <4>1. i \in ActiveRows /\ j \in DOMAIN rows
        BY <2>1, <3>3 DEF Usable
      <4>2. CASE j \in Usable
        BY <2>5, <4>1, <4>2 DEF IsNewest
      <4>3. CASE j \notin Usable
        <5>1. j = k /\ rows'[k].sub # rows[k].sub /\ rows'[k].sub # Declined
          BY <2>1, <4>1, <4>3 DEF Usable
        <5>2. t.kind = "CANCELLED"
          BY <2>1, <2>4, <3>1, <5>1
        <5>3. QED
          BY <2>1, <4>1, <5>1, <5>2 DEF LastActive, Picked
      <4>4. QED
        BY <4>2, <4>3
    <3>5. \A i \in ActiveRows' : i \in Usable'
      BY <2>1, <2>5, <3>3 DEF IsNewest, Usable
    <3>6. QED
      BY <2>7, <3>2, <3>3, <3>4, <3>5 DEF IsNewest
  <2>8. QED
    BY <2>6, <2>7
<1>4. \A g, h \in Handlers : ~(Opening(g) /\ Closing(h))
  BY DEF TaskInv
<1>5. CASE SameRows
  BY <1>1, <1>5 DEF LastActive
<1>6. ASSUME NEW h \in Handlers, WriteRow(h)
      PROVE  /\ \A i \in ActiveRows' : IsNewest(i, Usable')
             /\ \A g \in Handlers : /\ Opening(g) => Usable' = Usable
                                    /\ Closing(g) => ActiveRows' \subseteq ActiveRows
  BY <1>2, <1>3, <1>4, <1>6
<1>7. QED
  BY <1>5, <1>6, QuietRows, OtherRows

LEMMA NextLastActive ==
    ASSUME TypeOK, SubsInv, TaskInv, NewerBound, LastActive, [Next]_vars, ~spoilt'
    PROVE  LastActive'
<1> SUFFICES ASSUME made' <= 1 PROVE LastActive'
  BY DEF LastActive
<1>1. made <= 1 /\ made \in Nat
  BY NextCurrent, Bounds DEF TypeOK
<1>2. CASE Onboard
  <2>1. \A h \in Handlers : ~Picked(h)'
    BY <1>2, QuietOnboard DEF Picked
  <2>2. \A i \in ActiveRows' : IsNewest(i, Usable')
    <3>1. CASE UNCHANGED rows
      BY <1>1, <3>1 DEF LastActive, ActiveRows, Usable
    <3>2. CASE ~UNCHANGED rows
      <4>1. /\ ActiveRows = {} /\ DOMAIN rows' = DOMAIN rows \cup {Len(rows) + 1}
            /\ rows'[Len(rows) + 1].sub = NoSub
            /\ \A i \in DOMAIN rows : rows'[i] = rows[i] /\ i < Len(rows) + 1
        BY <1>2, <3>2, AppendedRow
      <4>2. ActiveRows' \subseteq {Len(rows) + 1}
        BY <4>1 DEF ActiveRows
      <4>3. Len(rows) + 1 \in Usable' /\ \A j \in Usable' : j <= Len(rows) + 1
        BY <4>1, IdTypes, RowTypes DEF Usable
      <4>4. QED
        BY <4>2, <4>3 DEF IsNewest
    <3>3. QED
      BY <3>1, <3>2
  <2>3. QED
    BY <2>1, <2>2 DEF LastActive, Picked
<1>3. CASE ~Onboard
  <2>1. DOMAIN rows' = DOMAIN rows
    BY <1>3, StayBound
  <2>2. /\ \A i \in ActiveRows' : IsNewest(i, Usable')
        /\ \A h \in Handlers : /\ Opening(h) => Usable' = Usable
                               /\ Closing(h) => ActiveRows' \subseteq ActiveRows
    BY <1>1, <1>3, UsableStep
  <2>3. ASSUME NEW h \in Handlers, Opening(h)', Picked(h)'
        PROVE  IsNewest(task'[h].row, Usable')
    <3>1. task'[h].kind # "UNINSTALL"
      BY <2>3 DEF Opening, Openers
    <3>2. Opening(h)
      BY <2>3, <3>1, PickedTask DEF Opening
    <3>3. Usable' = Usable
      BY <2>2, <3>2 DEF Opening, Usable
    <3>4. CASE Picked(h) /\ task'[h].row = task[h].row
      BY <1>1, <3>2, <3>3, <3>4 DEF LastActive
    <3>5. CASE /\ task'[h].row \in Candidates(task[h])
               /\ TakesNewest(task[h]) => IsNewest(task'[h].row, Candidates(task[h]))
      <4>1. CASE task[h].kind = "ACTIVE"
        <5>1. task[h].sub = 1 /\ made = 1
          BY <1>1, <4>1, Bounds DEF TypeOK, TaskInv, Subs, NoSub
        <5>2. \A i \in DOMAIN rows : rows[i].sub \in {Declined, NoSub, 1}
          BY <5>1, RowTypes DEF SubsInv, Row, Ids, Subs, NoSub, Declined
        <5>3. Candidates(task[h]) = Usable
          BY <4>1, <5>1, <5>2 DEF Candidates, Usable, NoSub, Declined
        <5>4. QED
          BY <3>3, <3>5, <4>1, <5>3 DEF TakesNewest
      <4>2. CASE task[h].kind # "ACTIVE"
        <5>1. Candidates(task[h]) = ActiveRows
          BY <3>2, <4>2 DEF Candidates, Opening, Openers
        <5>2. QED
          BY <1>1, <3>3, <3>5, <5>1 DEF LastActive
      <4>3. QED
        BY <4>1, <4>2
    <3>6. QED
      BY <3>1, <3>4, <3>5, <2>3, PickedTask
  <2>4. ASSUME NEW h \in Handlers, task'[h].kind = "CANCELLED", Picked(h)',
               NEW i \in ActiveRows'
        PROVE  task'[h].row <= i
    <3>1. task'[h].kind # "UNINSTALL"
      BY <2>4
    <3>2. task[h].kind = "CANCELLED" /\ Closing(h)
      BY <2>4, <3>1, PickedTask DEF Closing, Closers
    <3>3. i \in ActiveRows /\ IsNewest(i, Usable)
      <4>1. i \in ActiveRows
        BY <2>2, <2>4, <3>2 DEF Closing, ActiveRows
      <4>2. QED
        BY <1>1, <4>1 DEF LastActive
    <3>4. CASE Picked(h) /\ task'[h].row = task[h].row
      BY <1>1, <2>4, <3>2, <3>3, <3>4 DEF LastActive
    <3>5. CASE task'[h].row \in Candidates(task[h])
      <4> DEFINE k == task'[h].row
      <4>1. k \in DOMAIN rows /\ (rows[k].sub = task[h].sub \/ k \in ActiveRows)
        BY <3>2, <3>5 DEF Candidates, ActiveRows
      <4>2. task[h].sub # Declined
        BY <3>2, IdTypes DEF TypeOK
      <4>3. k \in Usable
        BY <1>1, <4>1, <4>2 DEF Usable, LastActive, IsNewest
      <4>4. QED
        BY <3>3, <4>3 DEF IsNewest
    <3>6. QED
      BY <2>4, <3>1, <3>4, <3>5, PickedTask
  <2>5. QED
    BY <2>2, <2>3, <2>4 DEF LastActive
<1>4. QED
  BY <1>2, <1>3

-----------------------------------------------------------------------------
(* Webhooks that are overtaken, and subscriptions being cancelled.         *)

\* A webhook that has been overtaken stays so until it is delivered, and then
\* the history is spoilt.
LEMMA StaysOvertaken ==
    ASSUME TypeOK, SubsInv, [Next]_vars, ~spoilt', NoneOvertaken'
    PROVE  NoneOvertaken
<1> SUFFICES ASSUME NEW m \in pending, m.kind # "UNINSTALL", Outdated(m) PROVE FALSE
  BY DEF NoneOvertaken
<1>0. m.kind # "DECLINED"
  BY DEF Outdated
<1>1. made \in Nat /\ m.sub \in Nat /\ m.sub # NoSub /\ m.sub <= made
  BY <1>0, Bounds DEF TypeOK, SubsInv, Webhooks, Webhook, Subs, NoSub
<1>2. m.kind = "CANCELLED" => m.sub # made
  BY DEF Outdated, SubsInv
<1>3. m.kind # "CANCELLED" => m.sub # current
  BY <1>0 DEF Outdated
<1>4. m \in pending' => ~Outdated(m)'
  BY DEF NoneOvertaken
<1>5. (m.kind = "CANCELLED" => m.sub # made') /\ (m.kind # "CANCELLED" => m.sub # current')
  BY <1>1, <1>2, <1>3, NextCurrent
<1>6. Outdated(m)'
  BY <1>0, <1>5 DEF Outdated
<1>7. m \notin pending'
  BY <1>4, <1>6
<1>8. \E h \in Handlers : Receive(h, m)
  BY <1>7, StatementTask
  DEF Next, Merchant, Approve, Cancel, Decline, Charge, Uninstall, Reinstall,
      TimePasses, Onboard, CompleteTrial,
      Deliver, Receive, Request, Fail, vars
<1>9. QED
  BY <1>8 DEF Receive

\* Only a payment looks at the shop.
LookInv == \A h \in Handlers : task[h].step = "look" => task[h].kind = "PAID"

LEMMA NextLook ==
    ASSUME TypeOK, LookInv, [Next]_vars
    PROVE  LookInv'
<1>1. ASSUME NEW h \in Handlers, NEW kind, NEW sub, Start(h, kind, sub) PROVE LookInv'
  BY <1>1, Begins DEF LookInv, FirstStep
<1>2. ASSUME NEW h \in Handlers, Finish(h) PROVE LookInv'
  BY <1>2, Ends DEF LookInv
<1>3. ASSUME NEW h \in Handlers, NEW step \in {"row", "shop"}, Goto(h, step) PROVE LookInv'
  BY <1>3, Goes DEF LookInv
<1>4. ASSUME NEW h \in Handlers, Find(h) PROVE LookInv'
  <2>1. \A i : AfterFind(task[h], i) # "look"
    BY DEF AfterFind
  <2>2. QED
    BY <1>2, <1>4, <2>1, Picks DEF LookInv
<1>5. ASSUME NEW h \in Handlers, WriteDunning(h) PROVE LookInv'
  <2>1. CASE task[h].kind = "PAID" /\ Goto(h, "look")
    BY <2>1, Goes DEF LookInv
  <2>2. QED
    BY <1>2, <1>3, <1>5, <2>1 DEF WriteDunning, Continue, AfterDunning
<1>6. ASSUME NEW h \in Handlers, Look(h) \/ WriteRow(h) \/ WriteShop(h) PROVE LookInv'
  BY <1>2, <1>3, <1>6 DEF Look, WriteRow, WriteShop, Continue, AfterRow
<1>7. CASE UNCHANGED task
  BY <1>7 DEF LookInv
<1>8. QED
  BY <1>1, <1>2, <1>4, <1>5, <1>6, <1>7
  DEF Next, Merchant, Approve, Cancel, Decline, Charge, Uninstall, Reinstall,
      TimePasses, Onboard, CompleteTrial,
      Deliver, Receive, Request, Statement, Fail, vars

\* The cancellation of subscription s is still to be written to its row.
Cancels(h, s) ==
    task[h].kind = "CANCELLED" /\ task[h].sub = s /\ task[h].step \in {"find", "row"}

\* The subscriptions that an active row may be bound to.
Live ==
    {s \in Subs : \/ s = current
                  \/ Webhook("CANCELLED", s) \in pending
                  \/ \E h \in Handlers : Cancels(h, s)}

\* Beside a request that opens the shop nothing is being cancelled.
LEMMA OpeningLive ==
    ASSUME TypeOK, SubsInv, TaskInv, NoneOvertaken, NEW h \in Handlers, Opening(h)
    PROVE  Live = {current} /\ current \in Subs /\ current = task[h].sub
<1>1. current \in Subs /\ current = task[h].sub
  BY DEF TypeOK, TaskInv, Opening, Openers
<1>2. current = made
  BY <1>1, Bounds DEF SubsInv, Subs, NoSub
<1>3. ASSUME NEW s, Webhook("CANCELLED", s) \in pending PROVE FALSE
  <2> DEFINE m == Webhook("CANCELLED", s)
  <2>1. m.kind = "CANCELLED" /\ m.sub = s
    BY DEF Webhook
  <2>2. m.sub = made
    BY <1>3, <2>1 DEF NoneOvertaken, Outdated
  <2>3. QED
    BY <1>2, <1>3, <2>1, <2>2 DEF SubsInv
<1>4. \A g \in Handlers : task[g].kind # "CANCELLED"
  BY DEF TaskInv, Closing, Closers
<1>5. QED
  BY <1>1, <1>3, <1>4 DEF Live, Cancels

-----------------------------------------------------------------------------
(* One active row, as long as no webhook is overtaken.                     *)

OneRow == \A i, j \in ActiveRows : i = j

\* The active row is not yet bound, or to a subscription that Shopify has or
\* has just ended.
BoundToLive == \A i \in ActiveRows : rows[i].sub = NoSub \/ rows[i].sub \in Live

\* If there is an active row, such a subscription has no other row.
HeldIsActive == \A i \in ActiveRows, j \in DOMAIN rows : rows[j].sub \in Live => j = i

OneBound ==
    current # NoSub =>
        \A i, j \in DOMAIN rows : rows[i].sub = current /\ rows[j].sub = current => i = j

BoundRows == OneRow /\ BoundToLive /\ HeldIsActive /\ OneBound

\* The row a request has picked is still the right one when it is written.
RightRow(h) ==
    LET t == task[h] IN
    /\ t.kind = "ACTIVE" /\ t.step = "row" =>
           /\ rows[t.row].sub \in {NoSub, current}
           /\ \A i \in DOMAIN rows \ {t.row} : ~rows[i].active /\ rows[i].sub # current
    /\ t.kind \in {"SYNC", "ACTIVATE", "PAID"} /\ Picked(h) => t.row \in ActiveRows
    /\ t.kind \in {"CANCELLED", "DECLINED", "FAILED"} /\ Picked(h) /\ t.step # "shop" =>
           ActiveRows \subseteq {t.row}
    /\ Closing(h) /\ t.step = "shop" => ActiveRows = {}

RightRows == \A h \in Handlers : RightRow(h)

\* If a shop with an active row is switched off, a request is about to open it.
Opens ==
    ActiveRows # {} /\ ~shop.active =>
        \/ Webhook("ACTIVE", current) \in pending
        \/ \E h \in Handlers : task[h].kind = "ACTIVE"

LiveInv == BoundRows /\ RightRows /\ Opens

LEMMA KeptBound ==
    ASSUME BoundRows, SameRows, current' \in {current, NoSub}, Live' = Live \/ ActiveRows = {}
    PROVE  BoundRows' /\ ActiveRows' = ActiveRows
<1>1. ActiveRows' = ActiveRows
  BY DEF SameRows, SameRow, ActiveRows
<1>2. DOMAIN rows' = DOMAIN rows /\ \A i \in DOMAIN rows : rows'[i].sub = rows[i].sub
  BY DEF SameRows, SameRow
<1>3. OneRow'
  BY <1>1 DEF BoundRows, OneRow
<1>4. BoundToLive' /\ HeldIsActive'
  BY <1>1, <1>2 DEF BoundRows, BoundToLive, HeldIsActive, ActiveRows
<1>5. OneBound'
  BY <1>2 DEF BoundRows, OneBound
<1>6. QED
  BY <1>1, <1>3, <1>4, <1>5 DEF BoundRows

\* A request that does not move, while the rows stay.
LEMMA KeptRight ==
    ASSUME TypeOK, SameRows, NEW g \in Handlers, RightRow(g), task'[g] = task[g],
           current' = current \/ ~Opening(g)
    PROVE  RightRow(g)'
<1>1. ActiveRows' = ActiveRows /\ (Picked(g)' <=> Picked(g)) /\ (Closing(g)' <=> Closing(g))
  BY DEF SameRows, SameRow, ActiveRows, Picked, Closing
<1>2. task[g].kind = "ACTIVE" /\ task[g].step = "row" =>
        task[g].row \in DOMAIN rows /\ current' = current
  BY DEF TypeOK, Opening, Openers
<1>3. QED
  BY <1>1, <1>2 DEF RightRow, SameRows, SameRow

\* A request that has ended, or has not picked a row yet.
LEMMA NoneRight ==
    ASSUME NEW h \in Handlers,
           ~Picked(h)' \/ (task'[h].kind = "UNINSTALL" /\ task'[h].step # "shop")
    PROVE  RightRow(h)'
BY DEF RightRow, Picked, Closing

\* A request that goes on with its row.
LEMMA GoesRight ==
    ASSUME TypeOK, SameRows, NEW h \in Handlers, RightRow(h), Picked(h),
           NEW step \in {"look", "row", "shop"}, Goto(h, step),
           task[h].kind = "ACTIVE" => step # "row",
           Closing(h) /\ step = "shop" => ActiveRows = {},
           Closing(h) => task[h].step # "shop"
    PROVE  RightRow(h)'
<1>1. ActiveRows' = ActiveRows
  BY DEF SameRows, SameRow, ActiveRows
<1>2. task'[h].step = step /\ task'[h].kind = task[h].kind /\ task'[h].row = task[h].row
  BY Goes
<1>3. QED
  BY <1>1, <1>2 DEF RightRow, Picked, Closing, Closers

\* What is live is decided by Shopify, the webhooks and the cancellations.
LEMMA KeptLive ==
    ASSUME UNCHANGED <<current, pending>>,
           \A h \in Handlers : \A s : Cancels(h, s)' <=> Cancels(h, s)
    PROVE  Live' = Live
BY DEF Live

Calm ==
    /\ TypeOK /\ LookInv /\ SubsInv /\ TaskInv /\ NewerBound /\ PickedNewest
    /\ NoneOvertaken /\ LiveInv

LEMMA LiveApprove ==
    ASSUME Calm, Approve, ~spoilt', NoneOvertaken'
    PROVE  LiveInv'
<1> USE DEF Calm
<1>1. /\ made' = made + 1 /\ current' = made + 1 /\ UNCHANGED <<rows, task>>
      /\ Webhook("ACTIVE", made + 1) \in pending' /\ pending \subseteq pending'
  BY DEF Approve, tables
<1>2. \A h \in Handlers : ~Opening(h)
  BY DEF Approve, InFlight, Opening
<1>3. /\ made \in Nat /\ \A i \in DOMAIN rows : rows[i].sub \in Int /\ rows[i].sub <= made
      /\ made + 1 \in Subs
  <2>1. made \in Nat /\ made + 1 \in Subs
    BY Bounds DEF TypeOK, Subs, NoSub, Approve
  <2>2. QED
    BY <2>1, RowTypes, IdTypes DEF SubsInv, Row
<1>4. ASSUME NEW s \in Subs, Webhook("CANCELLED", s) \in pending' PROVE FALSE
  <2> DEFINE m == Webhook("CANCELLED", s)
  <2>1. m.kind = "CANCELLED" /\ m.sub = s
    BY DEF Webhook
  <2>2. s = made' /\ s # current'
    BY <1>4, <2>1 DEF NoneOvertaken, Outdated
  <2>3. QED
    BY <1>1, <2>2
<1>5. Live \subseteq Live' \cup {current} /\ Live' \subseteq Live \cup {made + 1} /\ made + 1 \in Live'
  BY <1>1, <1>3, <1>4 DEF Live, Cancels
<1>6. current = NoSub
  <2>1. current # NoSub => Webhook("CANCELLED", current) \in pending' /\ current \in Subs
    BY DEF Approve, TypeOK
  <2>2. QED
    BY <1>4, <2>1
<1>7. Live = Live' \ {made + 1}
  <2>1. NoSub \notin Live /\ made + 1 \notin Live
    <3>1. NoSub \notin Live
      BY Bounds DEF Live, Subs, NoSub
    <3>2. Webhook("CANCELLED", made + 1) \notin pending
      BY <1>1, <1>3, <1>4
    <3>3. \A h \in Handlers : task[h].sub # made + 1
      BY <1>3, IdTypes DEF TypeOK, TaskInv, Task
    <3>4. QED
      BY <1>3, <1>6, <3>1, <3>2, <3>3 DEF Live, Cancels, NoSub
  <2>2. QED
    BY <1>5, <1>6, <2>1
<1>8. \A i \in DOMAIN rows : rows[i].sub # made + 1
  BY <1>3
<1>9. ActiveRows' = ActiveRows
  BY <1>1 DEF ActiveRows
<1>10. BoundRows'
  <2>1. OneRow'
    BY <1>9 DEF LiveInv, BoundRows, OneRow
  <2>2. BoundToLive' /\ HeldIsActive'
    BY <1>1, <1>7, <1>8, <1>9 DEF LiveInv, BoundRows, BoundToLive, HeldIsActive
  <2>3. OneBound'
    BY <1>1, <1>8 DEF OneBound
  <2>4. QED
    BY <2>1, <2>2, <2>3 DEF BoundRows
<1>11. RightRows'
  <2>1. SameRows /\ \A h \in Handlers : task'[h] = task[h]
    BY <1>1 DEF SameRows, SameRow
  <2>2. QED
    BY <1>2, <2>1, KeptRight DEF LiveInv, RightRows
<1>12. Opens'
  BY <1>1 DEF Opens
<1>13. QED
  BY <1>10, <1>11, <1>12 DEF LiveInv

LEMMA LiveEnded ==
    ASSUME Calm, Cancel \/ Uninstall, ~spoilt', NoneOvertaken'
    PROVE  LiveInv'
<1> USE DEF Calm
<1>1. /\ made' = made /\ current' = NoSub /\ UNCHANGED <<rows, shop, task>>
      /\ pending \subseteq pending'
      /\ current # NoSub => Webhook("CANCELLED", current) \in pending'
      /\ \A s \in Subs : Webhook("CANCELLED", s) \in pending' =>
             s = current \/ Webhook("CANCELLED", s) \in pending
  BY DEF Cancel, Uninstall, tables, Webhook
<1>2. \A h \in Handlers : ~Opening(h)
  BY DEF Cancel, Uninstall, InFlight, Opening
<1>3. NoSub \notin Subs
  BY Bounds DEF Subs, NoSub
<1>4. Live' = Live
  BY <1>1, <1>3 DEF Live, Cancels
<1>5. SameRows /\ \A h \in Handlers : task'[h] = task[h]
  BY <1>1 DEF SameRows, SameRow
<1>6. BoundRows' /\ ActiveRows' = ActiveRows
  BY <1>1, <1>4, <1>5, KeptBound DEF LiveInv
<1>7. RightRows'
  BY <1>2, <1>5, KeptRight DEF LiveInv, RightRows
<1>8. Opens'
  <2>1. ASSUME NEW m \in pending, m.kind = "ACTIVE", m.sub = current PROVE FALSE
    <3>1. m.sub \in Subs
      BY <2>1 DEF TypeOK, Webhooks, Webhook
    <3>2. m \in pending' /\ ~Outdated(m)'
      BY <1>1, <2>1 DEF NoneOvertaken
    <3>3. QED
      BY <1>1, <1>3, <2>1, <3>1, <3>2 DEF Outdated
  <2>2. Webhook("ACTIVE", current) \notin pending
    BY <2>1 DEF Webhook
  <2>3. QED
    BY <1>1, <1>2, <1>6, <2>2 DEF LiveInv, Opens, Opening, Openers
<1>9. QED
  BY <1>6, <1>7, <1>8 DEF LiveInv

LEMMA LiveQuiet ==
    ASSUME Calm, Decline \/ Charge \/ Reinstall \/ TimePasses \/ CompleteTrial \/ UNCHANGED vars
    PROVE  LiveInv'
<1> USE DEF Calm
<1>1. /\ UNCHANGED <<current, task, shop>> /\ pending \subseteq pending'
      /\ \A s : Webhook("CANCELLED", s) \in pending' <=> Webhook("CANCELLED", s) \in pending
  BY DEF Decline, Charge, Reinstall, TimePasses, CompleteTrial, shopify, tables, vars, Webhook
<1>2. SameRows
  BY QuietRows DEF Decline, Charge, Reinstall, tables, vars
<1>3. Live' = Live
  BY <1>1 DEF Live, Cancels
<1>4. BoundRows' /\ ActiveRows' = ActiveRows
  BY <1>1, <1>2, <1>3, KeptBound DEF LiveInv
<1>5. RightRows'
  BY <1>1, <1>2, KeptRight DEF LiveInv, RightRows
<1>6. Opens'
  BY <1>1, <1>4 DEF LiveInv, Opens
<1>7. QED
  BY <1>4, <1>5, <1>6 DEF LiveInv

LEMMA LiveOnboard ==
    ASSUME Calm, Onboard, ~spoilt'
    PROVE  LiveInv'
<1> USE DEF Calm
<1>1. /\ \A h \in Handlers : task[h].kind = "none" /\ task[h].step = "idle"
      /\ UNCHANGED <<task, current, made, pending>> /\ current = NoSub
      /\ Webhook("CANCELLED", made) \notin pending
  BY QuietOnboard
<1>2. Live = {} /\ Live' = {}
  <2>1. ASSUME NEW s, Webhook("CANCELLED", s) \in pending PROVE FALSE
    <3>1. Webhook("CANCELLED", s).kind = "CANCELLED" /\ Webhook("CANCELLED", s).sub = s
      BY DEF Webhook
    <3>2. s = made
      BY <2>1, <3>1 DEF NoneOvertaken, Outdated
    <3>3. QED
      BY <1>1, <2>1, <3>2
  <2>2. NoSub \notin Subs
    BY Bounds DEF Subs, NoSub
  <2>3. QED
    BY <1>1, <2>1, <2>2 DEF Live, Cancels
<1>3. BoundRows'
  <2>1. CASE UNCHANGED rows
    BY <1>1, <1>2, <2>1, KeptBound DEF SameRows, SameRow, LiveInv
  <2>2. CASE ~UNCHANGED rows
    <3>1. /\ ActiveRows = {} /\ DOMAIN rows' = DOMAIN rows \cup {Len(rows) + 1}
          /\ rows'[Len(rows) + 1].sub = NoSub
          /\ \A i \in DOMAIN rows : rows'[i] = rows[i]
      BY <2>2, AppendedRow
    <3>2. ActiveRows' \subseteq {Len(rows) + 1}
      BY <3>1 DEF ActiveRows
    <3>3. QED
      BY <1>1, <1>2, <3>1, <3>2 DEF BoundRows, OneRow, BoundToLive, HeldIsActive, OneBound
  <2>3. QED
    BY <2>1, <2>2
<1>4. RightRows'
  BY <1>1, NoneRight DEF RightRows, Picked
<1>5. Opens'
  <2>1. shop'.active
    BY DEF Onboard, TypeOK
  <2>2. QED
    BY <2>1 DEF Opens
<1>6. QED
  BY <1>3, <1>4, <1>5 DEF LiveInv

\* A request that begins, with or without its webhook.
LEMMA LiveBegun ==
    ASSUME Calm, NEW h \in Handlers, NEW kind \in Openers \cup Closers, NEW sub,
           Start(h, kind, sub), UNCHANGED <<current, rows, shop>>,
           Live' = Live,
           Webhook("ACTIVE", current) \in pending /\ kind # "ACTIVE" =>
               Webhook("ACTIVE", current) \in pending'
    PROVE  LiveInv'
<1> USE DEF Calm
<1>1. /\ task[h].step = "idle" /\ task[h].kind = "none" /\ task'[h].kind = kind
      /\ task'[h].step = IF kind = "UNINSTALL" THEN "row" ELSE "find"
      /\ \A g \in Handlers \ {h} : task'[g] = task[g]
  <2>1. task[h].step = "idle" /\ task'[h].kind = kind /\ task'[h].step = FirstStep(kind)
        /\ \A g \in Handlers \ {h} : task'[g] = task[g]
    BY Begins
  <2>2. QED
    BY <2>1 DEF TypeOK, FirstStep
<1>2. SameRows
  BY DEF SameRows, SameRow
<1>3. BoundRows' /\ ActiveRows' = ActiveRows
  BY <1>2, KeptBound DEF LiveInv
<1>4. RightRows'
  <2>1. RightRow(h)'
    BY <1>1, NoneRight DEF Picked
  <2>2. \A g \in Handlers \ {h} : RightRow(g)'
    BY <1>1, <1>2, KeptRight DEF LiveInv, RightRows
  <2>3. QED
    BY <2>1, <2>2 DEF RightRows
<1>5. Opens'
  <2>1. ASSUME NEW g \in Handlers, task[g].kind = "ACTIVE" PROVE task'[g].kind = "ACTIVE"
    BY <1>1, <2>1
  <2>2. QED
    BY <1>1, <1>3, <2>1 DEF LiveInv, Opens
<1>6. QED
  BY <1>3, <1>4, <1>5 DEF LiveInv

LEMMA LiveReceive ==
    ASSUME Calm, NEW h \in Handlers, NEW m \in pending, Receive(h, m)
    PROVE  LiveInv'
<1> USE DEF Calm
<1>1. /\ Start(h, m.kind, m.sub) /\ pending' = pending \ {m}
      /\ UNCHANGED <<current, rows, shop>>
  BY DEF Receive, shopify, tables
<1>2. m.kind \in Openers \cup Closers /\ m = Webhook(m.kind, m.sub)
  BY DEF TypeOK, Webhooks, Webhook, Openers, Closers
<1>3. task[h].step = "idle" /\ task'[h].kind = m.kind /\ task'[h].sub = m.sub
      /\ \A g \in Handlers \ {h} : task'[g] = task[g]
  BY <1>1, Begins
<1>4. m.kind = "CANCELLED" => task'[h].step = "find"
  BY <1>1, Begins DEF FirstStep
<1>5. \A s : Cancels(h, s)' <=> m.kind = "CANCELLED" /\ s = m.sub
  BY <1>3, <1>4 DEF Cancels
<1>6. \A s : ~Cancels(h, s) /\ \A g \in Handlers \ {h} : Cancels(g, s)' <=> Cancels(g, s)
  BY <1>3 DEF Cancels
<1>7. \A s : /\ Webhook("CANCELLED", s) = m <=> m.kind = "CANCELLED" /\ s = m.sub
             /\ Webhook("ACTIVE", s) = m => m.kind = "ACTIVE"
  BY <1>2 DEF Webhook
<1>8. \A s : Webhook("CANCELLED", s) \in pending' <=>
                Webhook("CANCELLED", s) \in pending /\ ~(m.kind = "CANCELLED" /\ s = m.sub)
  BY <1>1, <1>7
<1>9. m.kind = "CANCELLED" => Webhook("CANCELLED", m.sub) \in pending
  BY <1>7
<1>10. Live' = Live
  <2>1. ASSUME NEW s \in Subs
        PROVE  (\/ Webhook("CANCELLED", s) \in pending' \/ \E g \in Handlers : Cancels(g, s)')
               <=> (\/ Webhook("CANCELLED", s) \in pending \/ \E g \in Handlers : Cancels(g, s))
    BY <1>5, <1>6, <1>8, <1>9
  <2>2. QED
    BY <1>1, <2>1 DEF Live
<1>11. Webhook("ACTIVE", current) \in pending /\ m.kind # "ACTIVE" =>
           Webhook("ACTIVE", current) \in pending'
  BY <1>1, <1>7
<1>12. QED
  BY <1>1, <1>2, <1>10, <1>11, LiveBegun

LEMMA LiveRequest ==
    ASSUME Calm, NEW h \in Handlers, Request(h)
    PROVE  LiveInv'
<1> USE DEF Calm
<1>1. PICK kind \in {"ACTIVATE", "SYNC"} : Start(h, kind, current)
  BY DEF Request
<1>2. UNCHANGED <<current, pending, rows, shop>>
  BY DEF Request, shopify, tables
<1>3. \A g \in Handlers : \A s : Cancels(g, s)' <=> Cancels(g, s)
  BY <1>1, Begins DEF Cancels
<1>4. Live' = Live
  BY <1>2, <1>3, KeptLive
<1>5. kind \in Openers
  BY DEF Openers
<1>6. QED
  BY <1>1, <1>2, <1>4, <1>5, LiveBegun

\* A request that ends, or goes on with its row, while the rows stay.
LEMMA LiveFinish ==
    ASSUME Calm, NEW h \in Handlers, Finish(h), SameRows, UNCHANGED current,
           pending \subseteq pending',
           Live' = Live \/ ActiveRows = {},
           \/ ActiveRows = {} \/ shop'.active
           \/ UNCHANGED shop
              /\ (task[h].kind # "ACTIVE" \/ Webhook("ACTIVE", current) \in pending')
    PROVE  LiveInv'
<1> USE DEF Calm
<1>1. task'[h].step = "idle" /\ \A g \in Handlers \ {h} : task'[g] = task[g]
  BY Ends
<1>2. BoundRows' /\ ActiveRows' = ActiveRows
  BY KeptBound DEF LiveInv
<1>3. RightRows'
  <2>1. RightRow(h)'
    BY <1>1, NoneRight DEF Picked
  <2>2. \A g \in Handlers \ {h} : RightRow(g)'
    BY <1>1, KeptRight DEF LiveInv, RightRows
  <2>3. QED
    BY <2>1, <2>2 DEF RightRows
<1>4. Opens'
  <2>1. ASSUME NEW g \in Handlers, task[g].kind = "ACTIVE", task[h].kind # "ACTIVE"
        PROVE  task'[g].kind = "ACTIVE"
    BY <1>1, <2>1
  <2>2. QED
    BY <1>2, <2>1 DEF LiveInv, Opens
<1>5. QED
  BY <1>2, <1>3, <1>4 DEF LiveInv

LEMMA LiveGoes ==
    ASSUME Calm, NEW h \in Handlers, NEW step \in {"look", "row", "shop"}, Goto(h, step),
           Picked(h), task[h].kind \in {"FAILED", "PAID"},
           task[h].kind = "FAILED" => step = "row" /\ task[h].step # "shop",
           SameRows, UNCHANGED <<current, pending>>, UNCHANGED shop \/ shop'.active
    PROVE  LiveInv'
<1> USE DEF Calm
<1>1. /\ task'[h].kind = task[h].kind /\ task'[h].sub = task[h].sub
      /\ \A g \in Handlers \ {h} : task'[g] = task[g]
  BY Goes
<1>2. \A g \in Handlers : \A s : Cancels(g, s)' <=> Cancels(g, s)
  BY <1>1 DEF Cancels
<1>3. Live' = Live
  BY <1>2, KeptLive
<1>4. BoundRows' /\ ActiveRows' = ActiveRows
  BY <1>3, KeptBound DEF LiveInv
<1>5. RightRows'
  <2>1. Closing(h) => task[h].kind = "FAILED"
    BY DEF Closing, Closers
  <2>2. RightRow(h)'
    BY <2>1, GoesRight DEF LiveInv, RightRows
  <2>3. \A g \in Handlers \ {h} : RightRow(g)'
    BY <1>1, KeptRight DEF LiveInv, RightRows
  <2>4. QED
    BY <2>2, <2>3 DEF RightRows
<1>6. Opens'
  <2>1. ASSUME NEW g \in Handlers, task[g].kind = "ACTIVE" PROVE task'[g].kind = "ACTIVE"
    BY <1>1, <2>1
  <2>2. QED
    BY <1>4, <2>1 DEF LiveInv, Opens
<1>7. QED
  BY <1>4, <1>5, <1>6 DEF LiveInv

\* The row that a lookup finds is the right one.
LEMMA FoundRight ==
    ASSUME Calm, NEW h \in Handlers, task[h].step = "find", task[h].kind # "UNINSTALL",
           NEW i \in Candidates(task[h]),
           TakesNewest(task[h]) => IsNewest(i, Candidates(task[h]))
    PROVE  /\ task[h].kind = "ACTIVE" =>
                  /\ rows[i].sub \in {NoSub, current}
                  /\ \A j \in DOMAIN rows \ {i} : ~rows[j].active /\ rows[j].sub # current
           /\ task[h].kind \in {"SYNC", "ACTIVATE", "PAID"} => i \in ActiveRows
           /\ task[h].kind \in {"CANCELLED", "DECLINED", "FAILED"} => ActiveRows \subseteq {i}
<1> USE DEF Calm
<1>1. CASE task[h].kind = "ACTIVE"
  <2>1. Live = {current} /\ current \in Subs /\ task[h].sub = current
    BY <1>1, OpeningLive DEF Opening, Openers
  <2>2. current # NoSub
    BY <2>1, Bounds DEF Subs, NoSub
  <2>3. i \in DOMAIN rows /\ rows[i].sub \in {NoSub, current}
    BY <1>1, <2>1 DEF Candidates
  <2>4. ASSUME NEW j \in DOMAIN rows, j # i, rows[j].sub \in {NoSub, current} PROVE j < i
    <3>1. j \in Candidates(task[h])
      BY <1>1, <2>1, <2>4 DEF Candidates
    <3>2. j <= i
      BY <1>1, <3>1 DEF TakesNewest, IsNewest
    <3>3. QED
      BY <2>3, <2>4, <3>2, RowTypes
  <2>5. ASSUME NEW j \in DOMAIN rows, j # i, rows[j].active PROVE FALSE
    <3>1. rows[j].sub \in {NoSub, current} /\ j \in ActiveRows
      BY <2>1, <2>5 DEF LiveInv, BoundRows, BoundToLive, ActiveRows
    <3>2. j < i
      BY <2>4, <2>5, <3>1
    <3>3. CASE rows[i].sub = NoSub
      BY <2>3, <2>5, <3>2, <3>3 DEF NewerBound
    <3>4. CASE rows[i].sub = current
      BY <2>1, <2>3, <2>5, <3>1, <3>4 DEF LiveInv, BoundRows, HeldIsActive
    <3>5. QED
      BY <2>3, <3>3, <3>4
  <2>6. ASSUME NEW j \in DOMAIN rows, j # i, rows[j].sub = current PROVE FALSE
    <3>1. j < i
      BY <2>4, <2>6
    <3>2. CASE rows[i].sub = NoSub
      BY <2>2, <2>3, <2>6, <3>1, <3>2 DEF NewerBound
    <3>3. CASE rows[i].sub = current
      BY <2>2, <2>3, <2>6, <3>3 DEF LiveInv, BoundRows, OneBound
    <3>4. QED
      BY <2>3, <3>2, <3>3
  <2>7. QED
    BY <1>1, <2>3, <2>5, <2>6
<1>2. CASE task[h].kind \in {"SYNC", "ACTIVATE", "PAID"}
  BY <1>2 DEF Candidates
<1>3. CASE task[h].kind \in {"DECLINED", "FAILED"}
  BY <1>3 DEF Candidates, LiveInv, BoundRows, OneRow
<1>4. CASE task[h].kind = "CANCELLED"
  <2>1. i \in DOMAIN rows /\ (rows[i].sub = task[h].sub \/ i \in ActiveRows)
    BY <1>4 DEF Candidates, ActiveRows
  <2>2. task[h].sub \in Live
    BY <1>4 DEF TypeOK, Live, Cancels
  <2>3. QED
    BY <1>4, <2>1, <2>2 DEF LiveInv, BoundRows, OneRow, HeldIsActive
<1>5. QED
  BY <1>1, <1>2, <1>3, <1>4

LEMMA LiveFind ==
    ASSUME Calm, NEW h \in Handlers, Find(h)
    PROVE  LiveInv'
<1> USE DEF Calm
<1>1. task[h].step = "find" /\ UNCHANGED <<current, pending, rows, shop>>
  BY DEF Find, At, shopify, tables
<1>2. SameRows
  BY <1>1 DEF SameRows, SameRow
<1>3. task[h].kind # "none"
  BY <1>1 DEF TypeOK
<1>4. ASSUME Finish(h), Candidates(task[h]) = {} \/
                        \E i \in Candidates(task[h]) : AfterFind(task[h], i) = "idle"
      PROVE  LiveInv'
  <2>1. CASE task[h].kind \in {"ACTIVE", "CANCELLED"}
    <3>1. Candidates(task[h]) = {}
      BY <1>4, <2>1 DEF AfterFind
    <3>2. ActiveRows = {}
      <4>1. CASE task[h].kind = "CANCELLED"
        BY <3>1, <4>1 DEF Candidates, ActiveRows
      <4>2. CASE task[h].kind = "ACTIVE"
        <5>1. Live = {current} /\ task[h].sub = current
          BY <4>2, OpeningLive DEF Opening, Openers
        <5>2. \A i \in ActiveRows : i \in Candidates(task[h])
          BY <4>2, <5>1 DEF LiveInv, BoundRows, BoundToLive, Candidates, ActiveRows
        <5>3. QED
          BY <3>1, <5>2
      <4>3. QED
        BY <2>1, <4>1, <4>2
    <3>3. QED
      BY <1>1, <1>2, <1>4, <3>2, LiveFinish
  <2>2. CASE task[h].kind \notin {"ACTIVE", "CANCELLED"}
    <3>1. \A g \in Handlers : \A s : Cancels(g, s)' <=> Cancels(g, s)
      BY <1>4, <2>2, Ends DEF Cancels
    <3>2. Live' = Live
      BY <1>1, <3>1, KeptLive
    <3>3. QED
      BY <1>1, <1>2, <1>4, <2>2, <3>2, LiveFinish
  <2>3. QED
    BY <2>1, <2>2
<1>5. ASSUME NEW i \in Candidates(task[h]),
             TakesNewest(task[h]) => IsNewest(i, Candidates(task[h])),
             AfterFind(task[h], i) # "idle",
             task'[h].step = AfterFind(task[h], i), task'[h].row = i,
             task'[h].kind = task[h].kind, task'[h].sub = task[h].sub,
             \A g \in Handlers \ {h} : task'[g] = task[g]
      PROVE  LiveInv'
  <2>1. task'[h].step = IF task[h].kind \in {"FAILED", "PAID"} THEN "dunning" ELSE "row"
    BY <1>5 DEF AfterFind
  <2>2. \A g \in Handlers : \A s : Cancels(g, s)' <=> Cancels(g, s)
    BY <1>1, <1>5, <2>1 DEF Cancels
  <2>3. Live' = Live
    BY <1>1, <2>2, KeptLive
  <2>4. BoundRows' /\ ActiveRows' = ActiveRows
    BY <1>1, <1>2, <2>3, KeptBound DEF LiveInv
  <2>5. RightRow(h)'
    <3>1. CASE task[h].kind = "UNINSTALL"
      BY <1>5, <2>1, <3>1, NoneRight
    <3>2. CASE task[h].kind # "UNINSTALL"
      BY <1>1, <1>5, <2>1, <2>4, <3>2, FoundRight DEF RightRow, Picked, Closing
    <3>3. QED
      BY <3>1, <3>2
  <2>6. RightRows'
    BY <1>1, <1>2, <1>5, <2>5, KeptRight DEF LiveInv, RightRows
  <2>7. Opens'
    <3>1. ASSUME NEW g \in Handlers, task[g].kind = "ACTIVE" PROVE task'[g].kind = "ACTIVE"
      BY <1>5, <3>1
    <3>2. QED
      BY <1>1, <2>4, <3>1 DEF LiveInv, Opens
  <2>8. QED
    BY <2>4, <2>6, <2>7 DEF LiveInv
<1>6. QED
  BY <1>4, <1>5, Picks

LEMMA LiveDunning ==
    ASSUME Calm, NEW h \in Handlers, WriteDunning(h) \/ Look(h)
    PROVE  LiveInv'
<1> USE DEF Calm
<1>1. /\ UNCHANGED <<current, pending, shop>>
      /\ \/ WriteDunning(h) /\ task[h].step = "dunning"
         \/ Look(h) /\ task[h].step = "look" /\ UNCHANGED rows
  <2>1. CASE WriteDunning(h)
    BY <2>1 DEF WriteDunning, At, shopify
  <2>2. CASE Look(h)
    BY <2>2 DEF Look, At, shopify, tables
  <2>3. QED
    BY <2>1, <2>2
<1>2. SameRows
  BY <1>1, QuietRows
<1>3. task[h].kind \in {"FAILED", "PAID"} /\ Picked(h)
  BY <1>1 DEF TypeOK, LookInv, Picked
<1>4. CASE Finish(h)
  <2>1. \A g \in Handlers : \A s : Cancels(g, s)' <=> Cancels(g, s)
    BY <1>3, <1>4, Ends DEF Cancels
  <2>2. QED
    BY <1>1, <1>2, <1>3, <1>4, <2>1, KeptLive, LiveFinish
<1>5. CASE task[h].kind = "PAID" /\ (Goto(h, "look") \/ Goto(h, "shop"))
  BY <1>1, <1>2, <1>3, <1>5, LiveGoes
<1>6. CASE task[h].step = "dunning" /\ Goto(h, "row")
  BY <1>1, <1>2, <1>3, <1>6, LiveGoes
<1>7. QED
  <2>1. CASE WriteDunning(h)
    BY <1>1, <1>4, <1>5, <1>6, <2>1 DEF WriteDunning, At, Continue, AfterDunning
  <2>2. CASE Look(h)
    <3>1. task[h].kind = "PAID"
      BY <2>2 DEF Look, At, LookInv
    <3>2. QED
      BY <1>4, <1>5, <2>2, <3>1 DEF Look
  <2>3. QED
    BY <2>1, <2>2

LEMMA LiveShop ==
    ASSUME Calm, NEW h \in Handlers, WriteShop(h)
    PROVE  LiveInv'
<1> USE DEF Calm
<1>1. /\ task[h].step = "shop" /\ UNCHANGED <<current, pending, rows>>
      /\ IF task[h].kind = "PAID" THEN Goto(h, "row") ELSE Finish(h)
  BY DEF WriteShop, At, shopify, Continue
<1>2. SameRows /\ Picked(h)
  BY <1>1 DEF SameRows, SameRow, Picked
<1>3. CASE Closing(h)
  <2>1. ActiveRows = {} /\ task[h].kind # "PAID"
    BY <1>1, <1>3 DEF LiveInv, RightRows, RightRow, Closing, Closers
  <2>2. QED
    BY <1>1, <1>2, <2>1, LiveFinish
<1>4. CASE ~Closing(h)
  <2>1. shop'.active
    BY <1>4 DEF WriteShop, Closing, Closers
  <2>2. CASE task[h].kind = "PAID"
    BY <1>1, <1>2, <2>1, <2>2, LiveGoes
  <2>3. CASE task[h].kind # "PAID"
    <3>1. \A g \in Handlers : \A s : Cancels(g, s)' <=> Cancels(g, s)
      BY <1>1, <2>3, Ends DEF Cancels
    <3>2. QED
      BY <1>1, <1>2, <2>1, <2>3, <3>1, KeptLive, LiveFinish
  <2>4. QED
    BY <2>2, <2>3
<1>5. QED
  BY <1>3, <1>4

LEMMA LiveFail ==
    ASSUME Calm, NEW h \in Handlers, Fail(h), ~spoilt'
    PROVE  LiveInv'
<1> USE DEF Calm
<1> DEFINE w == Webhook(task[h].kind, task[h].sub)
<1>1. /\ UNCHANGED <<current, rows, shop>> /\ Finish(h) /\ pending' = pending \cup {w}
      /\ task[h].step # "idle"
  BY DEF Fail, shopify, tables
<1>2. SameRows
  BY <1>1 DEF SameRows, SameRow
<1>3. \A s : Webhook("CANCELLED", s) = w <=> task[h].kind = "CANCELLED" /\ task[h].sub = s
  BY DEF Webhook
<1>4. \A g \in Handlers \ {h} : task'[g] = task[g]
  BY <1>1, Ends
<1>5. \A s : ~Cancels(h, s)' /\ \A g \in Handlers \ {h} : Cancels(g, s)' <=> Cancels(g, s)
  BY <1>1, <1>4, Ends DEF Cancels
<1>6. CASE task[h].kind = "CANCELLED" /\ task[h].step \notin {"find", "row"}
  <2>1. task[h].step = "shop"
    BY <1>1, <1>6 DEF TypeOK, Task, LookInv
  <2>2. ActiveRows = {}
    BY <1>6, <2>1 DEF LiveInv, RightRows, RightRow, Closing, Closers
  <2>3. QED
    BY <1>1, <1>2, <2>2, LiveFinish
<1>7. CASE ~(task[h].kind = "CANCELLED" /\ task[h].step \notin {"find", "row"})
  <2>1. \A s : Cancels(h, s) <=> task[h].kind = "CANCELLED" /\ task[h].sub = s
    BY <1>7 DEF Cancels
  <2>2. ASSUME NEW s \in Subs
        PROVE  (\/ Webhook("CANCELLED", s) \in pending' \/ \E g \in Handlers : Cancels(g, s)')
               <=> (\/ Webhook("CANCELLED", s) \in pending \/ \E g \in Handlers : Cancels(g, s))
    BY <1>1, <1>3, <1>5, <2>1
  <2>3. Live' = Live
    BY <1>1, <2>2 DEF Live
  <2>4. task[h].kind = "ACTIVE" => Webhook("ACTIVE", current) \in pending'
    BY <1>1 DEF TaskInv, Opening, Openers
  <2>5. QED
    BY <1>1, <1>2, <2>3, <2>4, LiveFinish
<1>8. QED
  BY <1>6, <1>7

\* A request that closes the shop deactivates its row.
LEMMA LiveClose ==
    ASSUME Calm, NEW h \in Handlers, WriteRow(h), Closing(h)
    PROVE  LiveInv'
<1> USE DEF Calm
<1>1. /\ task[h].step = "row" /\ UNCHANGED <<current, pending, shop>> /\ Goto(h, "shop")
  BY DEF WriteRow, At, Continue, AfterRow, Closing, Closers, shopify
<1>2. /\ task'[h].kind = task[h].kind /\ task'[h].step = "shop"
      /\ \A g \in Handlers \ {h} : task'[g] = task[g]
  BY <1>1, Goes
<1>3. DOMAIN rows' = DOMAIN rows /\ ActiveRows' = {}
      /\ \A i \in DOMAIN rows : rows'[i].sub = current /\ current # NoSub => rows[i].sub = current
  <2>1. CASE task[h].kind = "UNINSTALL"
    BY <2>1, AllRowsClosed DEF ActiveRows
  <2>2. CASE task[h].kind # "UNINSTALL"
    <3>1. task[h].kind \in {"CANCELLED", "DECLINED", "FAILED"}
      BY <2>2 DEF Closing, Closers
    <3>2. ActiveRows \subseteq {task[h].row}
      BY <1>1, <3>1 DEF LiveInv, RightRows, RightRow, Picked
    <3>3. /\ task[h].row \in DOMAIN rows /\ DOMAIN rows' = DOMAIN rows
          /\ \A i \in DOMAIN rows \ {task[h].row} : rows'[i] = rows[i]
          /\ rows'[task[h].row].sub = IF task[h].kind \in {"FAILED", "PAID"}
                                      THEN rows[task[h].row].sub ELSE task[h].sub
          /\ ~rows'[task[h].row].active
      BY <2>2, <3>1, OneRowWritten
    <3>4. task[h].kind \in {"CANCELLED", "DECLINED"} => task[h].sub # current
      BY IdTypes DEF TaskInv, TypeOK
    <3>5. ActiveRows' = {}
      BY <3>2, <3>3 DEF ActiveRows
    <3>6. QED
      BY <3>1, <3>3, <3>4, <3>5
  <2>3. QED
    BY <2>1, <2>2
<1>4. BoundRows'
  BY <1>1, <1>3 DEF LiveInv, BoundRows, OneRow, BoundToLive, HeldIsActive, OneBound
<1>5. \A g \in Handlers : task'[g].kind \notin Openers
  BY <1>2 DEF TaskInv, Opening
<1>6. RightRows'
  BY <1>3, <1>5 DEF RightRows, RightRow, Openers
<1>7. QED
  BY <1>3, <1>4, <1>6 DEF LiveInv, Opens

\* One that only reads the active row writes to the only one.
LEMMA LiveRenew ==
    ASSUME Calm, NEW h \in Handlers, WriteRow(h),
           task[h].kind \in {"SYNC", "ACTIVATE", "PAID"}
    PROVE  LiveInv'
<1> USE DEF Calm
<1> DEFINE k == task[h].row
<1>1. task[h].step = "row" /\ UNCHANGED <<current, pending, shop>>
  BY DEF WriteRow, At, shopify
<1>2. Live = {current} /\ current \in Subs /\ task[h].sub = current
  BY OpeningLive DEF Opening, Openers
<1>3. k \in ActiveRows
  BY <1>1 DEF LiveInv, RightRows, RightRow, Picked
<1>4. ActiveRows = {k}
  BY <1>3 DEF LiveInv, BoundRows, OneRow
<1>5. /\ k \in DOMAIN rows /\ DOMAIN rows' = DOMAIN rows
      /\ \A i \in DOMAIN rows \ {k} : rows'[i] = rows[i]
      /\ rows'[k].sub = IF task[h].kind = "PAID" THEN rows[k].sub ELSE current
      /\ rows'[k].active
  BY <1>2, <1>3, OneRowWritten DEF ActiveRows
<1>6. ActiveRows' = {k}
  BY <1>4, <1>5 DEF ActiveRows
<1>7. /\ task'[h].kind = task[h].kind \/ task'[h].kind = "none"
      /\ task'[h].step = "idle" \/ (task'[h].step = "shop" /\ task'[h].row = k)
      /\ \A g \in Handlers \ {h} : task'[g] = task[g]
  <2>1. Goto(h, "shop") \/ Finish(h)
    BY DEF WriteRow, Continue, AfterRow
  <2>2. QED
    BY <2>1, Goes, Ends
<1>8. Live' = Live
  <2>1. \A g \in Handlers : \A s : ~Cancels(g, s) /\ ~Cancels(g, s)'
    <3>1. \A g \in Handlers : task[g].kind # "CANCELLED"
      BY DEF TaskInv, Opening, Closing, Openers, Closers
    <3>2. \A g \in Handlers : task'[g].kind # "CANCELLED"
      BY <1>7, <3>1
    <3>3. QED
      BY <3>1, <3>2 DEF Cancels
  <2>2. QED
    BY <1>1, <2>1, KeptLive
<1>9. \A j \in DOMAIN rows : rows'[j].sub = current => rows[j].sub = current \/ j = k
  BY <1>5
<1>10. \A j \in DOMAIN rows : rows[j].sub = current => j = k
  BY <1>2, <1>3 DEF LiveInv, BoundRows, HeldIsActive
<1>11. BoundRows'
  <2>1. OneRow'
    BY <1>6 DEF OneRow
  <2>2. rows[k].sub = NoSub \/ rows[k].sub = current
    BY <1>2, <1>3 DEF LiveInv, BoundRows, BoundToLive
  <2>3. BoundToLive'
    BY <1>2, <1>5, <1>6, <1>8, <2>2 DEF BoundToLive
  <2>4. HeldIsActive'
    BY <1>2, <1>5, <1>6, <1>8, <1>9, <1>10 DEF HeldIsActive
  <2>5. OneBound'
    BY <1>1, <1>5, <1>9, <1>10 DEF OneBound
  <2>6. QED
    BY <2>1, <2>3, <2>4, <2>5 DEF BoundRows
<1>12. ASSUME NEW g \in Handlers PROVE RightRow(g)'
  <2>1. CASE g = h
    BY <1>6, <1>7, <2>1 DEF RightRow, Picked, Closing, Closers
  <2>2. CASE g # h
    <3>1. task'[g] = task[g] /\ RightRow(g) /\ ~Closing(g)
      BY <1>7, <2>2 DEF LiveInv, RightRows, TaskInv, Opening, Openers
    <3>2. ASSUME task[g].kind = "ACTIVE", task[g].step = "row"
          PROVE  /\ rows'[task[g].row].sub \in {NoSub, current}
                 /\ \A i \in DOMAIN rows \ {task[g].row} :
                        ~rows'[i].active /\ rows'[i].sub # current
      <4>1. task[g].row \in DOMAIN rows
        BY <3>2 DEF TypeOK
      <4>2. \A i \in DOMAIN rows \ {task[g].row} : ~rows[i].active /\ rows[i].sub # current
        BY <3>1, <3>2 DEF RightRow
      <4>3. rows[task[g].row].sub \in {NoSub, current}
        BY <3>1, <3>2 DEF RightRow
      <4>4. task[g].row = k
        BY <1>3, <1>5, <4>2 DEF ActiveRows
      <4>5. QED
        BY <1>5, <4>2, <4>3, <4>4
    <3>3. QED
      BY <1>1, <1>4, <1>5, <1>6, <3>1, <3>2 DEF RightRow, Picked, Closing, Closers
  <2>3. QED
    BY <2>1, <2>2
<1>13. Opens'
  <2>1. ASSUME NEW g \in Handlers, task[g].kind = "ACTIVE" PROVE task'[g].kind = "ACTIVE"
    BY <1>7, <2>1
  <2>2. QED
    BY <1>1, <1>4, <2>1 DEF LiveInv, Opens
<1>14. QED
  BY <1>11, <1>12, <1>13 DEF LiveInv, RightRows

\* The activation of a subscription binds its row, and only that is active.
LEMMA LiveActivate ==
    ASSUME Calm, NEW h \in Handlers, WriteRow(h), task[h].kind = "ACTIVE"
    PROVE  LiveInv'
<1> USE DEF Calm
<1> DEFINE k == task[h].row
<1>1. task[h].step = "row" /\ UNCHANGED <<current, pending, shop>> /\ Goto(h, "shop")
  BY DEF WriteRow, At, Continue, AfterRow, shopify
<1>2. Live = {current} /\ current \in Subs /\ task[h].sub = current
  BY OpeningLive DEF Opening, Openers
<1>3. /\ rows[k].sub \in {NoSub, current}
      /\ \A i \in DOMAIN rows \ {k} : ~rows[i].active /\ rows[i].sub # current
  BY <1>1 DEF LiveInv, RightRows, RightRow
<1>4. /\ k \in DOMAIN rows /\ DOMAIN rows' = DOMAIN rows
      /\ \A i \in DOMAIN rows \ {k} : rows'[i] = rows[i]
      /\ rows'[k].sub = current /\ rows'[k].active
  BY <1>2, OneRowWritten
<1>5. ActiveRows' = {k} /\ \A j \in DOMAIN rows : rows'[j].sub = current => j = k
  BY <1>3, <1>4 DEF ActiveRows
<1>6. /\ task'[h].kind = "ACTIVE" /\ task'[h].step = "shop" /\ task'[h].row = k
      /\ \A g \in Handlers \ {h} : task'[g] = task[g]
  BY <1>1, Goes
<1>7. Live' = Live
  <2>1. \A g \in Handlers : \A s : ~Cancels(g, s) /\ ~Cancels(g, s)'
    <3>1. \A g \in Handlers : task[g].kind # "CANCELLED"
      BY DEF TaskInv, Opening, Closing, Openers, Closers
    <3>2. \A g \in Handlers : task'[g].kind # "CANCELLED"
      BY <1>6, <3>1
    <3>3. QED
      BY <3>1, <3>2 DEF Cancels
  <2>2. QED
    BY <1>1, <2>1, KeptLive
<1>8. BoundRows'
  BY <1>1, <1>2, <1>4, <1>5, <1>7
  DEF BoundRows, OneRow, BoundToLive, HeldIsActive, OneBound
<1>9. ASSUME NEW g \in Handlers PROVE RightRow(g)'
  <2>1. CASE g = h
    BY <1>6, <2>1 DEF RightRow, Closing, Closers
  <2>2. CASE g # h
    <3>1. task'[g] = task[g] /\ RightRow(g) /\ ~Closing(g)
      BY <1>6, <2>2 DEF LiveInv, RightRows, TaskInv, Opening, Openers
    <3>2. ASSUME task[g].kind = "ACTIVE", task[g].step = "row" PROVE task[g].row = k
      <4> DEFINE l == task[g].row
      <4>1. l \in DOMAIN rows /\ rows[l].sub \in {NoSub, current}
            /\ \A i \in DOMAIN rows \ {l} : rows[i].sub # current
        BY <3>1, <3>2 DEF TypeOK, RightRow
      <4>2. ASSUME l # k PROVE FALSE
        <5>1. rows[l].sub = NoSub /\ rows[k].sub = NoSub
          BY <1>3, <1>4, <4>1, <4>2
        <5>2. l < k \/ k < l
          BY <1>4, <4>1, <4>2, RowTypes
        <5>3. Opening(g) /\ Picked(g) /\ Opening(h) /\ Picked(h)
          BY <1>1, <3>2 DEF Opening, Openers, Picked
        <5>4. (\A i \in DOMAIN rows : i > k => rows[i].sub # NoSub)
              /\ (\A i \in DOMAIN rows : i > l => rows[i].sub # NoSub)
          BY <5>3 DEF PickedNewest
        <5>5. QED
          BY <1>4, <4>1, <5>1, <5>2, <5>4, RowTypes
      <4>3. QED
        BY <4>2
    <3>3. ASSUME task[g].kind \in {"SYNC", "ACTIVATE", "PAID"}, Picked(g) PROVE task[g].row = k
      BY <1>3, <3>1, <3>3 DEF RightRow, ActiveRows
    <3>4. QED
      BY <1>1, <1>4, <1>5, <3>1, <3>2, <3>3 DEF RightRow, Picked, Closing, Closers
  <2>3. QED
    BY <2>1, <2>2
<1>10. QED
  BY <1>6, <1>8, <1>9 DEF LiveInv, RightRows, Opens

LEMMA NextLive ==
    ASSUME Calm, [Next]_vars, ~spoilt', NoneOvertaken'
    PROVE  LiveInv'
<1>1. CASE Approve
  BY <1>1, LiveApprove
<1>2. CASE Cancel \/ Uninstall
  BY <1>2, LiveEnded
<1>3. CASE Decline \/ Charge \/ Reinstall \/ TimePasses \/ CompleteTrial \/ UNCHANGED vars
  BY <1>3, LiveQuiet
<1>4. CASE Onboard
  BY <1>4, LiveOnboard
<1>5. ASSUME NEW m \in pending, Deliver(m) PROVE LiveInv'
  BY <1>5, LiveReceive DEF Deliver
<1>6. ASSUME NEW h \in Handlers, Request(h) PROVE LiveInv'
  BY <1>6, LiveRequest
<1>7. ASSUME NEW h \in Handlers, WriteRow(h) PROVE LiveInv'
  <2>1. task[h].kind \in Openers \cup Closers
    BY <1>7 DEF Calm, WriteRow, At, TypeOK, Task
  <2>2. QED
    BY <1>7, <2>1, LiveClose, LiveRenew, LiveActivate DEF Closing, Openers
<1>8. ASSUME NEW h \in Handlers, Statement(h) PROVE LiveInv'
  BY <1>7, <1>8, LiveFind, LiveDunning, LiveShop DEF Statement
<1>9. ASSUME NEW h \in Handlers, Fail(h) PROVE LiveInv'
  BY <1>9, LiveFail
<1>10. QED
  BY <1>1, <1>2, <1>3, <1>4, <1>5, <1>6, <1>8, <1>9 DEF Next, Merchant

-----------------------------------------------------------------------------
(* Requests that close the shop, and the dunning period.                   *)

\* An uninstallation is under way only while the app is not installed, a
\* cancellation only while no row is bound to a later subscription.
CloseInTime ==
    \A h \in Handlers :
        /\ task[h].kind = "UNINSTALL" => ~installed
        /\ task[h].kind = "CANCELLED" /\ current # NoSub =>
               \A i \in DOMAIN rows : rows[i].sub # current

\* What a failed payment has read about the end of the period is still true.
DunningInv ==
    \A h \in Handlers : task[h].kind = "FAILED" =>
        /\ task[h].step = "dunning" =>
               (task[h].dunning = "over" <=> rows[task[h].row].dunning = "over")
        /\ task[h].step = "row" => rows[task[h].row].dunning = "over"

LEMMA ClosingTask ==
    ASSUME TypeOK, [Next]_vars, NEW h \in Handlers, Closing(h)'
    PROVE  \/ task'[h].kind = task[h].kind /\ task'[h].sub = task[h].sub
           \/ \E m \in pending :
                 Receive(h, m) /\ task'[h].kind = m.kind /\ task'[h].sub = m.sub
<1>1. ASSUME NEW g \in Handlers, NEW kind, NEW sub, Start(g, kind, sub)
      PROVE  \/ task'[h] = task[h]
             \/ g = h /\ task'[h].kind = kind /\ task'[h].sub = sub
  BY <1>1, Begins
<1>2. ASSUME NEW g \in Handlers, Finish(g) PROVE task'[h] = task[h]
  <2>1. task'[g].kind = "none"
    BY <1>2, Ends
  <2>2. g # h
    BY <2>1 DEF Closing, Closers
  <2>3. QED
    BY <1>2, <2>2, Ends
<1>3. ASSUME NEW g \in Handlers, Statement(g) \/ Fail(g)
      PROVE  task'[h].kind = task[h].kind /\ task'[h].sub = task[h].sub
  BY <1>2, <1>3, StatementTask DEF Fail, Continues
<1>4. ASSUME NEW g \in Handlers, NEW m \in pending, Receive(g, m)
      PROVE  task'[h] = task[h] \/ (g = h /\ task'[h].kind = m.kind /\ task'[h].sub = m.sub)
  BY <1>1, <1>4 DEF Receive
<1>5. ASSUME NEW g \in Handlers, Request(g) PROVE task'[h] = task[h]
  <2>1. PICK kind \in {"ACTIVATE", "SYNC"} : Start(g, kind, current)
    BY <1>5 DEF Request
  <2>2. QED
    BY <1>1, <2>1 DEF Closing, Closers
<1>6. CASE UNCHANGED task
  BY <1>6
<1>7. QED
  BY <1>3, <1>4, <1>5, <1>6
  DEF Next, Merchant, Approve, Cancel, Decline, Charge, Uninstall, Reinstall,
      TimePasses, Onboard, CompleteTrial,
      Deliver, vars

LEMMA NextCloseInTime ==
    ASSUME TypeOK, SubsInv, TaskInv, CloseInTime, [Next]_vars, ~spoilt'
    PROVE  CloseInTime'
<1>1. CASE Onboard
  BY <1>1, QuietOnboard DEF CloseInTime
<1>2. CASE ~Onboard
  <2>1. ASSUME NEW h \in Handlers, task'[h].kind = "UNINSTALL" PROVE ~installed'
    <3>0. ~Reinstall
      BY <2>1 DEF Reinstall, InFlight, Closers
    <3>1. installed' => installed
      BY <1>2, <3>0, StatementTask
      DEF Next, Merchant, Approve, Cancel, Decline, Charge, Uninstall, TimePasses, CompleteTrial,
          Deliver, Receive, Request, Fail, shopify, vars
    <3>2. CASE task[h].kind = "UNINSTALL"
      BY <3>1, <3>2 DEF CloseInTime
    <3>3. CASE task[h].kind # "UNINSTALL"
      <4>1. PICK m \in pending : Receive(h, m) /\ m.kind = "UNINSTALL"
        BY <2>1, <3>3, ClosingTask DEF Closing, Closers
      <4>2. QED
        BY <4>1 DEF Receive, Outdated, shopify
    <3>4. QED
      BY <3>2, <3>3
  <2>2. ASSUME NEW h \in Handlers, task'[h].kind = "CANCELLED", current' # NoSub,
               NEW i \in DOMAIN rows'
        PROVE  rows'[i].sub # current'
    <3>1. i \in DOMAIN rows
      BY <1>2, StayBound
    <3>2. rows[i].sub \in Int /\ rows[i].sub <= made /\ made \in Nat
      <4>1. rows[i].sub \in Int
        BY <3>1, RowTypes, IdTypes DEF Row
      <4>2. QED
        BY <3>1, <4>1, Bounds DEF SubsInv, TypeOK
    <3>3. CASE UNCHANGED rows /\ current' # current
      BY <2>2, <3>1, <3>2, <3>3, NextCurrent
    <3>4. CASE current' = current
      <4>1. CASE task[h].kind = "CANCELLED"
        <5>1. rows[i].sub # current
          BY <2>2, <3>1, <3>4, <4>1 DEF CloseInTime
        <5>2. CASE SameRows
          BY <3>1, <3>4, <5>1, <5>2 DEF SameRows, SameRow
        <5>3. ASSUME NEW g \in Handlers, WriteRow(g) PROVE rows'[i].sub # current
          <6>1. CASE task[g].kind = "UNINSTALL"
            BY <3>1, <5>1, <5>3, <6>1, AllRowsClosed
          <6>2. CASE task[g].kind # "UNINSTALL"
            <7>1. task[g].kind \in {"CANCELLED", "DECLINED", "FAILED"}
              <8>1. ~Opening(g)
                BY <4>1 DEF TaskInv, Closing, Closers
              <8>2. task[g].kind # "none"
                BY <5>3 DEF WriteRow, At, TypeOK
              <8>3. QED
                BY <6>2, <8>1, <8>2 DEF TypeOK, Task, Opening, Openers, Closers
            <7>2. rows'[i].sub = rows[i].sub
                  \/ (task[g].kind \in {"CANCELLED", "DECLINED"} /\ rows'[i].sub = task[g].sub)
              BY <3>1, <5>3, <6>2, <7>1, OneRowWritten
            <7>3. QED
              BY <5>1, <7>2, IdTypes DEF TaskInv, TypeOK
          <6>3. QED
            BY <6>1, <6>2
        <5>4. QED
          BY <1>2, <3>4, <5>2, <5>3, QuietRows, OtherRows
      <4>2. CASE task[h].kind # "CANCELLED"
        <5>1. PICK m \in pending : Receive(h, m) /\ m.kind = "CANCELLED"
          BY <2>2, <4>2, ClosingTask DEF Closing, Closers
        <5>2. m.sub = made /\ m.sub # current
          BY <5>1 DEF Receive, Outdated
        <5>3. QED
          BY <2>2, <3>4, <5>2 DEF SubsInv
      <4>3. QED
        BY <4>1, <4>2
    <3>5. QED
      BY <3>3, <3>4, NextCurrent
  <2>3. QED
    BY <2>1, <2>2 DEF CloseInTime
<1>3. QED
  BY <1>1, <1>2

\* Only days that pass and failed or late payments move the dunning period.
LEMMA SameDunning ==
    ASSUME TypeOK, [Next]_vars, ~TimePasses, \A h \in Handlers : ~WriteDunning(h),
           NEW i \in DOMAIN rows
    PROVE  rows'[i].dunning = rows[i].dunning
<1>1. \A j \in DOMAIN rows : rows[j] \in Row
  BY RowTypes
<1>2. CASE UNCHANGED rows
  BY <1>2
<1>3. CASE Onboard
  BY <1>3, AppendedRow
<1>4. CASE CompleteTrial
  <2>1. PICK j \in DOMAIN rows : rows' = [rows EXCEPT ![j].status = "TRIAL_COMPLETED"]
    BY <1>4 DEF CompleteTrial, ActiveRows
  <2>2. QED
    BY <1>1, <2>1 DEF Row
<1>5. ASSUME NEW h \in Handlers, WriteRow(h), task[h].kind = "UNINSTALL"
      PROVE  rows'[i].dunning = rows[i].dunning
  <2>1. rows'[i] = IF rows[i].active
                   THEN [rows[i] EXCEPT !.status = "CANCELLED", !.active = FALSE] ELSE rows[i]
    BY <1>5 DEF WriteRow
  <2>2. QED
    BY <1>1, <2>1 DEF Row
<1>6. ASSUME NEW h \in Handlers, WriteRow(h), task[h].kind # "UNINSTALL"
      PROVE  rows'[i].dunning = rows[i].dunning
  <2> DEFINE t == task[h]
             r == rows[i]
  <2>1. i # t.row => rows'[i] = rows[i]
    BY <1>6, OneRowWritten
  <2>2. i = t.row => rows'[i] = RowAfter(t, r)
    BY <1>6 DEF WriteRow
  <2>3. t.kind \in {"ACTIVE", "ACTIVATE", "SYNC", "CANCELLED", "DECLINED", "FAILED", "PAID"}
    BY <1>6 DEF WriteRow, At, TypeOK, Task, Openers, Closers
  <2>4. r \in Row
    BY <1>1
  <2> HIDE DEF t, r
  <2>5. RowAfter(t, r).dunning = r.dunning
    BY <2>3, <2>4 DEF RowAfter, Row
  <2>6. QED
    BY <2>1, <2>2, <2>5 DEF r
<1>7. QED
  BY <1>2, <1>3, <1>4, <1>5, <1>6, OtherRows

\* How a failed payment comes to its dunning period, and from there to its row.
LEMMA FailedTask ==
    ASSUME TypeOK, [Next]_vars, NEW h \in Handlers,
           task'[h].kind = "FAILED", task'[h].step \in {"dunning", "row"}
    PROVE  \/ task'[h] = task[h]
           \/ /\ Find(h) /\ task'[h].step = "dunning" /\ task'[h].row \in DOMAIN rows
              /\ task'[h].dunning = rows[task'[h].row].dunning
           \/ /\ WriteDunning(h) /\ task[h].kind = "FAILED" /\ task'[h].step = "row"
              /\ task[h].dunning = "over" /\ task'[h].row = task[h].row
<1> DEFINE Done == \/ task'[h] = task[h]
                   \/ /\ Find(h) /\ task'[h].step = "dunning" /\ task'[h].row \in DOMAIN rows
                      /\ task'[h].dunning = rows[task'[h].row].dunning
                   \/ /\ WriteDunning(h) /\ task[h].kind = "FAILED" /\ task'[h].step = "row"
                      /\ task[h].dunning = "over" /\ task'[h].row = task[h].row
<1>1. ASSUME NEW g \in Handlers, NEW kind, NEW sub, Start(g, kind, sub) PROVE Done
  <2>1. g = h => task'[h].kind = kind /\ task'[h].step = FirstStep(kind)
    BY <1>1, Begins
  <2>2. g # h
    BY <2>1 DEF FirstStep
  <2>3. QED
    BY <1>1, <2>2, Begins
<1>2. ASSUME NEW g \in Handlers, Finish(g) PROVE Done
  BY <1>2, Ends
<1>3. ASSUME NEW g \in Handlers, g # h, Statement(g) PROVE Done
  BY <1>2, <1>3, StatementTask DEF Continues
<1>4. ASSUME Find(h) PROVE Done
  <2>1. PICK i \in Candidates(task[h]) :
            IF AfterFind(task[h], i) = "idle" THEN Finish(h)
            ELSE task' = [task EXCEPT ![h].step = AfterFind(task[h], i),
                                      ![h].row = i,
                                      ![h].dunning = rows[i].dunning]
    BY <1>4, Ends DEF Find
  <2>2. CASE AfterFind(task[h], i) = "idle"
    BY <1>2, <2>1, <2>2
  <2>3. CASE AfterFind(task[h], i) # "idle"
    <3>1. /\ task'[h].step = AfterFind(task[h], i) /\ task'[h].row = i
          /\ task'[h].dunning = rows[i].dunning /\ task[h].kind = "FAILED"
      BY <2>1, <2>3 DEF TypeOK, Task
    <3>2. task'[h].step = "dunning" /\ i \in DOMAIN rows
      BY <3>1 DEF AfterFind, Candidates, ActiveRows
    <3>3. QED
      BY <1>4, <3>1, <3>2
  <2>4. QED
    BY <2>2, <2>3
<1>5. ASSUME WriteDunning(h) PROVE Done
  <2>1. Finish(h) \/ (task[h].kind = "PAID" /\ Goto(h, "look"))
        \/ (task[h].dunning = "over" /\ Goto(h, "row"))
    BY <1>5 DEF WriteDunning, Continue, AfterDunning
  <2>2. QED
    BY <1>2, <1>5, <2>1, Goes
<1>6. ASSUME Look(h) \/ WriteRow(h) PROVE Done
  <2>1. Finish(h) \/ Goto(h, "shop")
    BY <1>6 DEF Look, WriteRow, Continue, AfterRow
  <2>2. QED
    BY <1>2, <2>1, Goes
<1>7. ASSUME WriteShop(h) PROVE Done
  <2>1. Finish(h) \/ (task[h].kind = "PAID" /\ Goto(h, "row"))
    BY <1>7 DEF WriteShop, Continue
  <2>2. QED
    BY <1>2, <2>1, Goes
<1>8. UNCHANGED task => Done
  OBVIOUS
<1> HIDE DEF Done
<1>9. Done
  BY <1>1, <1>2, <1>3, <1>4, <1>5, <1>6, <1>7, <1>8
  DEF Next, Merchant, Approve, Cancel, Decline, Charge, Uninstall, Reinstall,
      TimePasses, Onboard, CompleteTrial,
      Deliver, Receive, Request, Statement, Fail, vars
<1>10. QED
  BY <1>9 DEF Done

LEMMA NextDunning ==
    ASSUME TypeOK, SubsInv, TaskInv, DunningInv, [Next]_vars, ~spoilt'
    PROVE  DunningInv'
<1> SUFFICES ASSUME NEW h \in Handlers, task'[h].kind = "FAILED",
                    task'[h].step \in {"dunning", "row"}
             PROVE  /\ task'[h].step = "dunning" =>
                           (task'[h].dunning = "over" <=> rows'[task'[h].row].dunning = "over")
                    /\ task'[h].step = "row" => rows'[task'[h].row].dunning = "over"
  BY DEF DunningInv
<1>1. CASE task'[h] = task[h]
  <2> DEFINE k == task[h].row
  <2>1. k \in DOMAIN rows
    BY <1>1 DEF TypeOK
  <2>2. rows'[k].dunning = "over" <=> rows[k].dunning = "over"
    <3>1. ~TimePasses
      BY <1>1 DEF TimePasses, Busy
    <3>2. ASSUME NEW g \in Handlers, WriteDunning(g)
          PROVE  rows'[k].dunning = "over" <=> rows[k].dunning = "over"
      <4> DEFINE l == task[g].row
      <4>1. task[g].step = "dunning" /\ task[g].kind \in {"FAILED", "PAID"} /\ l \in DOMAIN rows
        BY <3>2 DEF WriteDunning, At, TypeOK
      <4>2. task[g].kind = "FAILED"
        BY <1>1, <4>1 DEF TaskInv, Opening, Closing, Openers, Closers
      <4>3. task[g].dunning = "over" <=> rows[l].dunning = "over"
        BY <4>1, <4>2 DEF DunningInv
      <4>4. rows' = [rows EXCEPT ![l].dunning =
                        IF task[g].dunning = "none" THEN "started" ELSE task[g].dunning]
        BY <3>2, <4>2 DEF WriteDunning
      <4>5. rows[l] \in Row
        BY <4>1, RowTypes
      <4>6. rows'[l].dunning = IF task[g].dunning = "none" THEN "started" ELSE task[g].dunning
        BY <4>1, <4>4, <4>5 DEF Row
      <4>7. k # l => rows'[k] = rows[k]
        BY <4>4
      <4>8. QED
        BY <4>3, <4>6, <4>7
    <3>3. QED
      BY <2>1, <3>1, <3>2, SameDunning
  <2>3. QED
    BY <1>1, <2>2 DEF DunningInv
<1>2. CASE /\ Find(h) /\ task'[h].step = "dunning" /\ task'[h].row \in DOMAIN rows
           /\ task'[h].dunning = rows[task'[h].row].dunning
  BY <1>2 DEF Find, tables
<1>3. CASE /\ WriteDunning(h) /\ task[h].kind = "FAILED" /\ task'[h].step = "row"
           /\ task[h].dunning = "over" /\ task'[h].row = task[h].row
  <2> DEFINE k == task[h].row
  <2>1. k \in DOMAIN rows /\ rows[k] \in Row
    BY <1>3, RowTypes DEF WriteDunning, At, TypeOK
  <2>2. rows' = [rows EXCEPT ![k].dunning = "over"]
    BY <1>3 DEF WriteDunning
  <2>3. rows'[k].dunning = "over"
    BY <2>1, <2>2 DEF Row
  <2>4. QED
    BY <1>3, <2>3
<1>4. QED
  BY <1>1, <1>2, <1>3, FailedTask

\* No step takes the current subscription's row out of service before its
\* dunning period is over, but for a declined approval.
LEMMA ServedStep ==
    ASSUME TypeOK, SubsInv, TaskInv, CloseInTime, DunningInv, [Next]_vars, ~spoilt',
           current # NoSub, NEW i \in ActiveRows, rows[i].sub = current
    PROVE  \/ rows'[i].active \/ rows[i].dunning = "over"
           \/ \E h \in Handlers : task[h].kind = "DECLINED" /\ task[h].row = i
<1>1. i \in DOMAIN rows /\ rows[i].active
  BY DEF ActiveRows
<1>2. CASE SameRows
  BY <1>1, <1>2 DEF SameRows, SameRow
<1>3. CASE Onboard
  BY <1>1, <1>3, AppendedRow
<1>4. ASSUME NEW h \in Handlers, WriteRow(h)
      PROVE  \/ rows'[i].active \/ rows[i].dunning = "over"
             \/ task[h].kind = "DECLINED" /\ task[h].row = i
  <2>1. task[h].kind # "UNINSTALL"
    BY DEF SubsInv, CloseInTime
  <2>2. task[h].kind # "CANCELLED"
    BY <1>1 DEF CloseInTime
  <2>3. /\ task[h].step = "row" /\ task[h].kind # "none"
        /\ i # task[h].row => rows'[i] = rows[i]
        /\ task[h].kind \notin {"FAILED", "DECLINED"} =>
               rows'[task[h].row].active \/ ~rows[task[h].row].active
    <3>1. task[h].step = "row" /\ task[h].kind # "none"
      BY <1>4 DEF WriteRow, At, TypeOK
    <3>2. task[h].kind \notin {"FAILED", "DECLINED"} =>
              task[h].kind \in {"ACTIVE", "ACTIVATE", "SYNC", "PAID"}
      BY <2>1, <2>2, <3>1 DEF TypeOK, Task, Openers, Closers
    <3>3. QED
      BY <1>1, <1>4, <2>1, <3>1, <3>2, OneRowWritten
  <2>4. CASE task[h].kind = "FAILED" /\ i = task[h].row
    BY <2>3, <2>4 DEF DunningInv
  <2>5. CASE task[h].kind = "DECLINED" /\ i = task[h].row
    BY <2>5
  <2>6. QED
    BY <1>1, <2>3, <2>4, <2>5
<1>5. QED
  BY <1>2, <1>3, <1>4, QuietRows, OtherRows

-----------------------------------------------------------------------------
(* The invariant.                                                          *)

\* Until the history is spoilt; the rest as long as no webhook is overtaken.
Sound ==
    /\ SubsInv /\ TaskInv /\ NewerBound /\ PickedNewest /\ LastActive
    /\ CloseInTime /\ DunningInv
    /\ NoneOvertaken => LiveInv

IInv == TypeOK /\ LookInv /\ (~spoilt => Sound)

LEMMA InitSound == Init => IInv
<1> SUFFICES ASSUME Init PROVE IInv
  OBVIOUS
<1>1. TypeOK /\ SubsInv /\ TaskInv
  BY InitTypes, InitTasks
<1>2. DOMAIN rows = {} /\ ActiveRows = {}
  <2>1. DOMAIN rows = 1 .. 0
    BY DEF Init
  <2>2. QED
    BY <2>1 DEF ActiveRows
<1>3. \A h \in Handlers : task[h].step = "idle" /\ task[h].kind = "none"
  BY IdleTask DEF Init
<1>4. NewerBound /\ PickedNewest /\ LastActive /\ LookInv /\ CloseInTime /\ DunningInv
  BY <1>2, <1>3 DEF NewerBound, PickedNewest, LastActive, LookInv, CloseInTime, DunningInv,
                    Picked, Init
<1>5. BoundRows /\ Opens
  BY <1>2 DEF BoundRows, OneRow, BoundToLive, HeldIsActive, OneBound, Opens
<1>6. RightRows
  BY <1>3 DEF RightRows, RightRow, Picked, Closing, Closers
<1>7. QED
  BY <1>1, <1>4, <1>5, <1>6 DEF IInv, Sound, LiveInv

LEMMA NextSound == IInv /\ [Next]_vars => IInv'
<1> SUFFICES ASSUME IInv, [Next]_vars PROVE IInv'
  OBVIOUS
<1>1. TypeOK /\ LookInv /\ TypeOK' /\ LookInv'
  BY NextTypes, NextLook DEF IInv
<1>2. ASSUME ~spoilt' PROVE Sound'
  <2>1. ~spoilt
    BY <1>2, StaysSpoilt
  <2>2. /\ SubsInv /\ TaskInv /\ NewerBound /\ PickedNewest /\ LastActive
        /\ CloseInTime /\ DunningInv /\ (NoneOvertaken => LiveInv)
    BY <2>1 DEF IInv, Sound
  <2>3. SubsInv' /\ TaskInv'
    BY <1>1, <1>2, <2>2, NextSubs, NextTaskInv
  <2>4. NewerBound' /\ PickedNewest' /\ LastActive'
    BY <1>1, <1>2, <2>2, NextNewerBound, NextPickedNewest, NextLastActive
  <2>5. ASSUME NoneOvertaken' PROVE LiveInv'
    <3>1. NoneOvertaken
      BY <1>1, <1>2, <2>2, <2>5, StaysOvertaken
    <3>2. Calm
      BY <1>1, <2>2, <3>1 DEF Calm
    <3>3. QED
      BY <1>2, <2>5, <3>2, NextLive
  <2>6. CloseInTime' /\ DunningInv'
    BY <1>1, <1>2, <2>2, NextCloseInTime, NextDunning
  <2>7. QED
    BY <2>3, <2>4, <2>5, <2>6 DEF Sound
<1>3. QED
  BY <1>1, <1>2 DEF IInv

LEMMA AlwaysSound == Spec => []IInv
BY InitSound, NextSound, PTL DEF Spec

\* A set without two elements.
LEMMA AtMostOne ==
    ASSUME TypeOK, OneRow
    PROVE  Cardinality(ActiveRows) <= 1
<1>1. CASE ActiveRows = {}
  BY <1>1, FS_EmptySet
<1>2. ASSUME NEW i \in ActiveRows PROVE Cardinality(ActiveRows) <= 1
  <2>1. ActiveRows = {i}
    BY <1>2 DEF OneRow
  <2>2. QED
    BY <2>1, FS_Singleton
<1>3. QED
  BY <1>1, <1>2

\* However requests, webhooks and failing statements interleave, a shop has at
\* most one active row, which get_shop_subscription relies on: up to the first
\* approval, and later as long as no webhook is overtaken by Shopify.
THEOREM OneRowIsActive == Spec => []OneActiveRow
<1>1. IInv => OneActiveRow
  <2> SUFFICES ASSUME IInv, ~spoilt, made <= 1 \/ NoneOvertaken
               PROVE  Cardinality(ActiveRows) <= 1
    BY DEF OneActiveRow
  <2>1. OneRow
    <3>1. CASE made <= 1
      <4>1. \A i, j \in ActiveRows : i \in Nat /\ j \in Nat /\ i <= j /\ j <= i
        BY <3>1, RowTypes DEF IInv, Sound, LastActive, IsNewest, ActiveRows
      <4>2. QED
        BY <4>1 DEF OneRow
    <3>2. CASE NoneOvertaken
      BY <3>2 DEF IInv, Sound, LiveInv, BoundRows
    <3>3. QED
      BY <3>1, <3>2
  <2>2. QED
    BY <2>1, AtMostOne DEF IInv
<1>2. QED
  BY <1>1, AlwaysSound, PTL

\* Once every request and webhook is handled, a shop whose orders are billed is
\* not switched off, although every handler writes the row and the shop in two
\* statements and may fail between them.
THEOREM BilledShopIsServed == Spec => []BilledIsServed
<1>1. IInv => BilledIsServed
  <2> SUFFICES ASSUME IInv, ~spoilt, ~Busy, pending = {}, ActiveRows # {}
               PROVE  shop.active
    BY DEF BilledIsServed
  <2>1. Opens
    BY DEF IInv, Sound, LiveInv, NoneOvertaken
  <2>2. \A h \in Handlers : task[h].kind # "ACTIVE"
    BY DEF IInv, TypeOK, Busy
  <2>3. QED
    BY <2>1, <2>2 DEF Opens
<1>2. QED
  BY <1>1, AlwaysSound, PTL

\* Until the history is spoilt, the active row of the subscription the merchant
\* pays for is deactivated only when its dunning period is over or by the handler
\* of a declined approval, for any number of requests, approvals and failures.
THEOREM PaidIsServed == Spec => PaidForIsServed
<1>1. IInv /\ [Next]_vars =>
          (~spoilt' /\ current # NoSub =>
              \A i \in ActiveRows :
                  rows[i].sub = current =>
                      \/ rows'[i].active \/ rows[i].dunning = "over"
                      \/ \E h \in Handlers : task[h].kind = "DECLINED" /\ task[h].row = i)
  <2> SUFFICES ASSUME IInv, [Next]_vars, ~spoilt', current # NoSub,
                      NEW i \in ActiveRows, rows[i].sub = current
               PROVE  \/ rows'[i].active \/ rows[i].dunning = "over"
                      \/ \E h \in Handlers : task[h].kind = "DECLINED" /\ task[h].row = i
    OBVIOUS
  <2>1. ~spoilt
    BY StaysSpoilt
  <2>2. QED
    BY <2>1, ServedStep DEF IInv, Sound
<1>2. QED
  BY <1>1, AlwaysSound, PTL DEF Spec, PaidForIsServed

=============================================================================
