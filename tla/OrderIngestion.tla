--------------------------- MODULE OrderIngestion ---------------------------
(***************************************************************************)
(* How an order gets from Shopify into order_data, and stays current.      *)
(*                                                                         *)
(* A webhook (or the ingestion backstop) puts an event on the topic; a     *)
(* handler of the data collection consumer fetches the order as it is now, *)
(* upserts the raw row, forward only, and publishes a normalization job; a *)
(* normaliser reads the raw row in one session and, in a later one, looks  *)
(* for the order row and inserts or overwrites it.  normalization-jobs is  *)
(* keyed by shop, so one normaliser owns a shop's jobs; after a rebalance  *)
(* the former owner may still be at work.  The backstop compares Shopify's *)
(* list of recently updated orders with order_data every 30 minutes.       *)
(*                                                                         *)
(* One shop.  An order's content is its version; 0 is "no such row".       *)
(***************************************************************************)
EXTENDS Integers, FiniteSets, FiniteSetsExt

CONSTANTS
    Orders,
    Collectors,   \* handlers that may be collecting at once
    Normalisers,  \* worker processes that may own the shop's partition
    PageLimit,    \* MAX_ORDERS_PER_SHOP: orders the backstop looks at
    MaxVersion,   \* bound on the versions of an order
    MaxEvents,    \* bound on an order's unread events, and on its jobs
    MaxFaults     \* bound on failures, crashes and forced rebalances

NoOrder == "no order"

ASSUME IngestionAssumption ==
    /\ NoOrder \notin Orders
    /\ Normalisers # {}
    /\ PageLimit \in Nat /\ MaxVersion \in Nat /\ MaxEvents \in Nat
    /\ MaxFaults \in Nat

VARIABLES
    remote,      \* Shopify: version of each order
    recent,      \* Shopify: orders updated within BACKSTOP_LOOKBACK_HOURS
    shopActive,  \* shops.is_active
    events,      \* shopify-events: unread events per order
    corder,      \* per collector: the order it collects
    cversion,    \* per collector: the version Shopify gave it
    raw,         \* raw_orders: version stored
    jobs,        \* normalization-jobs: unread jobs per order
    owner,       \* the normaliser that owns the shop's partition
    npc,         \* per normaliser: what it does next
    norder,      \* per normaliser: the order of its job
    nversion,    \* per normaliser: the raw version it read
    rows,        \* order_data: version of the order row each normaliser inserted
    listed,      \* backstop: versions of the orders Shopify listed
    republish,   \* backstop: orders found missing or stale
    overtaken,   \* has a rebalance left a normaliser at work without its partition
    faults       \* failures, crashes and rebalances so far

shopify == <<remote, recent>>
collecting == <<corder, cversion>>
normalising == <<owner, npc, norder, nversion>>
backstop == <<listed, republish>>
vars == <<shopify, shopActive, events, collecting, raw, jobs, normalising, rows,
          backstop, overtaken, faults>>

Versions == 0 .. MaxVersion

Init ==
    /\ remote = [o \in Orders |-> 0]
    /\ recent = {}
    /\ shopActive = TRUE
    /\ events = [o \in Orders |-> 0]
    /\ corder = [c \in Collectors |-> NoOrder]
    /\ cversion = [c \in Collectors |-> 0]
    /\ raw = [o \in Orders |-> 0]
    /\ jobs = [o \in Orders |-> 0]
    /\ owner \in Normalisers
    /\ npc = [n \in Normalisers |-> "idle"]
    /\ norder = [n \in Normalisers |-> NoOrder]
    /\ nversion = [n \in Normalisers |-> 0]
    /\ rows = [o \in Orders |-> [n \in Normalisers |-> 0]]
    /\ listed = [o \in Orders |-> 0]
    /\ republish = {}
    /\ overtaken = FALSE
    /\ faults = 0

\* A failure may happen, within the bound.
Fault == faults < MaxFaults /\ faults' = faults + 1

-----------------------------------------------------------------------------
(* Shopify and the admin app.                                              *)

\* The order is placed or changed; its webhooks arrive, twice or not at all.
ChangeOrder(o) ==
    /\ remote[o] < MaxVersion
    /\ remote' = [remote EXCEPT ![o] = @ + 1]
    /\ recent' = recent \cup {o}
    /\ \E copies \in 0 .. 2 :
          /\ events[o] + copies <= MaxEvents
          /\ events' = [events EXCEPT ![o] = @ + copies]
    /\ UNCHANGED <<shopActive, collecting, raw, jobs, normalising, rows, backstop,
                   overtaken, faults>>

\* A day passes without a change of the order.
LeaveWindow(o) ==
    /\ recent' = recent \ {o}
    /\ UNCHANGED <<remote, shopActive, events, collecting, raw, jobs, normalising,
                   rows, backstop, overtaken, faults>>

SuspendShop ==
    /\ shopActive /\ Fault
    /\ shopActive' = FALSE
    /\ UNCHANGED <<shopify, events, collecting, raw, jobs, normalising, rows,
                   backstop, overtaken>>

ReactivateShop ==
    /\ ~shopActive
    /\ shopActive' = TRUE
    /\ UNCHANGED <<shopify, events, collecting, raw, jobs, normalising, rows,
                   backstop, overtaken, faults>>

-----------------------------------------------------------------------------
(* The data collection consumer: _handle_message down to collect_all_data. *)

\* The shop is not active, so the event goes to the dead-letter queue, which
\* writes nothing; or the fetch fails, is logged, and ends with no item.
DropEvent(o) ==
    /\ events[o] > 0
    /\ \/ ~shopActive /\ UNCHANGED faults
       \/ shopActive /\ Fault
    /\ events' = [events EXCEPT ![o] = @ - 1]
    /\ UNCHANGED <<shopify, shopActive, collecting, raw, jobs, normalising, rows,
                   backstop, overtaken>>

\* The order is fetched by its id: the version of now, not of the event.
FetchOrder(c, o) ==
    /\ corder[c] = NoOrder
    /\ shopActive
    /\ events[o] > 0
    /\ events' = [events EXCEPT ![o] = @ - 1]
    /\ corder' = [corder EXCEPT ![c] = o]
    /\ cversion' = [cversion EXCEPT ![c] = remote[o]]
    /\ UNCHANGED <<shopify, shopActive, raw, jobs, normalising, rows, backstop,
                   overtaken, faults>>

\* Seeded fault: the upsert has lost its WHERE.
LastWriter(stored, fetched) == fetched

\* The upsert's WHERE: an older copy does not replace a newer one.
Newer(stored, fetched) == IF fetched > stored THEN fetched ELSE stored

CollectorDone(c) ==
    /\ corder' = [corder EXCEPT ![c] = NoOrder]
    /\ cversion' = [cversion EXCEPT ![c] = 0]

\* The raw row is upserted and a job published, changed or not.  Publishing may
\* fail, which is logged.
StoreRaw(c) ==
    /\ corder[c] # NoOrder
    /\ raw' = [raw EXCEPT ![corder[c]] = Newer(@, cversion[c])]
    /\ \/ /\ jobs[corder[c]] < MaxEvents
          /\ jobs' = [jobs EXCEPT ![corder[c]] = @ + 1]
          /\ UNCHANGED faults
       \/ Fault /\ UNCHANGED jobs
    /\ CollectorDone(c)
    /\ UNCHANGED <<shopify, shopActive, events, normalising, rows, backstop,
                   overtaken>>

\* Storing fails and is logged; a job is published all the same.
StoreFails(c) ==
    /\ corder[c] # NoOrder
    /\ Fault
    /\ jobs[corder[c]] < MaxEvents
    /\ jobs' = [jobs EXCEPT ![corder[c]] = @ + 1]
    /\ CollectorDone(c)
    /\ UNCHANGED <<shopify, shopActive, events, raw, normalising, rows, backstop,
                   overtaken>>

-----------------------------------------------------------------------------
(* The normalization consumer.                                             *)

\* Seeded fault: the phase is not reset.
NormaliserHalfDone(n) ==
    /\ norder' = [norder EXCEPT ![n] = NoOrder]
    /\ nversion' = [nversion EXCEPT ![n] = 0]
    /\ UNCHANGED npc

NormaliserDone(n) ==
    /\ npc' = [npc EXCEPT ![n] = "idle"]
    /\ norder' = [norder EXCEPT ![n] = NoOrder]
    /\ nversion' = [nversion EXCEPT ![n] = 0]

\* Seeded fault: a process keeps reading a partition it no longer owns.
ReadRawUnassigned(n, o) ==
    /\ npc[n] = "idle"
    /\ jobs[o] > 0
    /\ jobs' = [jobs EXCEPT ![o] = @ - 1]
    /\ shopActive /\ raw[o] > 0
    /\ npc' = [npc EXCEPT ![n] = "upsert"]
    /\ norder' = [norder EXCEPT ![n] = o]
    /\ nversion' = [nversion EXCEPT ![n] = raw[o]]
    /\ UNCHANGED <<shopify, shopActive, events, collecting, raw, owner, rows,
                   backstop, overtaken, faults>>

\* _execute_webhook_normalization reads the raw row and closes the session.
ReadRaw(n, o) ==
    /\ npc[n] = "idle" /\ n = owner
    /\ jobs[o] > 0
    /\ jobs' = [jobs EXCEPT ![o] = @ - 1]
    /\ shopActive /\ raw[o] > 0
    /\ npc' = [npc EXCEPT ![n] = "upsert"]
    /\ norder' = [norder EXCEPT ![n] = o]
    /\ nversion' = [nversion EXCEPT ![n] = raw[o]]
    /\ UNCHANGED <<shopify, shopActive, events, collecting, raw, owner, rows,
                   backstop, overtaken, faults>>

\* Dropped: the shop is not active, or there is no raw row.
DropJob(o) ==
    /\ jobs[o] > 0
    /\ ~shopActive \/ raw[o] = 0
    /\ jobs' = [jobs EXCEPT ![o] = @ - 1]
    /\ UNCHANGED <<shopify, shopActive, events, collecting, raw, normalising, rows,
                   backstop, overtaken, faults>>

RowsOf(o) == {n \in Normalisers : rows[o][n] > 0}
Duplicated(o) == \E m, n \in RowsOf(o) : m # n

\* The SELECT finds no row.  Nothing makes (shop_id, order_id) unique, so
\* another normaliser may insert before this one does.
FindNoRow(n) ==
    /\ npc[n] = "upsert"
    /\ RowsOf(norder[n]) = {}
    /\ npc' = [npc EXCEPT ![n] = "insert"]
    /\ UNCHANGED <<shopify, shopActive, events, collecting, raw, jobs, owner, norder,
                   nversion, rows, backstop, overtaken, faults>>

InsertRow(n) ==
    /\ npc[n] = "insert"
    /\ rows' = [rows EXCEPT ![norder[n]][n] = nversion[n]]
    /\ NormaliserDone(n)
    /\ UNCHANGED <<shopify, shopActive, events, collecting, raw, jobs, owner,
                   backstop, overtaken, faults>>

\* The SELECT finds a row, and the UPDATE writes over it unconditionally.
OverwriteRow(n) ==
    /\ npc[n] = "upsert"
    /\ \E m \in Normalisers :
          /\ RowsOf(norder[n]) = {m}
          /\ rows' = [rows EXCEPT ![norder[n]][m] = nversion[n]]
    /\ NormaliserDone(n)
    /\ UNCHANGED <<shopify, shopActive, events, collecting, raw, jobs, owner,
                   backstop, overtaken, faults>>

\* scalar_one_or_none raises on two rows, or anything else does: the upsert
\* answers False, which is logged, and the job is committed.
UpsertFails(n) ==
    /\ npc[n] # "idle"
    /\ \/ npc[n] = "upsert" /\ Duplicated(norder[n]) /\ UNCHANGED faults
       \/ Fault
    /\ NormaliserDone(n)
    /\ UNCHANGED <<shopify, shopActive, events, collecting, raw, jobs, owner, rows,
                   backstop, overtaken>>

\* The uncommitted job goes to whoever owns the partition next.
GiveBack(n) ==
    IF npc[n] = "idle" THEN UNCHANGED jobs
    ELSE jobs' = [jobs EXCEPT ![norder[n]] = @ + 1]

\* The coordinator gives the partition away; the owner may be in mid-job and
\* goes on with it.
Rebalance(n) ==
    /\ Fault
    /\ n # owner
    /\ GiveBack(owner)
    /\ owner' = n
    /\ overtaken' = (overtaken \/ npc[owner] # "idle")
    /\ UNCHANGED <<shopify, shopActive, events, collecting, raw, npc, norder,
                   nversion, rows, backstop>>

Crash(n) ==
    /\ Fault
    /\ npc[n] # "idle"
    /\ IF n = owner THEN GiveBack(n) ELSE UNCHANGED jobs
    /\ NormaliserDone(n)
    /\ UNCHANGED <<shopify, shopActive, events, collecting, raw, owner, rows,
                   backstop, overtaken>>

-----------------------------------------------------------------------------
(* The ingestion backstop: sweep_shop.                                     *)

\* The first page of what Shopify lists as updated in the window.
ListRecent ==
    /\ shopActive
    /\ listed = [o \in Orders |-> 0] /\ republish = {}
    /\ recent # {}
    /\ \E page \in kSubset(IF Cardinality(recent) < PageLimit
                           THEN Cardinality(recent) ELSE PageLimit, recent) :
          listed' = [o \in Orders |-> IF o \in page THEN remote[o] ELSE 0]
    /\ UNCHANGED <<shopify, shopActive, events, collecting, raw, jobs, normalising,
                   rows, republish, overtaken, faults>>

\* Seeded fault: only orders that are missing count.
MissingOnly(o) == RowsOf(o) = {} /\ listed[o] > 0

\* Missing here, or changed there since.  Of duplicate rows the dictionary keeps
\* one.
Behind(o) ==
    /\ listed[o] > 0
    /\ \/ RowsOf(o) = {}
       \/ \E n \in RowsOf(o) : rows[o][n] < listed[o]

\* The local rows are read after Shopify has answered.
Compare ==
    /\ listed # [o \in Orders |-> 0]
    /\ republish' = {o \in Orders : Behind(o)}
    /\ listed' = [o \in Orders |-> 0]
    /\ UNCHANGED <<shopify, shopActive, events, collecting, raw, jobs, normalising,
                   rows, overtaken, faults>>

\* An order_paid event, whatever happened to the order; a failure is logged.
RepublishOrder(o) ==
    /\ o \in republish
    /\ republish' = republish \ {o}
    /\ \/ /\ events[o] < MaxEvents
          /\ events' = [events EXCEPT ![o] = @ + 1]
          /\ UNCHANGED faults
       \/ Fault /\ UNCHANGED events
    /\ UNCHANGED <<shopify, shopActive, collecting, raw, jobs, normalising, rows,
                   listed, overtaken>>

\* Shopify does not answer, or the process ends.
SweepFails ==
    /\ listed # [o \in Orders |-> 0] \/ republish # {}
    /\ Fault
    /\ listed' = [o \in Orders |-> 0]
    /\ republish' = {}
    /\ UNCHANGED <<shopify, shopActive, events, collecting, raw, jobs, normalising,
                   rows, overtaken>>

-----------------------------------------------------------------------------
Environment ==
    \/ \E o \in Orders : ChangeOrder(o) \/ LeaveWindow(o)
    \/ SuspendShop \/ ReactivateShop

Collect ==
    \/ \E o \in Orders : DropEvent(o)
    \/ \E c \in Collectors :
          \/ StoreRaw(c) \/ StoreFails(c)
          \/ \E o \in Orders : FetchOrder(c, o)

Normalise ==
    \/ \E o \in Orders : DropJob(o)
    \/ \E n \in Normalisers :
          \/ FindNoRow(n) \/ InsertRow(n) \/ OverwriteRow(n) \/ UpsertFails(n)
          \/ Rebalance(n) \/ Crash(n)
          \/ \E o \in Orders : ReadRaw(n, o)

Sweep ==
    \/ ListRecent \/ Compare \/ SweepFails
    \/ \E o \in Orders : RepublishOrder(o)

Next == Environment \/ Collect \/ Normalise \/ Sweep

Spec == Init /\ [][Next]_vars

\* Consumers go on while they have work, a handler that began ends, and the
\* sweep comes round again.  Nothing is assumed of Shopify, of the webhooks or
\* of the admin app.
Fairness ==
    /\ \A o \in Orders :
          /\ WF_vars(DropEvent(o) \/ \E c \in Collectors : FetchOrder(c, o))
          /\ SF_vars(DropJob(o) \/ \E n \in Normalisers : ReadRaw(n, o))
          /\ WF_vars(RepublishOrder(o))
    /\ \A c \in Collectors : WF_vars(StoreRaw(c))
    /\ \A n \in Normalisers :
          WF_vars(FindNoRow(n) \/ InsertRow(n) \/ OverwriteRow(n) \/ UpsertFails(n))
    /\ WF_vars(ListRecent) /\ WF_vars(Compare)

FairSpec == Spec /\ Fairness

-----------------------------------------------------------------------------
TypeOK ==
    /\ remote \in [Orders -> Versions] /\ recent \subseteq Orders
    /\ shopActive \in BOOLEAN
    /\ events \in [Orders -> Nat] /\ jobs \in [Orders -> Nat]
    /\ corder \in [Collectors -> Orders \cup {NoOrder}]
    /\ cversion \in [Collectors -> Versions]
    /\ raw \in [Orders -> Versions]
    /\ owner \in Normalisers
    /\ npc \in [Normalisers -> {"idle", "upsert", "insert"}]
    /\ norder \in [Normalisers -> Orders \cup {NoOrder}]
    /\ \A n \in Normalisers : npc[n] # "idle" => norder[n] \in Orders
    /\ nversion \in [Normalisers -> Versions]
    /\ rows \in [Orders -> [Normalisers -> Versions]]
    /\ listed \in [Orders -> Versions] /\ republish \subseteq Orders
    /\ overtaken \in BOOLEAN /\ faults \in Nat

\* An order has one row, however often its events are delivered, unless a
\* rebalance has once left a normaliser at work without its partition: the
\* look-up and the insert of upsert_order_with_line_items are not atomic.
OneRowUnlessOvertaken == \A o \in Orders : Duplicated(o) => overtaken

\* With the same exception an order row never goes back to an older version,
\* although the raw row is read in another session than the one that writes and
\* the UPDATE compares nothing.
RowsGoForward ==
    [][\A o \in Orders, n \in Normalisers :
          rows'[o][n] < rows[o][n] => overtaken]_vars

\* The backstop makes good whatever webhooks, jobs or writes were lost or came
\* late: an order that stays in the window of an active shop ends up stored as
\* Shopify has it, except one with duplicate rows, which nothing can write.
Stored(o) == \E n \in Normalisers : RowsOf(o) = {n} /\ rows[o][n] = remote[o]
BackstopCatchesUp ==
    \A o \in Orders :
        <>[](o \in recent /\ shopActive) => <>[](Stored(o) \/ Duplicated(o))
=============================================================================
