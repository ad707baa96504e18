----------------------------- MODULE CatalogSync -----------------------------
(***************************************************************************)
(* How one shop's local copy of its catalog follows Shopify: webhooks, the *)
(* collection and normalization they cause, and entity_reconciler.py,      *)
(* which deactivates what the webhooks missed.                             *)
(*                                                                         *)
(* An entity is its Shopify id; ids grow and are never reused.  The kinds  *)
(* are the entries of ENTITY_CONFIGS, in the order the sweep takes them.   *)
(* Of a row only is_active is kept, of a raw row only that it exists.      *)
(***************************************************************************)
EXTENDS Integers, FiniteSets

CONSTANTS
    MaxEntities,  \* bound on the ids Shopify hands out
    NKinds,       \* the number of entries of ENTITY_CONFIGS
    KindOf,       \* the kind of each entity
    Drafts,       \* products whose status is not ACTIVE
    Counted,      \* kinds with a count_query
    PageSize,     \* "first" of the id queries
    MaxCalls,     \* MAX_API_CALLS_PER_CYCLE
    MaxChanges,   \* bound on what the merchant does
    MaxFailures   \* bound on failed Shopify calls and aborted sweeps

Entities == 1 .. MaxEntities
Kinds == 1 .. NKinds

ASSUME CatalogAssumption ==
    /\ MaxEntities \in Nat /\ NKinds \in Nat \ {0}
    /\ KindOf \in [Entities -> Kinds]
    /\ Drafts \subseteq Entities /\ Counted \subseteq Kinds
    /\ PageSize \in Nat \ {0} /\ MaxCalls \in Nat \ {0}
    /\ MaxChanges \in Nat /\ MaxFailures \in Nat

VARIABLES
    created,    \* ids handed out so far
    shopify,    \* entities Shopify has
    webhooks,   \* events on their way to a handler
    raw,        \* entities with a row in the raw tables
    jobs,       \* entities whose normalization is on its way
    batchJob,   \* is a normalization of every raw row on its way?
    active,     \* local rows with is_active = true
    pc,         \* what the sweep does next
    kind,       \* the kind it is at
    budget,     \* api_budget
    pages,      \* calls of _shopify_ids, when that runs
    cursor,     \* endCursor
    hasNext,    \* hasNextPage
    ids,        \* remote_ids
    localCount, \* local_count
    stale,      \* local_ids - remote_ids
    atStart,    \* history: what Shopify had when this kind's diff began
    changes,    \* what the merchant has done so far
    failures    \* failures so far

catalog == <<created, shopify>>
pipeline == <<webhooks, raw, jobs, batchJob>>
scan == <<pages, cursor, hasNext, ids, atStart>>
diff == <<scan, localCount, stale>>
sweep == <<pc, kind, budget, diff>>
vars == <<catalog, pipeline, active, sweep, changes, failures>>

Of(k, S) == {e \in S : KindOf[e] = k}

Init ==
    /\ created = 0 /\ shopify = {}
    /\ webhooks = {} /\ raw = {} /\ jobs = {} /\ batchJob = FALSE /\ active = {}
    /\ pc = "idle" /\ kind = 1 /\ budget = 0
    /\ pages = 0 /\ cursor = 0 /\ hasNext = TRUE /\ ids = {} /\ atStart = {}
    /\ localCount = 0 /\ stale = {}
    /\ changes = 0 /\ failures = 0

-----------------------------------------------------------------------------
(* The merchant and Shopify.  A webhook may never arrive.                  *)

Deliver(event) == webhooks' = webhooks \cup {event} \/ UNCHANGED webhooks

Change == changes < MaxChanges /\ changes' = changes + 1

Create ==
    /\ Change
    /\ created < MaxEntities
    /\ created' = created + 1
    /\ shopify' = shopify \cup {created + 1}
    /\ Deliver(<<"changed", created + 1>>)
    /\ UNCHANGED <<raw, jobs, batchJob, active, sweep, failures>>

Update(e) ==
    /\ Change
    /\ webhooks' = webhooks \cup {<<"changed", e>>}
    /\ UNCHANGED <<catalog, raw, jobs, batchJob, active, sweep, failures>>

Remove(e) ==
    /\ Change
    /\ shopify' = shopify \ {e}
    /\ Deliver(<<"deleted", e>>)
    /\ UNCHANGED <<created, raw, jobs, batchJob, active, sweep, failures>>

-----------------------------------------------------------------------------
(* From Shopify to the local rows.  What is collected is stored raw and a  *)
(* normalization of it published, but a failed publish is only logged.     *)

StoreRaw(items) == raw' = raw \cup items
Publish(items) == jobs' \in {jobs, jobs \cup items}
PublishBatch == batchJob' \in {batchJob, TRUE}

\* A full collection takes what Shopify lists, page by page; a kind that fails
\* is missing from it.  The job it publishes names no entity.
Backfill ==
    /\ Change
    /\ \E items \in SUBSET shopify : StoreRaw(items)
    /\ PublishBatch
    /\ UNCHANGED <<catalog, webhooks, jobs, active, sweep, failures>>

\* That job takes every raw row there is, those of removed entities too.
NormalizeBatch ==
    /\ batchJob /\ batchJob' = FALSE
    /\ jobs' = jobs \cup raw
    /\ UNCHANGED <<catalog, webhooks, raw, active, sweep, changes, failures>>

\* What a query by id finds.
Found(e) == {e} \cap shopify

\* The handler of a created or updated event.  When the entity is gone, or the
\* fetch fails, nothing is collected and no normalization published; a batch
\* that could not be stored is only logged, and the job is published.
Collect(e) ==
    /\ <<"changed", e>> \in webhooks
    /\ webhooks' = webhooks \ {<<"changed", e>>}
    /\ \E items \in SUBSET Found(e) :
          (StoreRaw(items) \/ UNCHANGED raw) /\ Publish(items)
    /\ UNCHANGED <<catalog, batchJob, active, sweep, changes, failures>>

\* The row is upserted active or not, as the payload has it; seeded fault: the
\* upsert ignores the status.
UpsertedActive(e) == active \cup {e}
Upserted(e) == IF e \in Drafts THEN active \ {e} ELSE active \cup {e}

\* The raw row is converted and stored; a failure, or that there is no such row,
\* is logged and passed over.
Normalize(e) ==
    /\ e \in jobs
    /\ jobs' = jobs \ {e}
    /\ UNCHANGED active \/ (e \in raw /\ active' = Upserted(e))
    /\ UNCHANGED <<catalog, webhooks, raw, batchJob, sweep, changes, failures>>

HandleDeletion(e) ==
    /\ <<"deleted", e>> \in webhooks
    /\ webhooks' = webhooks \ {<<"deleted", e>>}
    /\ active' = active \ {e}
    /\ UNCHANGED <<catalog, raw, jobs, batchJob, sweep, changes, failures>>

-----------------------------------------------------------------------------
(* The sweep of one shop.                                                  *)

unswept == <<catalog, pipeline, changes>>

StartSweep ==
    /\ pc = "idle"
    /\ pc' = "count" /\ budget' = MaxCalls
    /\ UNCHANGED <<unswept, active, kind, diff, failures>>

\* What _sweep_entity knew of the kind is gone when it returns.
Forget ==
    /\ pages' = 0 /\ cursor' = 0 /\ hasNext' = TRUE /\ ids' = {} /\ atStart' = {}
    /\ localCount' = 0 /\ stale' = {}

EndSweep == pc' = "idle" /\ kind' = 1 /\ budget' = 0 /\ Forget

\* Seeded fault: every page costs one, so that one kind can starve the others.
NextKindPerPage ==
    IF kind < NKinds /\ budget > pages
    THEN pc' = "count" /\ kind' = kind + 1 /\ budget' = budget - pages /\ Forget
    ELSE EndSweep

\* Every kind costs one from the budget; without budget the rest are skipped.
NextKind ==
    IF kind < NKinds /\ budget > 1
    THEN pc' = "count" /\ kind' = kind + 1 /\ budget' = budget - 1 /\ Forget
    ELSE EndSweep

CountLocal ==
    /\ pc = "count"
    /\ localCount' = Cardinality(Of(kind, active))
    /\ pc' = "compare"
    /\ UNCHANGED <<unswept, active, kind, budget, scan, stale, failures>>

\* The fast path needs a count query and something to lose.
AsksCount == kind \in Counted /\ localCount > 0

CountsMatch ==
    /\ pc = "compare" /\ AsksCount
    /\ Cardinality(Of(kind, shopify)) = localCount
    /\ NextKind
    /\ UNCHANGED <<unswept, active, failures>>

\* A count that could not be fetched counts as different.
CountsDiffer ==
    /\ pc = "compare"
    /\ \/ /\ AsksCount => Cardinality(Of(kind, shopify)) # localCount
          /\ UNCHANGED failures
       \/ /\ AsksCount
          /\ failures < MaxFailures /\ failures' = failures + 1
    /\ pc' = "scan"
    /\ atStart' = Of(kind, shopify)
    /\ UNCHANGED <<unswept, active, kind, budget, pages, cursor, hasNext, ids,
                   localCount, stale>>

\* What the id query still has after the cursor, in the order of ids.
Remaining == {e \in Of(kind, shopify) : e > cursor}
Page == {e \in Remaining : Cardinality({d \in Remaining : d <= e}) <= PageSize}

\* remote_ids after this page; seeded fault: a page replaces those before it.
LastPageOnly == Page
Fetched == ids \cup Page

FetchPage ==
    /\ pc = "scan"
    /\ pages' = pages + 1
    /\ ids' = Fetched
    /\ hasNext' = (\E e \in Remaining : \A d \in Page : e > d)
    /\ IF Page = {} THEN UNCHANGED cursor
       ELSE \E last \in Page : (\A d \in Page : d <= last) /\ cursor' = last
    /\ pc' = IF hasNext' /\ pages' < budget THEN "scan" ELSE "diff"
    /\ UNCHANGED <<unswept, active, kind, budget, atStart, localCount, stale, failures>>

\* One failed page, and the kind is left for the next sweep.
FetchFails ==
    /\ pc = "scan"
    /\ failures < MaxFailures /\ failures' = failures + 1
    /\ NextKind
    /\ UNCHANGED <<unswept, active>>

\* Seeded fault: the difference the wrong way round.
ReadLocalSwapped ==
    /\ pc = "diff"
    /\ stale' = ids \ Of(kind, active)
    /\ pc' = "deactivate"
    /\ UNCHANGED <<unswept, active, kind, budget, scan, localCount, failures>>

\* The local ids are read after the remote ones.
ReadLocal ==
    /\ pc = "diff"
    /\ stale' = Of(kind, active) \ ids
    /\ pc' = "deactivate"
    /\ UNCHANGED <<unswept, active, kind, budget, scan, localCount, failures>>

Deactivate ==
    /\ pc = "deactivate"
    /\ active' = active \ stale
    /\ NextKind
    /\ UNCHANGED <<unswept, failures>>

\* A database error ends this shop's sweep, a restart everybody's.
Abort ==
    /\ pc # "idle"
    /\ failures < MaxFailures /\ failures' = failures + 1
    /\ EndSweep
    /\ UNCHANGED <<unswept, active>>

-----------------------------------------------------------------------------
Sweep ==
    \/ StartSweep \/ CountLocal \/ CountsMatch \/ CountsDiffer
    \/ FetchPage \/ ReadLocal \/ Deactivate

Pipeline(e) == Collect(e) \/ Normalize(e) \/ HandleDeletion(e)

Next ==
    \/ Create \/ Backfill \/ NormalizeBatch
    \/ \E e \in shopify : Update(e) \/ Remove(e)
    \/ \E e \in Entities : Pipeline(e)
    \/ Sweep \/ FetchFails \/ Abort

Spec == Init /\ [][Next]_vars

\* The sweep runs every hour, Kafka delivers what is on a topic, and failures
\* do not go on for ever.
FairSpec ==
    Spec /\ WF_vars(Sweep) /\ WF_vars(NormalizeBatch)
         /\ \A e \in Entities : WF_vars(Pipeline(e))

-----------------------------------------------------------------------------
(* Properties.                                                             *)

TypeOK ==
    /\ created \in 0 .. MaxEntities
    /\ shopify \subseteq 1 .. created
    /\ webhooks \subseteq {"changed", "deleted"} \X (1 .. created)
    /\ raw \subseteq 1 .. created /\ jobs \subseteq 1 .. created /\ batchJob \in BOOLEAN
    /\ active \subseteq raw \ Drafts
    /\ pc \in {"idle", "count", "compare", "scan", "diff", "deactivate"}
    /\ kind \in Kinds
    /\ budget \in 0 .. MaxCalls
    /\ pages \in 0 .. MaxCalls
    /\ localCount \in Nat
    /\ cursor \in 0 .. created /\ hasNext \in BOOLEAN
    /\ ids \subseteq 1 .. created /\ stale \subseteq 1 .. created
    /\ atStart \subseteq 1 .. created
    /\ changes \in 0 .. MaxChanges /\ failures \in 0 .. MaxFailures

\* A scan that saw the last page never costs an entity that was on Shopify all
\* the while its active row, whatever is created, removed or stored meanwhile.
SteadyIsKept ==
    [][~hasNext => atStart \cap shopify' \cap active \subseteq active']_vars

\* A removed entity of a kind without a count query ends up inactive: a lost
\* webhook, or a late upsert that brought it back, is made good by a sweep.
GoneIsDeactivated ==
    <>[](\A e \in active \ shopify : KindOf[e] \in Counted)
=============================================================================
