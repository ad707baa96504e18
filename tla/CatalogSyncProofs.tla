-------------------------- MODULE CatalogSyncProofs --------------------------
(***************************************************************************)
(* Proofs about CatalogSync, for any catalog, page size and budget.        *)
(***************************************************************************)
EXTENDS CatalogSync, FiniteSetTheorems, TLAPS

\* A scan starts from nothing, with budget, and has a page left to pay for
\* while it is under way.
BudgetInv ==
    /\ pc \in {"idle", "count", "compare"} => pages = 0 /\ cursor = 0 /\ hasNext
    /\ pc \in {"count", "compare"} => budget > 0
    /\ pc = "scan" => pages < budget

\* A deletion is only ever announced of what is gone, and ids do not return.
DeletionInv == \A e \in 1 .. created : <<"deleted", e>> \in webhooks => e \notin shopify

\* What the scan has passed it has seen, as far as it was there all along; and
\* a scan that reached the end has passed everything.
ScanInv ==
    /\ pc \in {"idle", "count", "compare"} => atStart = {}
    /\ \A e \in atStart : KindOf[e] = kind
    /\ pc \in {"scan", "diff"} =>
          \A e \in atStart \cap shopify : e <= cursor \/ ~hasNext => e \in ids
    /\ pc = "deactivate" /\ ~hasNext => stale \cap atStart \cap shopify = {}

Inv == TypeOK /\ BudgetInv /\ DeletionInv /\ ScanInv

LEMMA InitInv == Init => Inv
<1> SUFFICES ASSUME Init PROVE Inv
  OBVIOUS
<1>1. batchJob \in BOOLEAN
  BY DEF Init
<1>2. QED
  BY <1>1, CatalogAssumption
  DEF Init, Inv, TypeOK, BudgetInv, DeletionInv, ScanInv, Kinds, Entities

-----------------------------------------------------------------------------
(* Types.                                                                  *)

\* The end of a kind or of a sweep leaves nothing behind.
LEMMA NextKindTypes ==
    ASSUME TypeOK, NextKind \/ EndSweep
    PROVE  /\ pc' \in {"idle", "count"}
           /\ kind' \in Kinds /\ budget' \in 0 .. MaxCalls
           /\ pc' = "count" => budget' > 0
           /\ pages' = 0 /\ cursor' = 0 /\ hasNext' = TRUE
           /\ ids' = {} /\ atStart' = {} /\ stale' = {} /\ localCount' = 0
<1>1. CASE EndSweep
  BY <1>1, CatalogAssumption DEF EndSweep, Forget, Kinds
<1>2. CASE kind < NKinds /\ budget > 1 /\ NextKind
  BY <1>2, CatalogAssumption DEF NextKind, Forget, TypeOK, Kinds
<1>3. QED
  BY <1>1, <1>2 DEF NextKind

LEMMA NextTypes == TypeOK /\ BudgetInv /\ [Next]_vars => TypeOK' /\ BudgetInv'
<1> SUFFICES ASSUME TypeOK, BudgetInv, [Next]_vars PROVE TypeOK' /\ BudgetInv'
  OBVIOUS
<1> USE CatalogAssumption
<1>1. ASSUME \/ Create \/ Backfill \/ NormalizeBatch
             \/ \E e \in shopify : Update(e) \/ Remove(e)
      PROVE  TypeOK' /\ BudgetInv'
  <2>1. CASE Create
    BY <2>1 DEF Create, Change, Deliver, sweep, diff, scan, TypeOK, BudgetInv
  <2>2. CASE Backfill
    <3>1. /\ raw' \subseteq 1 .. created /\ raw \subseteq raw'
          /\ changes' \in 0 .. MaxChanges
      BY <2>2 DEF Backfill, StoreRaw, Change, TypeOK
    <3>2. batchJob' \in BOOLEAN
      BY <2>2 DEF Backfill, PublishBatch, TypeOK
    <3>3. UNCHANGED <<catalog, webhooks, jobs, active, sweep, failures>>
      BY <2>2 DEF Backfill
    <3>4. QED
      BY <3>1, <3>2, <3>3 DEF sweep, diff, scan, catalog, TypeOK, BudgetInv
  <2>3. ASSUME NEW e \in shopify, Update(e) PROVE TypeOK' /\ BudgetInv'
    BY <2>3 DEF Update, Change, sweep, diff, scan, catalog, TypeOK, BudgetInv
  <2>4. ASSUME NEW e \in shopify, Remove(e) PROVE TypeOK' /\ BudgetInv'
    BY <2>4 DEF Remove, Change, Deliver, sweep, diff, scan, TypeOK, BudgetInv
  <2>5. CASE NormalizeBatch
    BY <2>5 DEF NormalizeBatch, sweep, diff, scan, catalog, TypeOK, BudgetInv
  <2>6. QED
    BY <1>1, <2>1, <2>2, <2>3, <2>4, <2>5
<1>2. ASSUME NEW e \in Entities, Pipeline(e) PROVE TypeOK' /\ BudgetInv'
  <2>1. CASE Collect(e)
    BY <2>1
    DEF Collect, Found, StoreRaw, Publish, sweep, diff, scan, catalog, TypeOK, BudgetInv
  <2>2. CASE Normalize(e)
    BY <2>2 DEF Normalize, Upserted, sweep, diff, scan, catalog, TypeOK, BudgetInv
  <2>3. CASE HandleDeletion(e)
    BY <2>3 DEF HandleDeletion, sweep, diff, scan, catalog, TypeOK, BudgetInv
  <2>4. QED
    BY <1>2, <2>1, <2>2, <2>3 DEF Pipeline
<1>3. CASE StartSweep
  BY <1>3 DEF StartSweep, unswept, catalog, pipeline, diff, scan, TypeOK, BudgetInv
<1>4. CASE CountLocal
  <2>1. Cardinality(Of(kind, active)) \in Nat
    <3>1. IsFiniteSet(1 .. created)
      BY FS_Interval DEF TypeOK
    <3>2. Of(kind, active) \subseteq 1 .. created
      BY DEF Of, TypeOK
    <3>3. QED
      BY <3>1, <3>2, FS_Subset, FS_CardinalityType
  <2>2. QED
    BY <1>4, <2>1 DEF CountLocal, unswept, catalog, pipeline, scan, TypeOK, BudgetInv
<1>5. CASE CountsDiffer
  <2>1. failures' \in 0 .. MaxFailures
    BY <1>5 DEF CountsDiffer, TypeOK
  <2>2. atStart' \subseteq 1 .. created
    BY <1>5 DEF CountsDiffer, Of, TypeOK
  <2>3. /\ pc = "compare" /\ pc' = "scan"
        /\ UNCHANGED <<unswept, active, kind, budget, pages, cursor, hasNext,
                        ids, localCount, stale>>
    BY <1>5 DEF CountsDiffer
  <2>4. QED
    BY <2>1, <2>2, <2>3 DEF unswept, catalog, pipeline, TypeOK, BudgetInv
<1>6. CASE FetchPage
  <2>1. Page \subseteq 1 .. created /\ Fetched \subseteq 1 .. created
    BY DEF Fetched, Page, Remaining, Of, TypeOK
  <2>2. cursor' \in 0 .. created
    BY <1>6, <2>1 DEF FetchPage, TypeOK
  <2>3. /\ pages' \in 0 .. MaxCalls /\ hasNext' \in BOOLEAN
        /\ pc' \in {"scan", "diff"}
        /\ pc' = "scan" => pages' < budget
    BY <1>6 DEF FetchPage, TypeOK, BudgetInv
  <2>4. /\ UNCHANGED <<unswept, active, kind, budget, atStart, localCount, stale, failures>>
        /\ ids' = Fetched
    BY <1>6 DEF FetchPage
  <2>5. QED
    BY <2>1, <2>2, <2>3, <2>4 DEF unswept, catalog, pipeline, TypeOK, BudgetInv
<1>7. CASE ReadLocal
  BY <1>7 DEF ReadLocal, Of, unswept, catalog, pipeline, scan, TypeOK, BudgetInv
<1>8. ASSUME CountsMatch \/ FetchFails \/ Deactivate \/ Abort
      PROVE  TypeOK' /\ BudgetInv'
  <2>1. /\ UNCHANGED unswept
        /\ active' \subseteq active
        /\ failures' \in 0 .. MaxFailures
        /\ NextKind \/ EndSweep
    BY <1>8 DEF CountsMatch, FetchFails, Deactivate, Abort, TypeOK
  <2>3. /\ pc' \in {"idle", "count"}
        /\ kind' \in Kinds /\ budget' \in 0 .. MaxCalls
        /\ pc' = "count" => budget' > 0
        /\ pages' = 0 /\ cursor' = 0 /\ hasNext' = TRUE
        /\ ids' = {} /\ atStart' = {} /\ stale' = {} /\ localCount' = 0
    BY <2>1, NextKindTypes
  <2>4. QED
    BY <2>1, <2>3 DEF unswept, catalog, pipeline, TypeOK, BudgetInv
<1>9. CASE UNCHANGED vars
  BY <1>9
  DEF vars, catalog, pipeline, sweep, diff, scan, TypeOK, BudgetInv
<1>10. QED
  BY <1>1, <1>2, <1>3, <1>4, <1>5, <1>6, <1>7, <1>8, <1>9 DEF Next, Sweep

-----------------------------------------------------------------------------
(* What a deletion says.                                                   *)

LEMMA NextDeletion == TypeOK /\ DeletionInv /\ [Next]_vars => DeletionInv'
<1> SUFFICES ASSUME TypeOK, DeletionInv, [Next]_vars PROVE DeletionInv'
  OBVIOUS
<1>1. CASE Create
  BY <1>1 DEF Create, Deliver, DeletionInv, TypeOK
<1>2. ASSUME NEW e \in shopify, Update(e) \/ Remove(e) PROVE DeletionInv'
  BY <1>2 DEF Update, Remove, Deliver, DeletionInv, TypeOK, catalog
<1>3. ASSUME NEW e \in Entities, Pipeline(e) PROVE DeletionInv'
  BY <1>3
  DEF Pipeline, Collect, Normalize, HandleDeletion, DeletionInv, catalog
<1>4. ASSUME UNCHANGED <<catalog, webhooks>> PROVE DeletionInv'
  BY <1>4 DEF catalog, DeletionInv
<1>5. CASE Backfill \/ NormalizeBatch \/ Sweep \/ FetchFails \/ Abort \/ UNCHANGED vars
  <2>1. UNCHANGED <<catalog, webhooks>>
    BY <1>5
    DEF Backfill, NormalizeBatch, Sweep, StartSweep, CountLocal, CountsMatch,
        CountsDiffer, FetchPage, ReadLocal, Deactivate, FetchFails, Abort,
        unswept, pipeline, vars
  <2>2. QED
    BY <2>1, <1>4
<1>6. QED
  BY <1>1, <1>2, <1>3, <1>5 DEF Next

-----------------------------------------------------------------------------
(* The scan.                                                               *)

\* Ids are numbers, handed out so far.
LEMMA Ids ==
    TypeOK => /\ created \in Nat /\ 1 .. created \subseteq Int
              /\ created + 1 \notin 1 .. created
              /\ shopify \subseteq 1 .. created /\ atStart \subseteq 1 .. created
              /\ Remaining \subseteq shopify /\ Page \subseteq Remaining
<1> SUFFICES ASSUME TypeOK
             PROVE  /\ created \in Nat /\ 1 .. created \subseteq Int
                    /\ created + 1 \notin 1 .. created
                    /\ shopify \subseteq 1 .. created /\ atStart \subseteq 1 .. created
                    /\ Remaining \subseteq shopify /\ Page \subseteq Remaining
  OBVIOUS
<1>1. created \in Nat
  <2>1. MaxEntities \in Nat
    BY CatalogAssumption
  <2>2. created \in 0 .. MaxEntities
    BY DEF TypeOK
  <2>3. QED
    BY <2>1, <2>2
<1>2. shopify \subseteq 1 .. created /\ atStart \subseteq 1 .. created
  BY DEF TypeOK
<1>3. Remaining \subseteq shopify /\ Page \subseteq Remaining
  BY DEF Remaining, Page, Of
<1>4. QED
  BY <1>1, <1>2, <1>3

\* A page is a prefix of what remains.
LEMMA PageIsPrefix ==
    ASSUME TypeOK, NEW d \in Page, NEW e \in Remaining, e <= d
    PROVE  e \in Page
<1> DEFINE upTo(x) == {y \in Remaining : y <= x}
<1>1. Remaining \subseteq 1 .. created /\ created \in Nat
  BY Ids
<1>2. d \in Remaining /\ Cardinality(upTo(d)) <= PageSize
  BY DEF Page
<1>3. IsFiniteSet(upTo(d))
  <2>1. IsFiniteSet(1 .. created)
    BY <1>1, FS_Interval
  <2>2. upTo(d) \subseteq 1 .. created
    BY <1>1
  <2>3. QED
    BY <2>1, <2>2, FS_Subset
<1>4. upTo(e) \subseteq upTo(d)
  <2> SUFFICES ASSUME NEW y \in Remaining, y <= e PROVE y <= d
    OBVIOUS
  <2>1. y \in Int /\ e \in Int /\ d \in Int
    BY <1>1, <1>2
  <2>2. QED
    BY <2>1
<1>5. /\ Cardinality(upTo(e)) <= Cardinality(upTo(d))
      /\ Cardinality(upTo(e)) \in Nat /\ Cardinality(upTo(d)) \in Nat
  BY <1>3, <1>4, FS_Subset, FS_CardinalityType
<1>6. Cardinality(upTo(e)) <= PageSize
  BY <1>2, <1>5, CatalogAssumption
<1>7. QED
  BY <1>6 DEF Page

LEMMA NextScan == Inv /\ [Next]_vars => ScanInv'
<1> SUFFICES ASSUME Inv, [Next]_vars PROVE ScanInv'
  OBVIOUS
<1> USE DEF Inv
<1>1. ASSUME \/ Create \/ Backfill \/ NormalizeBatch
             \/ \E e \in shopify : Update(e) \/ Remove(e)
      PROVE  ScanInv'
  <2>1. /\ UNCHANGED sweep
        /\ atStart \cap shopify' \subseteq atStart \cap shopify
    <3>1. CASE Create
      BY <3>1, Ids DEF Create
    <3>2. ASSUME NEW e \in shopify, Update(e) \/ Remove(e)
          PROVE  /\ UNCHANGED sweep
                 /\ atStart \cap shopify' \subseteq atStart \cap shopify
      BY <3>2 DEF Update, Remove, catalog
    <3>3. CASE Backfill \/ NormalizeBatch
      BY <3>3 DEF Backfill, NormalizeBatch, catalog
    <3>4. QED
      BY <1>1, <3>1, <3>2, <3>3
  <2>2. QED
    BY <2>1 DEF sweep, diff, scan, ScanInv
<1>2. ASSUME NEW e \in Entities, Pipeline(e) PROVE ScanInv'
  BY <1>2
  DEF Pipeline, Collect, Normalize, HandleDeletion, catalog, sweep, diff, scan, ScanInv
<1>3. CASE StartSweep
  BY <1>3 DEF StartSweep, unswept, catalog, diff, scan, ScanInv
<1>4. CASE CountLocal
  BY <1>4 DEF CountLocal, unswept, catalog, scan, ScanInv
<1>5. CASE CountsDiffer
  <2>1. /\ pc' = "scan" /\ cursor' = 0 /\ hasNext'
        /\ atStart' = Of(kind, shopify) /\ UNCHANGED <<kind, shopify>>
    BY <1>5 DEF CountsDiffer, BudgetInv, unswept, catalog
  <2>2. ASSUME NEW e \in atStart' PROVE KindOf[e] = kind' /\ ~(e <= cursor')
    <3>1. e \in shopify /\ KindOf[e] = kind'
      BY <2>1 DEF Of
    <3>2. e > 0
      BY <3>1, Ids
    <3>3. QED
      BY <2>1, <3>1, <3>2, Ids
  <2>3. QED
    BY <2>1, <2>2 DEF ScanInv
<1>6. CASE FetchPage
  <2>1. /\ pc = "scan" /\ pc' \in {"scan", "diff"} /\ ids' = ids \cup Page
        /\ UNCHANGED <<atStart, shopify, kind>>
    BY <1>6 DEF FetchPage, Fetched, unswept, catalog
  <2>2. ASSUME NEW e \in atStart \cap shopify, e <= cursor' \/ ~hasNext'
        PROVE  e \in ids'
    <3>1. CASE e <= cursor
      BY <2>1, <3>1 DEF ScanInv
    <3>2. CASE ~(e <= cursor)
      <4>1. e \in Remaining
        BY <3>2 DEF Remaining, Of, ScanInv, TypeOK
      <4>2. Page \subseteq Int /\ e \in Int
        BY <4>1, Ids
      <4>3. PICK d \in Page : e <= d
        <5>1. CASE e <= cursor'
          BY <1>6, <3>2, <5>1 DEF FetchPage
        <5>2. CASE ~hasNext'
          <6>1. ~ \A d \in Page : e > d
            BY <1>6, <4>1, <5>2 DEF FetchPage
          <6>2. QED
            BY <6>1, <4>2
        <5>3. QED
          BY <2>2, <5>1, <5>2
      <4>4. e \in Page
        BY <4>1, <4>3, PageIsPrefix
      <4>5. QED
        BY <2>1, <4>4
    <3>3. QED
      BY <3>1, <3>2
  <2>3. QED
    BY <2>1, <2>2 DEF ScanInv
<1>7. CASE ReadLocal
  <2>1. /\ pc = "diff" /\ pc' = "deactivate" /\ stale' = Of(kind, active) \ ids
        /\ UNCHANGED <<atStart, shopify, kind, hasNext>>
    BY <1>7 DEF ReadLocal, unswept, catalog, scan
  <2>2. ~hasNext' => stale' \cap atStart' \cap shopify' = {}
    BY <2>1 DEF ScanInv
  <2>3. QED
    BY <2>1, <2>2 DEF ScanInv
<1>8. ASSUME CountsMatch \/ FetchFails \/ Deactivate \/ Abort PROVE ScanInv'
  <2>1. NextKind \/ EndSweep
    BY <1>8 DEF CountsMatch, FetchFails, Deactivate, Abort
  <2>3. pc' \in {"idle", "count"} /\ atStart' = {}
    BY <2>1, NextKindTypes
  <2>4. QED
    BY <2>3 DEF ScanInv
<1>9. CASE UNCHANGED vars
  BY <1>9 DEF vars, catalog, sweep, diff, scan, ScanInv
<1>10. QED
  BY <1>1, <1>2, <1>3, <1>4, <1>5, <1>6, <1>7, <1>8, <1>9 DEF Next, Sweep

-----------------------------------------------------------------------------
LEMMA InvHolds == Spec => []Inv
<1>1. Inv /\ [Next]_vars => Inv'
  BY NextTypes, NextDeletion, NextScan DEF Inv
<1>2. QED
  BY InitInv, <1>1, PTL DEF Spec

\* Normalization activates only what has a raw row and is not a draft, and the
\* sweep stays within the pages of its budget.
THEOREM CatalogTypes == Spec => []TypeOK
<1>1. Inv => TypeOK
  BY DEF Inv
<1>2. QED
  BY InvHolds, <1>1, PTL

\* A complete scan deactivates nothing that was on Shopify all the while,
\* however the merchant and the webhooks interleave with it.
THEOREM SteadyRowsAreKept == Spec => SteadyIsKept
<1>1. Inv /\ [Next]_vars
        => [~hasNext => atStart \cap shopify' \cap active \subseteq active']_vars
  <2> SUFFICES ASSUME Inv, Next, ~hasNext
               PROVE  atStart \cap shopify' \cap active \subseteq active'
    OBVIOUS
  <2>1. CASE Deactivate
    BY <2>1 DEF Deactivate, unswept, catalog, Inv, ScanInv
  <2>2. ASSUME NEW e \in Entities, Pipeline(e)
        PROVE  atStart \cap shopify' \cap active \subseteq active'
    <3>1. CASE Collect(e)
      BY <3>1 DEF Collect
    <3>2. CASE Normalize(e)
      BY <3>2 DEF Normalize, Upserted, Inv, TypeOK
    <3>3. CASE HandleDeletion(e)
      BY <3>3 DEF HandleDeletion, Inv, DeletionInv, TypeOK, catalog
    <3>4. QED
      BY <2>2, <3>1, <3>2, <3>3 DEF Pipeline
  <2>3. ASSUME UNCHANGED active
        PROVE  atStart \cap shopify' \cap active \subseteq active'
    BY <2>3
  <2>4. QED
    BY <2>1, <2>2, <2>3
    DEF Next, Sweep, Create, Backfill, NormalizeBatch, Update, Remove, StartSweep,
        CountLocal, CountsMatch, CountsDiffer, FetchPage, ReadLocal, FetchFails, Abort
<1>2. QED
  BY InvHolds, <1>1, PTL DEF Spec, SteadyIsKept
=============================================================================
