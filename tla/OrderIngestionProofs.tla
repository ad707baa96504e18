------------------------ MODULE OrderIngestionProofs ------------------------
(***************************************************************************)
(* For any number of orders, collectors, normalisers and faults: an order  *)
(* has one row, which never goes back, as long as no rebalance has left a  *)
(* normaliser at work without its partition.                               *)
(***************************************************************************)
EXTENDS OrderIngestion, TLAPS

\* Nobody holds or has stored a version the raw row has not reached.
Behindhand ==
    /\ \A n \in Normalisers : npc[n] # "idle" => nversion[n] <= raw[norder[n]]
    /\ \A o \in Orders, n \in Normalisers : rows[o][n] <= raw[o]

\* Whoever is in mid-job owns the partition, holds nothing older than the row,
\* and inserts only where there is none.
SingleWriter ==
    ~overtaken =>
        /\ \A n \in Normalisers :
              npc[n] # "idle" =>
                  /\ n = owner
                  /\ \A m \in Normalisers : rows[norder[n]][m] <= nversion[n]
        /\ \A n \in Normalisers :
              npc[n] = "insert" => RowsOf(norder[n]) = {}
        /\ \A o \in Orders : \A m, n \in RowsOf(o) : m = n

Inv == TypeOK /\ Behindhand /\ SingleWriter

LEMMA InitInv == Init => Inv
<1> SUFFICES ASSUME Init PROVE Inv
  OBVIOUS
<1>1. 0 \in Versions
  BY IngestionAssumption DEF Versions
<1>2. TypeOK
  BY <1>1 DEF Init, TypeOK
<1>3. Behindhand
  BY DEF Init, Behindhand
<1>4. SingleWriter
  BY DEF Init, SingleWriter, RowsOf
<1>5. QED
  BY <1>2, <1>3, <1>4 DEF Inv

\* The raw row only moves forward.
LEMMA NewerBounds ==
    ASSUME NEW a \in Versions, NEW b \in Versions
    PROVE  Newer(a, b) \in Versions /\ a <= Newer(a, b)
BY IngestionAssumption DEF Newer, Versions

\* What most actions leave alone is all that the invariant speaks of.
writing == <<raw, owner, npc, norder, nversion, rows, overtaken>>

LEMMA Untouched == Inv /\ TypeOK' /\ UNCHANGED writing => Inv'
BY DEF Inv, Behindhand, SingleWriter, RowsOf, writing

LEMMA EnvironmentInv == Inv /\ Environment => Inv'
<1> SUFFICES ASSUME Inv, Environment PROVE Inv'
  OBVIOUS
<1>1. TypeOK'
  <2> USE IngestionAssumption DEF Inv, TypeOK, Fault
  <2>1. ASSUME NEW o \in Orders, ChangeOrder(o) PROVE TypeOK'
    BY <2>1 DEF ChangeOrder, Versions, shopify, collecting, normalising, backstop
  <2>2. ASSUME NEW o \in Orders, LeaveWindow(o) PROVE TypeOK'
    BY <2>2 DEF LeaveWindow, shopify, collecting, normalising, backstop
  <2>3. CASE SuspendShop
    <3>1. faults' \in Nat
      BY <2>3 DEF SuspendShop
    <3>2. shopActive' \in BOOLEAN
      BY <2>3 DEF SuspendShop
    <3>3. QED
      BY <2>3, <3>1, <3>2 DEF SuspendShop, shopify, collecting, normalising, backstop
  <2>4. CASE ReactivateShop
    BY <2>4 DEF ReactivateShop, shopify, collecting, normalising, backstop
  <2>5. QED
    BY <2>1, <2>2, <2>3, <2>4 DEF Environment
<1>2. UNCHANGED writing
  BY DEF Environment, ChangeOrder, LeaveWindow, SuspendShop, ReactivateShop, writing,
         normalising
<1>3. QED
  BY <1>1, <1>2, Untouched

LEMMA SweepInv == Inv /\ Sweep => Inv'
<1> SUFFICES ASSUME Inv, Sweep PROVE Inv'
  OBVIOUS
<1>1. TypeOK'
  <2> USE IngestionAssumption DEF Inv, TypeOK, Fault
  <2>0. 0 \in Versions
    BY DEF Versions
  <2>1. CASE ListRecent
    BY <2>0, <2>1 DEF ListRecent, shopify, collecting, normalising, backstop
  <2>2. CASE Compare
    BY <2>0, <2>2 DEF Compare, shopify, collecting, normalising, backstop
  <2>3. CASE SweepFails
    BY <2>0, <2>3 DEF SweepFails, shopify, collecting, normalising, backstop
  <2>4. ASSUME NEW o \in Orders, RepublishOrder(o) PROVE TypeOK'
    <3>1. events' \in [Orders -> Nat] /\ faults' \in Nat
      BY <2>4 DEF RepublishOrder
    <3>2. republish' \subseteq Orders
      BY <2>4 DEF RepublishOrder
    <3>3. QED
      BY <2>4, <3>1, <3>2 DEF RepublishOrder, shopify, collecting, normalising
  <2>5. QED
    BY <2>1, <2>2, <2>3, <2>4 DEF Sweep
<1>2. UNCHANGED writing
  BY DEF Sweep, ListRecent, Compare, SweepFails, RepublishOrder, writing, normalising
<1>3. QED
  BY <1>1, <1>2, Untouched

LEMMA CollectInv == Inv /\ Collect => Inv'
<1> SUFFICES ASSUME Inv, Collect PROVE Inv'
  OBVIOUS
<1> USE IngestionAssumption DEF Inv, TypeOK, Fault
<1>1. ASSUME NEW o \in Orders, DropEvent(o) PROVE Inv'
  <2>1. TypeOK'
    BY <1>1 DEF DropEvent, Versions, shopify, collecting, normalising, backstop
  <2>2. QED
    BY <1>1, <2>1, Untouched DEF DropEvent, writing, normalising
<1>2. ASSUME NEW c \in Collectors, NEW o \in Orders, FetchOrder(c, o) PROVE Inv'
  <2>1. TypeOK'
    BY <1>2 DEF FetchOrder, Versions, shopify, collecting, normalising, backstop
  <2>2. QED
    BY <1>2, <2>1, Untouched DEF FetchOrder, writing, normalising
<1>3. ASSUME NEW c \in Collectors, StoreFails(c) PROVE Inv'
  <2>1. TypeOK'
    BY <1>3 DEF StoreFails, CollectorDone, Versions, shopify, collecting, normalising,
                backstop
  <2>2. QED
    BY <1>3, <2>1, Untouched DEF StoreFails, writing, normalising
<1>4. ASSUME NEW c \in Collectors, StoreRaw(c) PROVE Inv'
  <2>1. corder[c] \in Orders
    BY <1>4 DEF StoreRaw
  <2>2. /\ raw' = [raw EXCEPT ![corder[c]] = Newer(raw[corder[c]], cversion[c])]
        /\ UNCHANGED <<owner, npc, norder, nversion, rows, overtaken>>
    BY <1>4 DEF StoreRaw, normalising
  <2>3. raw' \in [Orders -> Versions] /\ \A o \in Orders : raw[o] <= raw'[o]
    <3>1. /\ raw[corder[c]] \in Versions /\ cversion[c] \in Versions
          /\ \A o \in Orders : raw[o] \in Nat
      BY <2>1 DEF Versions
    <3>2. QED
      BY <2>1, <2>2, <3>1, NewerBounds
  <2>4. TypeOK'
    <3>0. jobs[corder[c]] + 1 \in Nat /\ faults + 1 \in Nat
      BY <2>1
    <3>1. jobs' \in [Orders -> Nat] /\ faults' \in Nat
      BY <1>4, <2>1, <3>0 DEF StoreRaw
    <3>2. corder' \in [Collectors -> Orders \cup {NoOrder}]
          /\ cversion' \in [Collectors -> Versions]
      BY <1>4 DEF StoreRaw, CollectorDone, Versions
    <3>3. QED
      BY <1>4, <2>2, <2>3, <3>1, <3>2 DEF StoreRaw, shopify, backstop
  <2>5. Behindhand'
    <3>1. \A o \in Orders : raw[o] \in Int /\ raw'[o] \in Int
      BY <2>3 DEF Versions
    <3>2. \A n \in Normalisers : nversion[n] \in Int
                                 /\ \A o \in Orders : rows[o][n] \in Int
      BY DEF Versions
    <3>3. QED
      BY <2>2, <2>3, <3>1, <3>2 DEF Behindhand
  <2>6. SingleWriter'
    BY <2>2 DEF SingleWriter, RowsOf
  <2>7. QED
    BY <2>4, <2>5, <2>6
<1>5. QED
  BY <1>1, <1>2, <1>3, <1>4 DEF Collect

LEMMA ReadRawInv ==
    ASSUME Inv, NEW n \in Normalisers, NEW o \in Orders, ReadRaw(n, o)
    PROVE  Inv'
<1> USE IngestionAssumption DEF Inv, TypeOK
<1>1. TypeOK'
  BY DEF ReadRaw, Versions, shopify, collecting, backstop
<1>2. Behindhand'
  BY DEF ReadRaw, Behindhand, Versions
<1>3. SingleWriter'
  BY DEF ReadRaw, Behindhand, SingleWriter, RowsOf, Versions
<1>4. QED
  BY <1>1, <1>2, <1>3

LEMMA WriteInv ==
    ASSUME Inv, NEW n \in Normalisers,
           FindNoRow(n) \/ InsertRow(n) \/ OverwriteRow(n) \/ UpsertFails(n)
    PROVE  Inv'
<1> USE IngestionAssumption DEF Inv, TypeOK, Fault, NormaliserDone
<1>1. CASE FindNoRow(n)
  <2>1. TypeOK'
    BY <1>1 DEF FindNoRow, Versions, shopify, collecting, backstop
  <2>2. Behindhand'
    BY <1>1 DEF FindNoRow, Behindhand
  <2>3. SingleWriter'
    BY <1>1 DEF FindNoRow, SingleWriter, RowsOf
  <2>4. QED
    BY <2>1, <2>2, <2>3
<1>2. CASE InsertRow(n)
  <2>1. norder[n] \in Orders
    BY <1>2 DEF InsertRow
  <2>2. TypeOK'
    BY <1>2, <2>1 DEF InsertRow, Versions, shopify, collecting, backstop
  <2>3. Behindhand'
    BY <1>2, <2>1 DEF InsertRow, Behindhand, Versions
  <2>4. SingleWriter'
    BY <1>2, <2>1 DEF InsertRow, SingleWriter, RowsOf, Versions
  <2>5. QED
    BY <2>2, <2>3, <2>4
<1>3. CASE OverwriteRow(n)
  <2>1. norder[n] \in Orders
    BY <1>3 DEF OverwriteRow
  <2>2. PICK m \in Normalisers :
            /\ RowsOf(norder[n]) = {m}
            /\ rows' = [rows EXCEPT ![norder[n]][m] = nversion[n]]
    BY <1>3 DEF OverwriteRow
  <2>3. TypeOK'
    BY <1>3, <2>1, <2>2 DEF OverwriteRow, Versions, shopify, collecting, backstop
  <2>4. Behindhand'
    BY <1>3, <2>1, <2>2 DEF OverwriteRow, Behindhand, Versions
  <2>5. SingleWriter'
    BY <1>3, <2>1, <2>2 DEF OverwriteRow, SingleWriter, RowsOf, Versions
  <2>6. QED
    BY <2>3, <2>4, <2>5
<1>4. CASE UpsertFails(n)
  <2>1. TypeOK'
    BY <1>4 DEF UpsertFails, Versions, shopify, collecting, backstop
  <2>2. Behindhand' /\ SingleWriter'
    BY <1>4 DEF UpsertFails, Behindhand, SingleWriter, RowsOf
  <2>3. QED
    BY <2>1, <2>2
<1>5. QED
  BY <1>1, <1>2, <1>3, <1>4

LEMMA HandOverInv ==
    ASSUME Inv, NEW n \in Normalisers, Rebalance(n) \/ Crash(n)
    PROVE  Inv'
<1> USE IngestionAssumption DEF Inv, TypeOK, Fault, NormaliserDone
<1>1. CASE Rebalance(n)
  <2>1. TypeOK'
    BY <1>1 DEF Rebalance, GiveBack, Versions, shopify, collecting, backstop
  <2>2. Behindhand'
    BY <1>1 DEF Rebalance, Behindhand
  <2>3. SingleWriter'
    BY <1>1 DEF Rebalance, SingleWriter, RowsOf
  <2>4. QED
    BY <2>1, <2>2, <2>3
<1>2. CASE Crash(n)
  <2>0. norder[n] \in Orders /\ 0 \in Versions
    BY <1>2 DEF Crash, Versions
  <2>1. TypeOK'
    <3>1. jobs' \in [Orders -> Nat] /\ faults' \in Nat
      BY <1>2, <2>0 DEF Crash, GiveBack
    <3>2. QED
      BY <1>2, <2>0, <3>1 DEF Crash, shopify, collecting, backstop
  <2>2. Behindhand' /\ SingleWriter'
    BY <1>2 DEF Crash, Behindhand, SingleWriter, RowsOf
  <2>3. QED
    BY <2>1, <2>2
<1>3. QED
  BY <1>1, <1>2

LEMMA NextInv == Inv /\ [Next]_vars => Inv'
<1> SUFFICES ASSUME Inv, [Next]_vars PROVE Inv'
  OBVIOUS
<1>1. ASSUME NEW o \in Orders, DropJob(o) PROVE Inv'
  <2>1. TypeOK'
    BY <1>1, IngestionAssumption
    DEF DropJob, Inv, TypeOK, shopify, collecting, normalising, backstop
  <2>2. QED
    BY <1>1, <2>1, Untouched DEF DropJob, writing, normalising
<1>2. CASE UNCHANGED vars
  BY <1>2, Untouched
  DEF vars, Inv, TypeOK, writing, shopify, collecting, normalising, backstop
<1>3. QED
  BY <1>1, <1>2, EnvironmentInv, CollectInv, SweepInv, ReadRawInv, WriteInv, HandOverInv
  DEF Next, Normalise

LEMMA InvHolds == Spec => []Inv
BY InitInv, NextInv, PTL DEF Spec

\* Type correctness of the pipeline for every catalog of orders and workers.
THEOREM IngestionTypes == Spec => []TypeOK
BY InvHolds, PTL DEF Inv

\* Duplicate order rows need a normaliser that a rebalance overtook in mid-job.
THEOREM OneRow == Spec => []OneRowUnlessOvertaken
<1>1. Inv => OneRowUnlessOvertaken
  BY DEF Inv, SingleWriter, OneRowUnlessOvertaken, Duplicated
<1>2. QED
  BY <1>1, InvHolds, PTL

\* And so does an order row that goes back to an older version.
THEOREM RowsNeverGoBack == Spec => RowsGoForward
<1> DEFINE Forward == \A o \in Orders, n \in Normalisers :
                          rows'[o][n] < rows[o][n] => overtaken
<1>1. Inv /\ [Next]_vars => [Forward]_vars
  <2> SUFFICES ASSUME Inv, Next PROVE Forward
    BY DEF vars
  <2> USE DEF Inv, TypeOK, Versions
  <2>1. ASSUME NEW n \in Normalisers, InsertRow(n) PROVE Forward
    BY <2>1 DEF InsertRow, SingleWriter
  <2>2. ASSUME NEW n \in Normalisers, OverwriteRow(n) PROVE Forward
    BY <2>2 DEF OverwriteRow, SingleWriter
  <2>3. ASSUME UNCHANGED rows PROVE Forward
    BY <2>3
  <2>4. Environment \/ Collect \/ Sweep => UNCHANGED rows
    BY DEF Environment, Collect, Sweep, ChangeOrder, LeaveWindow, SuspendShop,
           ReactivateShop, DropEvent, FetchOrder, StoreRaw, StoreFails, ListRecent,
           Compare, SweepFails, RepublishOrder
  <2>5. ASSUME NEW n \in Normalisers, NEW o \in Orders,
               ReadRaw(n, o) \/ FindNoRow(n) \/ UpsertFails(n) \/ Rebalance(n)
                   \/ Crash(n) \/ DropJob(o)
        PROVE  UNCHANGED rows
    BY <2>5 DEF ReadRaw, FindNoRow, UpsertFails, Rebalance, Crash, DropJob
  <2>6. ASSUME NEW n \in Normalisers,
               FindNoRow(n) \/ UpsertFails(n) \/ Rebalance(n) \/ Crash(n)
        PROVE  UNCHANGED rows
    BY <2>6 DEF FindNoRow, UpsertFails, Rebalance, Crash
  <2>7. ASSUME NEW o \in Orders, DropJob(o) PROVE UNCHANGED rows
    BY <2>7 DEF DropJob
  <2>8. QED
    BY <2>1, <2>2, <2>3, <2>4, <2>5, <2>6, <2>7 DEF Next, Normalise
<1>2. QED
  BY <1>1, InvHolds, PTL DEF Spec, RowsGoForward
=============================================================================
