-------------------------- MODULE CommissionProofs --------------------------
(***************************************************************************)
(* Proofs about CommissionCharging, for any set of commissions, shops and  *)
(* workers, any number of disruptions and any classification of Shopify's  *)
(* user errors; and about CommissionReconciler, whose passes, however many *)
(* overlap, cannot break what was proved of charging.                      *)
(***************************************************************************)
EXTENDS CommissionReconciler, TLAPS

(* What the operations on a partition keep.                                *)

\* Appending a record keeps the types of the partition.
LEMMA AppendTypes ==
    ASSUME NEW Message, KafkaTypeOK(Message),
           NEW m \in Message, NEW n \in 1 .. 2, Append1(m, n)
    PROVE  KafkaTypeOK(Message)'
<1>1. /\ log' \in Seq(Message)
      /\ Len(log) \in Nat
      /\ Len(log') \in Nat
      /\ Len(log) <= Len(log')
  BY DEF Append1, KafkaTypeOK
<1>2. QED
  BY <1>1 DEF Append1, KafkaTypeOK, NoOffset

\* So does everything a member of the group does to it.
LEMMA MemberTypes ==
    ASSUME NEW Message, KafkaTypeOK(Message), NEW w \in Members,
           \/ Assign(w)
           \/ \E m \in Message : Fetch(w, m)
           \/ CommitPosition(w)
           \/ Leave(w)
           \/ UNCHANGED kafkaVars
    PROVE  KafkaTypeOK(Message)'
<1>0. Len(log) \in Nat
  BY DEF KafkaTypeOK
<1>1. CASE Assign(w)
  BY <1>0, <1>1 DEF Assign, KafkaTypeOK, NoOffset
<1>2. CASE \E m \in Message : Fetch(w, m)
  BY <1>0, <1>2 DEF Fetch, KafkaTypeOK
<1>3. CASE CommitPosition(w)
  BY <1>0, <1>3 DEF CommitPosition, KafkaTypeOK
<1>4. CASE Leave(w)
  BY <1>0, <1>4 DEF Leave, KafkaTypeOK, Nobody
<1>5. CASE UNCHANGED kafkaVars
  BY <1>5 DEF kafkaVars, KafkaTypeOK
<1>6. QED
  BY <1>1, <1>2, <1>3, <1>4, <1>5

\* A worker that is handling a record handles the record of a commission.
BusyHasCommission ==
    \A w \in Members : pc[w] # "idle" => cur[w] \in Commissions

TypeInv == TypeOK /\ BusyHasCommission

\* Shopify has created exactly one usage record for each key it has seen, and
\* the key of a commission is the commission itself.
OneRecordPerKey ==
    \A c \in Commissions : charges[c] = IF c \in usedKeys THEN 1 ELSE 0

\* A worker about to write RECORDED, like a row that says RECORDED, has a
\* usage record behind it.
RecordedHasKey ==
    /\ \A w \in Members : pc[w] = "RECORDED" => cur[w] \in usedKeys
    /\ \A c \in Commissions :
          status[c] = "RECORDED" => c \in usedKeys /\ usageRecord[c]

ChargeInv == OneRecordPerKey /\ RecordedHasKey

-----------------------------------------------------------------------------
LEMMA InitTypes == Init => TypeInv
<1>1. Init => KafkaTypeOK(Commissions)
  BY ChargingAssumption DEF Init, KafkaInit, KafkaTypeOK, NoOffset, Nobody
<1>2. QED
  BY <1>1, ChargingAssumption
  DEF Init, TypeInv, TypeOK, BusyHasCommission, Statuses, Phases, Outcomes,
      NoCommission

LEMMA NextTypes == TypeInv /\ [Next]_vars => TypeInv'
<1> SUFFICES ASSUME TypeInv, [Next]_vars PROVE TypeInv'
  OBVIOUS
<1> USE ChargingAssumption
        DEF TypeInv, BusyHasCommission, Statuses, Phases, Outcomes,
            rows, creation, handlers, shopify
<1>1. ASSUME NEW c \in Commissions, CreateCommission(c) PROVE TypeInv'
  BY <1>1 DEF CreateCommission, InsertPaid, Announce, TypeOK, kafkaVars, KafkaTypeOK
<1>2. ASSUME NEW c \in Commissions, PublishUsageEvent(c) PROVE TypeInv'
  <2>1. KafkaTypeOK(Commissions)'
    BY <1>2, AppendTypes DEF PublishUsageEvent, TypeOK
  <2>2. QED
    BY <1>2, <2>1 DEF PublishUsageEvent, TypeOK
<1>3. ASSUME NEW c \in Commissions, LoseUsageEvent(c) PROVE TypeInv'
  BY <1>3 DEF LoseUsageEvent, TypeOK, kafkaVars, KafkaTypeOK
<1>4. ASSUME NEW w \in Members, Receive(w) PROVE TypeInv'
  <2>1. KafkaTypeOK(Commissions)'
    BY <1>4, MemberTypes DEF Receive, TypeOK
  <2>2. QED
    BY <1>4, <2>1 DEF Receive, TypeOK
<1>5. ASSUME NEW w \in Members, SkipSettled(w) PROVE TypeInv'
  BY <1>5 DEF SkipSettled, TypeOK, kafkaVars, KafkaTypeOK
<1>6. ASSUME NEW w \in Members, RejectUnchargeable(w) PROVE TypeInv'
  BY <1>6 DEF RejectUnchargeable, TypeOK, kafkaVars, KafkaTypeOK
<1>7. ASSUME NEW w \in Members, ReadPending(w) PROVE TypeInv'
  BY <1>7 DEF ReadPending, TypeOK, kafkaVars, KafkaTypeOK
<1>8. ASSUME NEW w \in Members, CallShopify(w) PROVE TypeInv'
  <2>1. PICK answer \in {"usage_record", "user_error", "none"} :
               \E o \in Interpret(answer) : pc' = [pc EXCEPT ![w] = o]
    BY <1>8 DEF CallShopify
  <2>2. Interpret(answer) \subseteq Outcomes
    BY DEF Interpret
  <2>3. charges' \in [Commissions -> Nat]
    BY <1>8 DEF CallShopify, CreateUsageRecord, TypeOK
  <2>4. QED
    BY <1>8, <2>1, <2>2, <2>3 DEF CallShopify, TypeOK, kafkaVars, KafkaTypeOK
<1>9. ASSUME NEW w \in Members, SettleTooLate(w) PROVE TypeInv'
  BY <1>9 DEF SettleTooLate, TypeOK, kafkaVars, KafkaTypeOK
<1>10. ASSUME NEW w \in Members, Settle(w) PROVE TypeInv'
  BY <1>10 DEF Settle, WriteVerdict, TypeOK, kafkaVars, KafkaTypeOK
<1>11. ASSUME NEW w \in Members, DatabaseError(w) PROVE TypeInv'
  BY <1>11 DEF DatabaseError, TypeOK, kafkaVars, KafkaTypeOK
<1>12. ASSUME NEW w \in Members, CommitRecord(w) PROVE TypeInv'
  <2>1. KafkaTypeOK(Commissions)'
    BY <1>12, MemberTypes DEF CommitRecord, TypeOK
  <2>2. QED
    BY <1>12, <2>1 DEF CommitRecord, TypeOK
<1>13. ASSUME NEW w \in Members, Crash(w) PROVE TypeInv'
  <2>1. KafkaTypeOK(Commissions)'
    BY <1>13, MemberTypes DEF Crash, TypeOK
  <2>2. QED
    BY <1>13, <2>1 DEF Crash, TypeOK
<1>14. ASSUME NEW w \in Members, Rebalance(w) PROVE TypeInv'
  <2>1. KafkaTypeOK(Commissions)'
    BY <1>14, MemberTypes DEF Rebalance, TypeOK
  <2>2. QED
    BY <1>14, <2>1 DEF Rebalance, TypeOK
<1>15. ASSUME NEW w \in Members, TakeOver(w) PROVE TypeInv'
  <2>1. KafkaTypeOK(Commissions)'
    BY <1>15, MemberTypes DEF TakeOver, TypeOK
  <2>2. QED
    BY <1>15, <2>1 DEF TakeOver, TypeOK
<1>16. ASSUME NEW s \in Shops, ChangeSubscription(s) PROVE TypeInv'
  BY <1>16 DEF ChangeSubscription, TypeOK, kafkaVars, KafkaTypeOK
<1>17. CASE UNCHANGED vars
  BY <1>17 DEF vars, TypeOK, kafkaVars, KafkaTypeOK
<1>18. QED
  BY <1>1, <1>2, <1>3, <1>4, <1>5, <1>6, <1>7, <1>8, <1>9, <1>10, <1>11,
     <1>12, <1>13, <1>14, <1>15, <1>16, <1>17
  DEF Next, Handle

\* Every variable keeps its type, for every value of the constants.
THEOREM TypeCorrect == Spec => []TypeOK
<1>1. TypeInv => TypeOK
  BY DEF TypeInv
<1>2. QED
  BY <1>1, InitTypes, NextTypes, PTL DEF Spec

-----------------------------------------------------------------------------
(* One charge per commission.                                              *)

LEMMA InitCharges == Init => ChargeInv
BY DEF Init, ChargeInv, OneRecordPerKey, RecordedHasKey

\* Only a call of Shopify and a verdict can disturb ChargeInv; every other
\* step leaves the keys and the rows alone, and takes no worker to RECORDED.
LEMMA NextCharges == TypeInv /\ ChargeInv /\ [Next]_vars => ChargeInv'
<1> SUFFICES ASSUME TypeInv, ChargeInv, [Next]_vars PROVE ChargeInv'
  OBVIOUS
<1> USE DEF TypeInv, BusyHasCommission, ChargeInv, OneRecordPerKey,
            RecordedHasKey, rows, creation, handlers, shopify, Outcomes
<1>1. ASSUME NEW c \in Commissions,
             \/ CreateCommission(c) \/ PublishUsageEvent(c) \/ LoseUsageEvent(c)
      PROVE  ChargeInv'
  BY <1>1 DEF CreateCommission, InsertPaid, PublishUsageEvent, LoseUsageEvent, TypeOK
<1>2. ASSUME NEW w \in Members, Receive(w) PROVE ChargeInv'
  BY <1>2 DEF Receive, TypeOK
<1>3. ASSUME NEW w \in Members,
             SkipSettled(w) \/ RejectUnchargeable(w) \/ ReadPending(w)
      PROVE  ChargeInv'
  BY <1>3 DEF SkipSettled, RejectUnchargeable, ReadPending, TypeOK
<1>4. ASSUME NEW w \in Members, CallShopify(w) PROVE ChargeInv'
  <2>1. cur[w] \in Commissions
    BY <1>4 DEF CallShopify
  <2>2. PICK answer \in {"usage_record", "user_error", "none"} :
          /\ \/ /\ answer \in {"usage_record", "none"}
                /\ CreateUsageRecord(cur[w], cur[w])
             \/ /\ answer \in {"user_error", "none"}
                /\ UNCHANGED shopify
          /\ \E o \in Interpret(answer) : pc' = [pc EXCEPT ![w] = o]
    BY <1>4 DEF CallShopify, IdempotencyKey
  <2>3. OneRecordPerKey' /\ usedKeys \subseteq usedKeys'
    BY <2>1, <2>2 DEF CreateUsageRecord, TypeOK
  <2>4. answer = "usage_record" => cur[w] \in usedKeys'
    BY <2>2 DEF CreateUsageRecord
  <2>5. pc' = [pc EXCEPT ![w] = pc'[w]]
        /\ (pc'[w] = "RECORDED" => answer = "usage_record")
    BY <2>2, ChargingAssumption DEF Interpret, TypeOK
  <2>6. UNCHANGED <<status, usageRecord, cur>>
    BY <1>4 DEF CallShopify
  <2>7. QED
    BY <2>3, <2>4, <2>5, <2>6 DEF TypeOK
<1>5. ASSUME NEW w \in Members, SettleTooLate(w) \/ DatabaseError(w)
      PROVE  ChargeInv'
  BY <1>5 DEF SettleTooLate, DatabaseError, TypeOK
<1>6. ASSUME NEW w \in Members, Settle(w) PROVE ChargeInv'
  BY <1>6 DEF Settle, WriteVerdict, TypeOK
<1>7. ASSUME NEW w \in Members, CommitRecord(w) PROVE ChargeInv'
  BY <1>7 DEF CommitRecord, TypeOK
<1>8. ASSUME NEW w \in Members, Crash(w) \/ Rebalance(w) \/ TakeOver(w)
      PROVE  ChargeInv'
  BY <1>8 DEF Crash, Rebalance, TakeOver, TypeOK
<1>9. ASSUME NEW s \in Shops, ChangeSubscription(s) PROVE ChargeInv'
  BY <1>9 DEF ChangeSubscription
<1>10. CASE UNCHANGED vars
  BY <1>10 DEF vars
<1>11. QED
  BY <1>1, <1>2, <1>3, <1>4, <1>5, <1>6, <1>7, <1>8, <1>9, <1>10
  DEF Next, Handle

LEMMA ChargesAlways == Spec => [](TypeInv /\ ChargeInv)
BY InitTypes, NextTypes, InitCharges, NextCharges, PTL DEF Spec

\* However often a commission is redelivered, by however many workers it is
\* handled at once, Shopify bills it at most once.
THEOREM ChargedAtMostOnce == Spec => []NoDoubleCharge
<1>1. TypeInv /\ ChargeInv => NoDoubleCharge
  BY DEF ChargeInv, OneRecordPerKey, NoDoubleCharge
<1>2. QED
  BY <1>1, ChargesAlways, PTL

\* A RECORDED row always has its usage record on the invoice.
THEOREM RecordedMeansCharged == Spec => []RecordedIsCharged
<1>1. TypeInv /\ ChargeInv => RecordedIsCharged
  BY DEF ChargeInv, OneRecordPerKey, RecordedHasKey, RecordedIsCharged
<1>2. QED
  BY <1>1, ChargesAlways, PTL

-----------------------------------------------------------------------------
(* Verdicts.                                                               *)

\* The only steps that touch a row: the insert, and Phase 3 on a row that is
\* still PENDING when it is locked.
LEMMA RowSteps ==
    ASSUME TypeInv, [Next]_vars
    PROVE  \/ UNCHANGED status
           \/ \E c \in Commissions :
                 /\ status[c] = "absent"
                 /\ status' = [status EXCEPT ![c] = "PENDING"]
                 /\ UNCHANGED shopify
           \/ \E w \in Members :
                 /\ cur[w] \in Commissions
                 /\ status[cur[w]] = "PENDING"
                 /\ pc[w] \in Outcomes
                 /\ status' = [status EXCEPT ![cur[w]] = pc[w]]
                 /\ UNCHANGED shopify
<1> USE DEF rows
<1>1. ASSUME NEW c \in Commissions, CreateCommission(c)
      PROVE  /\ status[c] = "absent"
             /\ status' = [status EXCEPT ![c] = "PENDING"]
             /\ UNCHANGED shopify
  BY <1>1 DEF CreateCommission, InsertPaid
<1>2. ASSUME NEW w \in Members, Settle(w)
      PROVE  /\ cur[w] \in Commissions
             /\ status[cur[w]] = "PENDING"
             /\ pc[w] \in Outcomes
             /\ status' = [status EXCEPT ![cur[w]] = pc[w]]
             /\ UNCHANGED shopify
  BY <1>2 DEF Settle, WriteVerdict, TypeInv, BusyHasCommission, Outcomes
<1>3. ASSUME NEW c \in Commissions, PublishUsageEvent(c) \/ LoseUsageEvent(c)
      PROVE  UNCHANGED status
  BY <1>3 DEF PublishUsageEvent, LoseUsageEvent
<1>4. ASSUME NEW w \in Members,
             \/ Receive(w) \/ SkipSettled(w) \/ RejectUnchargeable(w)
             \/ ReadPending(w) \/ CallShopify(w) \/ SettleTooLate(w)
             \/ DatabaseError(w) \/ CommitRecord(w) \/ Crash(w)
             \/ Rebalance(w) \/ TakeOver(w)
      PROVE  UNCHANGED status
  BY <1>4 DEF Receive, SkipSettled, RejectUnchargeable, ReadPending,
              CallShopify, SettleTooLate, DatabaseError, CommitRecord, Crash,
              Rebalance, TakeOver
<1>5. ASSUME NEW s \in Shops, ChangeSubscription(s) PROVE UNCHANGED status
  BY <1>5 DEF ChangeSubscription
<1>6. CASE UNCHANGED vars
  BY <1>6 DEF vars
<1>7. QED
  BY <1>1, <1>2, <1>3, <1>4, <1>5, <1>6 DEF Next, Handle

\* No worker, however late, overwrites a RECORDED or FAILED verdict.
THEOREM VerdictsAreFinal == Spec => VerdictIsFinal
<1>1. TypeInv /\ [Next]_vars =>
        [\A c \in Commissions :
            status[c] \in {"RECORDED", "FAILED"} => status'[c] = status[c]]_vars
  <2> SUFFICES ASSUME TypeInv, [Next]_vars, NEW c \in Commissions,
                      status[c] \in {"RECORDED", "FAILED"}
               PROVE  status'[c] = status[c]
    OBVIOUS
  <2>1. QED
    BY RowSteps DEF TypeInv, TypeOK
<1>2. QED
  BY <1>1, InitTypes, NextTypes, PTL DEF Spec, VerdictIsFinal

-----------------------------------------------------------------------------
(* Refinement.                                                             *)

VerdictOf(st) ==
    [c \in Commissions |-> IF st[c] \in Outcomes THEN st[c] ELSE "open"]

\* Shopify's books change in one step only, which bills one commission.
LEMMA BillSteps ==
    ASSUME TypeInv, ChargeInv, [Next]_vars
    PROVE  \/ UNCHANGED charges
           \/ \E c \in Commissions :
                 /\ charges[c] = 0
                 /\ charges' = [charges EXCEPT ![c] = 1]
                 /\ UNCHANGED status
<1> USE DEF shopify
<1>1. ASSUME NEW w \in Members, CallShopify(w)
      PROVE  \/ UNCHANGED charges
             \/ \E c \in Commissions :
                   /\ charges[c] = 0
                   /\ charges' = [charges EXCEPT ![c] = 1]
                   /\ UNCHANGED status
  <2>1. cur[w] \in Commissions /\ UNCHANGED status
    BY <1>1 DEF CallShopify, TypeInv, BusyHasCommission, rows
  <2>2. UNCHANGED charges \/ CreateUsageRecord(cur[w], cur[w])
    BY <1>1 DEF CallShopify, IdempotencyKey
  <2>3. QED
    BY <2>1, <2>2 DEF CreateUsageRecord, ChargeInv, OneRecordPerKey
<1>2. ASSUME NEW c \in Commissions,
             \/ CreateCommission(c) \/ PublishUsageEvent(c) \/ LoseUsageEvent(c)
      PROVE  UNCHANGED charges
  BY <1>2 DEF CreateCommission, InsertPaid, PublishUsageEvent, LoseUsageEvent
<1>3. ASSUME NEW w \in Members,
             \/ Receive(w) \/ SkipSettled(w) \/ RejectUnchargeable(w)
             \/ ReadPending(w) \/ SettleTooLate(w) \/ Settle(w)
             \/ DatabaseError(w) \/ CommitRecord(w) \/ Crash(w)
             \/ Rebalance(w) \/ TakeOver(w)
      PROVE  UNCHANGED charges
  BY <1>3 DEF Receive, SkipSettled, RejectUnchargeable, ReadPending,
              SettleTooLate, Settle, DatabaseError, CommitRecord, Crash,
              Rebalance, TakeOver
<1>4. ASSUME NEW s \in Shops, ChangeSubscription(s) PROVE UNCHANGED charges
  BY <1>4 DEF ChangeSubscription
<1>5. CASE UNCHANGED vars
  BY <1>5 DEF vars
<1>6. QED
  BY <1>1, <1>2, <1>3, <1>4, <1>5 DEF Next, Handle

LEMMA RefinesInit == Init => Abstract!Init
BY DEF Init, Abstract!Init, Outcomes

LEMMA RefinesStep ==
    TypeInv /\ ChargeInv /\ [Next]_vars
        => [Abstract!Next]_<<charges, VerdictOf(status)>>
<1> SUFFICES ASSUME TypeInv, ChargeInv, [Next]_vars
             PROVE  Abstract!Next \/ UNCHANGED <<charges, VerdictOf(status)>>
  OBVIOUS
<1> USE DEF VerdictOf, Outcomes
<1>1. CASE UNCHANGED charges /\ UNCHANGED status
  BY <1>1
<1>2. ASSUME NEW c \in Commissions, charges[c] = 0,
             charges' = [charges EXCEPT ![c] = 1], UNCHANGED status
      PROVE  Abstract!Next
  <2>1. Abstract!Bill(c)
    BY <1>2 DEF Abstract!Bill
  <2>2. QED
    BY <2>1 DEF Abstract!Next
<1>3. ASSUME NEW c \in Commissions, status[c] = "absent", UNCHANGED shopify,
             status' = [status EXCEPT ![c] = "PENDING"]
      PROVE  UNCHANGED <<charges, VerdictOf(status)>>
  BY <1>3 DEF shopify, TypeInv, TypeOK
<1>4. ASSUME NEW w \in Members, cur[w] \in Commissions, pc[w] \in Outcomes,
             status[cur[w]] = "PENDING", UNCHANGED shopify,
             status' = [status EXCEPT ![cur[w]] = pc[w]]
      PROVE  Abstract!Next
  <2>1. PICK c \in Commissions, v \in Abstract!Verdicts :
          c = cur[w] /\ v = pc[w]
    BY <1>4 DEF Abstract!Verdicts
  <2>2. v = "RECORDED" => charges[c] = 1
    BY <1>4, <2>1 DEF ChargeInv, OneRecordPerKey, RecordedHasKey
  <2>3. VerdictOf(status)' = [VerdictOf(status) EXCEPT ![c] = v]
    BY <1>4, <2>1 DEF TypeInv, TypeOK
  <2>4. Abstract!Decide(c, v)
    BY <1>4, <2>1, <2>2, <2>3 DEF Abstract!Decide, shopify
  <2>5. QED
    BY <2>4 DEF Abstract!Next
<1>5. QED
  BY <1>1, <1>2, <1>3, <1>4, RowSteps, BillSteps

\* Charging implements ChargeOnce: every step of the topic, the workers and
\* Shopify is one bill, one verdict, or invisible.
THEOREM ChargingRefinesChargeOnce == Spec => ImplementsChargeOnce
BY RefinesInit, RefinesStep, ChargesAlways, PTL
DEF Spec, ImplementsChargeOnce, Abstract!Spec, VerdictOf

-----------------------------------------------------------------------------
(* Delivery.                                                               *)

\* Everything the topic, a publisher or a worker holds has been inserted.
OnlyInserted ==
    /\ \A c \in publishing : status[c] # "absent"
    /\ \A i \in 1 .. Len(log) : status[log[i]] # "absent"
    /\ \A w \in Members : pc[w] # "idle" => status[cur[w]] # "absent"

\* A row that was inserted is still to be published, on the topic, dropped, or
\* withheld.
Traceable ==
    \A c \in Commissions :
        status[c] # "absent" =>
            \/ c \in publishing \cup dropped \cup withheld
            \/ \E i \in 1 .. Len(log) : log[i] = c

\* What the owner has taken from the partition is handled, except for the
\* record it is busy with; what the group has committed is handled.
TakenIsHandled ==
    /\ \A w \in Members : pc[w] = "commit" => Handled(cur[w])
    /\ \A w \in Members : owner = w =>
          \A i \in 1 .. position[w] :
              Handled(log[i]) \/ (pc[w] # "idle" /\ cur[w] = log[i])
    /\ committed # NoOffset =>
          \A i \in 1 .. committed : Handled(log[i])

DeliveryInv ==
    /\ OnlyInserted
    /\ Traceable
    /\ StartOffset = 0 => committed # NoOffset /\ TakenIsHandled

LEMMA InitDelivery == Init => DeliveryInv
BY DEF Init, KafkaInit, DeliveryInv, OnlyInserted, Traceable, TakenIsHandled,
       NoOffset, Nobody, Outcomes

\* A step that leaves the topic alone keeps what was handled handled.
LEMMA HandledStable ==
    ASSUME TypeInv, [Next]_vars
    PROVE  \A c \in Commissions :
              /\ status[c] # "absent" => status'[c] # "absent"
              /\ status[c] # "absent" /\ Handled(c) => Handled(c)'
<1>1. dropped \subseteq dropped'
  <2>1. ASSUME NEW c \in Commissions,
               \/ CreateCommission(c) \/ PublishUsageEvent(c)
               \/ LoseUsageEvent(c)
        PROVE  dropped \subseteq dropped'
    BY <2>1 DEF CreateCommission, InsertPaid, PublishUsageEvent, LoseUsageEvent
  <2>2. ASSUME NEW w \in Members,
               \/ Receive(w) \/ Handle(w) \/ DatabaseError(w)
               \/ CommitRecord(w) \/ Crash(w) \/ Rebalance(w) \/ TakeOver(w)
        PROVE  dropped \subseteq dropped'
    BY <2>2 DEF Receive, Handle, SkipSettled, RejectUnchargeable, ReadPending,
                CallShopify, SettleTooLate, Settle, DatabaseError,
                CommitRecord, Crash, Rebalance, TakeOver
  <2>3. ASSUME NEW s \in Shops, ChangeSubscription(s)
        PROVE  dropped \subseteq dropped'
    BY <2>3 DEF ChangeSubscription
  <2>4. QED
    BY <2>1, <2>2, <2>3 DEF Next, vars
<1>2. QED
  BY <1>1, RowSteps DEF Handled, TypeInv, TypeOK, Outcomes

LEMMA NextDelivery == TypeInv /\ DeliveryInv /\ [Next]_vars => DeliveryInv'
<1> SUFFICES ASSUME TypeInv, DeliveryInv, [Next]_vars PROVE DeliveryInv'
  OBVIOUS
<1> DEFINE Stable(c) ==
      /\ status[c] # "absent" => status'[c] # "absent"
      /\ status[c] # "absent" /\ Handled(c) => Handled(c)'
<1>a. \A c \in Commissions : Stable(c)
  BY HandledStable
<1>t. /\ log \in Seq(Commissions)
      /\ Len(log) \in Nat
      /\ \A i \in 1 .. Len(log) : log[i] \in Commissions
      /\ position \in [Members -> 0 .. Len(log)]
      /\ committed \in {NoOffset} \cup (0 .. Len(log))
      /\ publishing \subseteq Commissions
      /\ withheld \subseteq Commissions
      /\ pc \in [Members -> Phases]
      /\ cur \in [Members -> Commissions \cup {NoCommission}]
  BY DEF TypeInv, TypeOK, KafkaTypeOK
<1> USE DEF TypeInv, BusyHasCommission, DeliveryInv, rows, creation, handlers, shopify,
            kafkaVars, NoOffset
<1>1. ASSUME NEW c \in Commissions, CreateCommission(c) PROVE DeliveryInv'
  <2>1. /\ status[c] = "absent" /\ status' = [status EXCEPT ![c] = "PENDING"]
        /\ \/ publishing' = publishing \cup {c} /\ UNCHANGED withheld
           \/ withheld' = withheld \cup {c} /\ UNCHANGED publishing
        /\ UNCHANGED <<dropped, log, committed, owner, position, pc, cur>>
    BY <1>1 DEF CreateCommission, InsertPaid, Announce
  <2>2. OnlyInserted'
    <3>1. /\ status'[c] # "absent"
          /\ \A d \in Commissions : status[d] # "absent" => status'[d] # "absent"
      BY <2>1 DEF TypeOK
    <3>2. QED
      BY <2>1, <3>1, <1>t DEF OnlyInserted
  <2>3. Traceable'
    BY <2>1, <1>t DEF Traceable, TypeOK
  <2>4. OnlyInserted /\ TakenIsHandled => TakenIsHandled'
    BY <2>1, <1>a, <1>t DEF TakenIsHandled, OnlyInserted
  <2>5. QED
    BY <2>1, <2>2, <2>3, <2>4
<1>2. ASSUME NEW c \in Commissions, PublishUsageEvent(c) PROVE DeliveryInv'
  <2>1. PICK copies \in 1 .. 2 : Append1(c, copies)
    BY <1>2 DEF PublishUsageEvent
  <2>2. /\ Len(log') \in Nat /\ Len(log) < Len(log')
        /\ \A i \in 1 .. Len(log) : log'[i] = log[i]
        /\ \A i \in (Len(log) + 1) .. Len(log') : log'[i] = c
    BY <2>1, <1>t DEF Append1
  <2>3. /\ UNCHANGED <<status, withheld, dropped, committed, owner, position, pc, cur>>
        /\ c \in publishing
        /\ publishing' = publishing \ {c}
    BY <1>2, <2>1 DEF PublishUsageEvent, Append1
  <2>4. OnlyInserted'
    <3>1. \A d \in publishing' : status'[d] # "absent"
      BY <2>3 DEF OnlyInserted
    <3>2. \A i \in 1 .. Len(log') : status'[log'[i]] # "absent"
      <4>1. TAKE i \in 1 .. Len(log')
      <4>2. CASE i \in 1 .. Len(log)
        BY <2>2, <2>3, <4>2 DEF OnlyInserted
      <4>3. CASE i \in (Len(log) + 1) .. Len(log')
        BY <2>2, <2>3, <4>3 DEF OnlyInserted
      <4>4. QED
        BY <2>2, <4>2, <4>3, <1>t
    <3>3. QED
      BY <2>3, <3>1, <3>2 DEF OnlyInserted
  <2>5. Traceable'
    <3>1. Len(log') \in 1 .. Len(log') /\ log'[Len(log')] = c
      BY <2>2, <1>t
    <3>2. SUFFICES ASSUME NEW d \in Commissions, status'[d] # "absent"
                   PROVE  \/ d \in publishing' \cup dropped' \cup withheld'
                          \/ \E i \in 1 .. Len(log') : log'[i] = d
      BY DEF Traceable
    <3>3. CASE d = c
      BY <3>1, <3>3
    <3>4. CASE d # c /\ d \in publishing \cup dropped \cup withheld
      BY <2>3, <3>4
    <3>5. CASE \E i \in 1 .. Len(log) : log[i] = d
      <4>1. PICK i \in 1 .. Len(log) : log[i] = d
        BY <3>5
      <4>2. i \in 1 .. Len(log') /\ log'[i] = d
        BY <2>2, <4>1, <1>t
      <4>3. QED
        BY <4>2
    <3>6. QED
      BY <2>3, <3>2, <3>3, <3>4, <3>5 DEF Traceable
  <2>6. TakenIsHandled => TakenIsHandled'
    <3>1. /\ \A w \in Members : \A i \in 1 .. position[w] : log'[i] = log[i]
          /\ committed # NoOffset => \A i \in 1 .. committed : log'[i] = log[i]
      BY <2>2, <1>t
    <3>2. QED
      BY <2>3, <3>1 DEF TakenIsHandled, Handled
  <2>7. QED
    BY <2>3, <2>4, <2>5, <2>6
<1>3. ASSUME NEW c \in Commissions, LoseUsageEvent(c) PROVE DeliveryInv'
  BY <1>3, <1>a, <1>t
  DEF LoseUsageEvent, OnlyInserted, Traceable, TakenIsHandled
<1>4. ASSUME NEW w \in Members, Receive(w) PROVE DeliveryInv'
  <2>1. PICK c \in Commissions :
          /\ owner = w /\ position[w] < Len(log)
          /\ c = log[position[w] + 1]
          /\ position' = [position EXCEPT ![w] = @ + 1]
          /\ UNCHANGED <<log, committed, owner>>
          /\ cur' = [cur EXCEPT ![w] = c]
    BY <1>4 DEF Receive, Fetch
  <2>2. /\ pc[w] = "idle" /\ pc' = [pc EXCEPT ![w] = "read"]
        /\ UNCHANGED <<status, creation, dropped>>
    BY <1>4 DEF Receive
  <2>3. OnlyInserted'
    BY <2>1, <2>2, <1>t DEF OnlyInserted
  <2>4. Traceable'
    BY <2>1, <2>2, <1>t DEF Traceable
  <2>5. TakenIsHandled => TakenIsHandled'
    BY <2>1, <2>2, <1>t DEF TakenIsHandled, Handled
  <2>6. QED
    BY <2>1, <2>3, <2>4, <2>5
\* A worker goes on with the record it has.
<1>5. ASSUME NEW w \in Members, NEW x \in Phases \ {"idle"}, pc[w] # "idle",
             pc' = [pc EXCEPT ![w] = x],
             x = "commit" => Handled(cur[w])',
             UNCHANGED <<creation, cur, kafkaVars>>,
             dropped \subseteq dropped',
             \A c \in Commissions : status[c] = "absent" => status'[c] = "absent"
      PROVE  DeliveryInv'
  <2>1. OnlyInserted'
    BY <1>5, <1>a, <1>t DEF OnlyInserted
  <2>2. Traceable'
    BY <1>5, <1>a, <1>t DEF Traceable
  <2>3. TakenIsHandled => TakenIsHandled'
    <3> HAVE TakenIsHandled
    <3>1. \A v \in Members : pc'[v] = "commit" => Handled(cur[v])'
      BY <1>5, <1>a, <1>t DEF TakenIsHandled, OnlyInserted
    <3>2. \A v \in Members : owner = v =>
            \A i \in 1 .. position[v] :
               Handled(log[i])' \/ (pc'[v] # "idle" /\ cur[v] = log[i])
      BY <1>5, <1>a, <1>t DEF TakenIsHandled, OnlyInserted
    <3>3. committed # NoOffset => \A i \in 1 .. committed : Handled(log[i])'
      BY <1>5, <1>a, <1>t DEF TakenIsHandled, OnlyInserted
    <3>4. QED
      BY <1>5, <3>1, <3>2, <3>3 DEF TakenIsHandled
  <2>4. QED
    BY <1>5, <2>1, <2>2, <2>3
<1>6. ASSUME NEW w \in Members, SkipSettled(w) \/ SettleTooLate(w)
      PROVE  DeliveryInv'
  BY <1>6, <1>5
  DEF SkipSettled, SettleTooLate, Handled, Phases, Outcomes
<1>7. ASSUME NEW w \in Members, RejectUnchargeable(w) \/ DatabaseError(w)
      PROVE  DeliveryInv'
  BY <1>7, <1>5
  DEF RejectUnchargeable, DatabaseError, Handled, Phases, Outcomes
<1>8. ASSUME NEW w \in Members, ReadPending(w) PROVE DeliveryInv'
  BY <1>8, <1>5 DEF ReadPending, Phases
<1>9. ASSUME NEW w \in Members, CallShopify(w) PROVE DeliveryInv'
  <2>1. PICK x \in Outcomes : pc' = [pc EXCEPT ![w] = x]
    BY <1>9 DEF CallShopify, Interpret
  <2>2. QED
    BY <1>9, <2>1, <1>5 DEF CallShopify, Phases, Outcomes
<1>10. ASSUME NEW w \in Members, Settle(w) PROVE DeliveryInv'
  <2>1. cur[w] \in Commissions /\ status' = [status EXCEPT ![cur[w]] = pc[w]]
        /\ pc[w] \in Outcomes /\ status[cur[w]] = "PENDING"
    BY <1>10 DEF Settle, WriteVerdict, Outcomes
  <2>2. /\ Handled(cur[w])'
        /\ \A c \in Commissions : status[c] = "absent" => status'[c] = "absent"
    BY <1>10, <2>1 DEF Settle, Handled, Outcomes, TypeOK
  <2>3. QED
    BY <1>10, <2>1, <2>2, <1>5 DEF Settle, Phases, Outcomes
<1>11. ASSUME NEW w \in Members, CommitRecord(w) PROVE DeliveryInv'
  <2>1. /\ pc[w] = "commit" /\ pc' = [pc EXCEPT ![w] = "idle"]
        /\ cur' = [cur EXCEPT ![w] = NoCommission]
        /\ UNCHANGED <<status, creation, dropped, log, owner, position>>
        /\ committed' = committed \/ (owner = w /\ committed' = position[w])
    BY <1>11 DEF CommitRecord, CommitPosition
  <2>2. OnlyInserted' /\ Traceable'
    BY <2>1, <1>t DEF OnlyInserted, Traceable
  <2>3. TakenIsHandled => TakenIsHandled'
    BY <2>1, <1>t DEF TakenIsHandled, Handled
  <2>4. QED
    BY <2>1, <2>2, <2>3, <1>t
<1>12. ASSUME NEW w \in Members, Crash(w) PROVE DeliveryInv'
  <2>1. /\ owner' # w /\ (owner' = owner \/ owner' = Nobody)
        /\ pc' = [pc EXCEPT ![w] = "idle"]
        /\ UNCHANGED <<status, creation, dropped, log, committed, position, cur>>
    BY <1>12, MembersAssumption DEF Crash, Leave, Nobody
  <2>2. OnlyInserted' /\ Traceable'
    BY <2>1, <1>t DEF OnlyInserted, Traceable
  <2>3. TakenIsHandled => TakenIsHandled'
    BY <2>1, <1>t, MembersAssumption DEF TakenIsHandled, Handled, Nobody
  <2>4. QED
    BY <2>1, <2>2, <2>3
<1>13. ASSUME NEW w \in Members, Rebalance(w) \/ TakeOver(w)
       PROVE  DeliveryInv'
  <2>1. /\ owner' = w
        /\ position' = [position EXCEPT ![w] =
                          IF committed = NoOffset THEN Len(log) ELSE committed]
        /\ UNCHANGED <<status, creation, dropped, log, committed, pc, cur>>
    BY <1>13 DEF Rebalance, TakeOver, Assign
  <2>2. OnlyInserted' /\ Traceable'
    BY <2>1, <1>t DEF OnlyInserted, Traceable
  <2>3. committed # NoOffset /\ TakenIsHandled => TakenIsHandled'
    BY <2>1, <1>t DEF TakenIsHandled, Handled
  <2>4. QED
    BY <2>1, <2>2, <2>3
<1>14. ASSUME NEW s \in Shops, ChangeSubscription(s) PROVE DeliveryInv'
  BY <1>14
  DEF ChangeSubscription, OnlyInserted, Traceable, TakenIsHandled, Handled
<1>15. CASE UNCHANGED vars
  BY <1>15 DEF vars, OnlyInserted, Traceable, TakenIsHandled, Handled
<1>16. QED
  BY <1>1, <1>2, <1>3, <1>4, <1>6, <1>7, <1>8, <1>9, <1>10, <1>11, <1>12,
     <1>13, <1>14, <1>15
  DEF Next, Handle

\* Nothing the topic, the crashes, the rebalances or the commits do strands a
\* commission: whichever is PENDING will be delivered, unless an error about
\* it was logged and swallowed, or its event was withheld from a suspended shop.
THEOREM PendingComes == Spec => []PendingIsOnItsWay
<1>1. TypeInv /\ DeliveryInv => PendingIsOnItsWay
  <2> SUFFICES ASSUME TypeInv, DeliveryInv, StartOffset = 0,
                      NEW c \in Commissions, status[c] = "PENDING",
                      c \notin publishing, c \notin dropped, c \notin withheld
               PROVE  Undelivered(c)
    BY DEF PendingIsOnItsWay
  <2>1. PICK i \in 1 .. Len(log) : log[i] = c
    BY DEF DeliveryInv, Traceable
  <2>2. ~ Handled(log[i])
    BY <2>1 DEF Handled
  <2>3. i \in (committed + 1) .. Len(log)
    BY <2>1, <2>2
    DEF DeliveryInv, TakenIsHandled, TypeInv, TypeOK, KafkaTypeOK, NoOffset
  <2>4. QED
    BY <2>1, <2>3 DEF Undelivered
<1>2. QED
  BY <1>1, InitTypes, NextTypes, InitDelivery, NextDelivery, PTL DEF Spec

-----------------------------------------------------------------------------
(* With the reconciler.                                                    *)

\* All that a step of a pass may do to the rows, the topic and Shopify: reopen
\* CAPPED rows, lift a pause, or append one record.
PassStep ==
    \/ UNCHANGED vars
    \/ /\ \E C \in SUBSET Commissions :
             /\ \A c \in C : status[c] = "CAPPED"
             /\ status' = [c \in Commissions |->
                              IF c \in C THEN "PENDING" ELSE status[c]]
       /\ UNCHANGED <<usageRecord, paused, sub, creation, dropped, handlers,
                      shopify, disruptions, kafkaVars>>
    \/ /\ \E s \in Shops : paused' = [paused EXCEPT ![s] = FALSE]
       /\ UNCHANGED <<status, usageRecord, sub, creation, dropped, handlers,
                      shopify, disruptions, kafkaVars>>
    \/ /\ \E c \in Commissions : Append1(c, 1)
       /\ UNCHANGED <<rows, sub, creation, dropped, handlers, shopify,
                      disruptions>>

RInv == TypeInv /\ ChargeInv /\ RTypeOK

-----------------------------------------------------------------------------
LEMMA PassSteps ==
    ASSUME RTypeOK, [RNext]_rvars
    PROVE  [Next]_vars \/ PassStep
<1> USE DEF PassStep
<1>1. ASSUME NEW p \in Passes, ResetCapped(p) PROVE PassStep
  BY <1>1 DEF ResetCapped, Reopened
<1>2. ASSUME NEW p \in Passes, ClearPaused(p) PROVE PassStep
  BY <1>2, ReconcilerAssumption DEF ClearPaused, RTypeOK
<1>3. ASSUME NEW p \in Passes, NEW c \in Commissions, Republish(p, c)
      PROVE  PassStep
  BY <1>3 DEF Republish
<1>4. ASSUME NEW p \in Passes,
             \/ BeginPass(p) \/ Look(p) \/ RolloverFails(p) \/ ReadStale(p)
             \/ \E s \in Shops : RereadShop(p, s)
             \/ \E c \in Commissions : RepublishFails(p, c)
             \/ FinishPass(p) \/ AbortPass(p)
      PROVE  UNCHANGED vars
  BY <1>4
  DEF BeginPass, Look, PassOver, RecordBaseline, DetectRollover,
      RolloverFails, ReadStale, RereadShop, RepublishFails, FinishPass,
      AbortPass
<1>5. ASSUME NEW c \in Commissions, GrowOld(c) PROVE UNCHANGED vars
  BY <1>5 DEF GrowOld
<1>6. ASSUME NEW r \in Bound, ChangeCap(r) PROVE UNCHANGED vars
  BY <1>6 DEF ChangeCap
<1>7. CASE UNCHANGED rvars
  BY <1>7 DEF rvars
<1>8. QED
  BY <1>1, <1>2, <1>3, <1>4, <1>5, <1>6, <1>7 DEF RNext, Reconcile, GoOn

LEMMA PassKeepsTypes == TypeInv /\ PassStep => TypeInv'
<1> SUFFICES ASSUME TypeInv, PassStep PROVE TypeInv'
  OBVIOUS
<1>1. KafkaTypeOK(Commissions)'
  <2>1. CASE UNCHANGED kafkaVars
    BY <2>1 DEF TypeInv, TypeOK, KafkaTypeOK, kafkaVars
  <2>2. CASE \E c \in Commissions : Append1(c, 1)
    BY <2>2, AppendTypes DEF TypeInv, TypeOK
  <2>3. QED
    BY <2>1, <2>2 DEF PassStep, vars
<1>2. /\ status' \in [Commissions -> Statuses]
      /\ paused' \in [Shops -> BOOLEAN]
      /\ UNCHANGED <<usageRecord, sub, creation, dropped, handlers, shopify,
                     disruptions>>
  BY DEF PassStep, TypeInv, TypeOK, Statuses, vars, rows
<1>3. QED
  BY <1>1, <1>2
  DEF TypeInv, TypeOK, BusyHasCommission, creation, handlers, shopify

LEMMA PassKeepsCharges == TypeInv /\ ChargeInv /\ PassStep => ChargeInv'
<1> SUFFICES ASSUME TypeInv, ChargeInv, PassStep PROVE ChargeInv'
  OBVIOUS
<1>1. /\ UNCHANGED <<usageRecord, handlers, shopify>>
      /\ \A c \in Commissions : status'[c] = "RECORDED" => status[c] = "RECORDED"
  BY DEF PassStep, vars, rows
<1>2. QED
  BY <1>1 DEF ChargeInv, OneRecordPerKey, RecordedHasKey, handlers, shopify

-----------------------------------------------------------------------------
LEMMA RInitTypes == RInit => RTypeOK
<1> SUFFICES ASSUME RInit PROVE RTypeOK
  OBVIOUS
<1>1. TypeOK
  BY InitTypes DEF RInit, TypeInv
<1>2. QED
  BY <1>1 DEF RInit, RTypeOK, RPhases

LEMMA RNextTypes == TypeInv /\ RTypeOK /\ [RNext]_rvars => TypeInv' /\ RTypeOK'
<1> SUFFICES ASSUME TypeInv, RTypeOK, [RNext]_rvars PROVE TypeInv' /\ RTypeOK'
  OBVIOUS
<1>0. TypeInv'
  BY PassSteps, PassKeepsTypes, NextTypes
<1> USE DEF RTypeOK, passes, RPhases
<1>1. CASE Next /\ UNCHANGED <<passes, lastSeen, aged, cap>>
  BY <1>0, <1>1 DEF TypeInv
<1>2. ASSUME NEW p \in Passes, GoOn(p) PROVE RTypeOK'
  <2>1. ASSUME BeginPass(p) PROVE RTypeOK'
    <3>1. \A r \in Bound : lastSeen[r] \in CapAmounts \cup {NoAmount}
      BY ReconcilerAssumption
    <3>2. seen' \in [Passes -> [Bound -> CapAmounts \cup {NoAmount}]]
      BY <2>1, <3>1 DEF BeginPass
    <3>3. QED
      BY <1>0, <2>1, <3>2 DEF BeginPass, Candidates, TypeInv
  <2>2. ASSUME NEW r \in Bound, PassOver(p, r) PROVE RTypeOK'
    BY <1>0, <2>2 DEF PassOver, RowDone, TypeInv
  <2>3. ASSUME NEW r \in Bound, RecordBaseline(p, r) PROVE RTypeOK'
    BY <1>0, <2>3 DEF RecordBaseline, RowDone, TypeInv
  <2>4. ASSUME NEW r \in Bound, DetectRollover(p, r) PROVE RTypeOK'
    BY <1>0, <2>4 DEF DetectRollover, TypeInv
  <2>5. ASSUME ResetCapped(p) PROVE RTypeOK'
    BY <1>0, <2>5 DEF ResetCapped, TypeInv
  <2>6. ASSUME ClearPaused(p) \/ RolloverFails(p) PROVE RTypeOK'
    <3>1. /\ rpc' = [rpc EXCEPT ![p] = "shops"]
          /\ todo' = [todo EXCEPT ![p] = @ \ {rrow[p]}]
          /\ rrow' = [rrow EXCEPT ![p] = NoRow]
          /\ seen' = [seen EXCEPT ![p][rrow[p]] = NoAmount]
          /\ UNCHANGED <<stale, resend, lastSeen, aged, cap>>
      BY <2>6 DEF ClearPaused, RolloverFails, RowDone
    <3>2. QED
      BY <1>0, <3>1 DEF TypeInv
  <2>7. ASSUME ReadStale(p) PROVE RTypeOK'
    BY <1>0, <2>7 DEF ReadStale, TypeInv
  <2>8. ASSUME NEW s \in Shops, RereadShop(p, s) PROVE RTypeOK'
    BY <1>0, <2>8 DEF RereadShop, TypeInv
  <2>9. ASSUME NEW c \in Commissions, Republish(p, c) \/ RepublishFails(p, c)
        PROVE  RTypeOK'
    BY <1>0, <2>9 DEF Republish, RepublishFails, TypeInv
  <2>10. ASSUME FinishPass(p) PROVE RTypeOK'
    BY <1>0, <2>10 DEF FinishPass, TypeInv
  <2>11. QED
    BY <1>2, <2>1, <2>2, <2>3, <2>4, <2>5, <2>6, <2>7, <2>8, <2>9, <2>10
    DEF GoOn, Look
<1>3. ASSUME NEW p \in Passes, AbortPass(p) PROVE RTypeOK'
  BY <1>0, <1>3 DEF AbortPass, TypeInv
<1>4. ASSUME NEW c \in Commissions, GrowOld(c) PROVE RTypeOK'
  BY <1>0, <1>4 DEF GrowOld, TypeInv
<1>5. ASSUME NEW r \in Bound, ChangeCap(r) PROVE RTypeOK'
  BY <1>0, <1>5 DEF ChangeCap, TypeInv
<1>6. CASE UNCHANGED rvars
  BY <1>0, <1>6 DEF rvars, TypeInv
<1>7. QED
  BY <1>0, <1>1, <1>2, <1>3, <1>4, <1>5, <1>6 DEF RNext, Reconcile

LEMMA RInvAlways == RSpec => []RInv
<1>1. RInit => RInv
  BY RInitTypes, InitTypes, InitCharges DEF RInit, RInv
<1>2. RInv /\ [RNext]_rvars => RInv'
  BY RNextTypes, PassSteps, PassKeepsCharges, NextCharges DEF RInv
<1>3. QED
  BY <1>1, <1>2, PTL DEF RSpec

-----------------------------------------------------------------------------
\* What passes keep, the row whose shop is being reopened included, has its types.
THEOREM ReconcilerTypes == RSpec => []RTypeOK
<1>1. RInv => RTypeOK
  BY DEF RInv
<1>2. QED
  BY <1>1, RInvAlways, PTL

\* Reopening CAPPED commissions and publishing their events again never bills
\* the merchant twice, however many passes overlap.
THEOREM ReconciledChargedAtMostOnce == RSpec => []NoDoubleCharge
<1>1. RInv => NoDoubleCharge
  BY DEF RInv, ChargeInv, OneRecordPerKey, NoDoubleCharge
<1>2. QED
  BY <1>1, RInvAlways, PTL

\* Nor does a RECORDED row lose, or lack, its usage record when passes reopen and
\* publish around the workers that write it.
THEOREM ReconciledMeansCharged == RSpec => []RecordedIsCharged
<1>1. RInv => RecordedIsCharged
  BY DEF RInv, ChargeInv, OneRecordPerKey, RecordedHasKey, RecordedIsCharged
<1>2. QED
  BY <1>1, RInvAlways, PTL

\* A pass only ever reopens CAPPED commissions, even when it read its
\* candidates long ago: RECORDED and FAILED stay final.
THEOREM ReconciledVerdictsAreFinal == RSpec => RVerdictIsFinal
<1>1. RInv /\ [RNext]_rvars =>
        [\A c \in Commissions :
            status[c] \in {"RECORDED", "FAILED"} => status'[c] = status[c]]_rvars
  <2> SUFFICES ASSUME RInv, [RNext]_rvars, NEW c \in Commissions,
                      status[c] \in {"RECORDED", "FAILED"}
               PROVE  status'[c] = status[c]
    OBVIOUS
  <2>1. CASE [Next]_vars
    BY <2>1, RowSteps DEF RInv, TypeInv, TypeOK
  <2>2. CASE PassStep
    BY <2>2 DEF PassStep, vars, rows
  <2>3. QED
    BY <2>1, <2>2, PassSteps DEF RInv
<1>2. QED
  BY <1>1, RInvAlways, PTL DEF RSpec, RVerdictIsFinal

\* With its reconciler the system still implements ChargeOnce: a pass reopens
\* capped commissions, which ChargeOnce allows, or is invisible.
THEOREM ReconcilingRefinesChargeOnce == RSpec => ImplementsChargeOnce
<1>1. RInit => Abstract!Init
  BY RefinesInit DEF RInit
<1>2. RInv /\ [RNext]_rvars => [Abstract!Next]_<<charges, VerdictOf(status)>>
  <2> SUFFICES ASSUME RInv, PassStep
               PROVE  Abstract!Next \/ UNCHANGED <<charges, VerdictOf(status)>>
    BY PassSteps, RefinesStep DEF RInv
  <2>1. CASE UNCHANGED <<status, charges>>
    BY <2>1 DEF VerdictOf
  <2>2. ASSUME NEW C \in SUBSET Commissions, C # {},
               \A c \in C : status[c] = "CAPPED",
               status' = [c \in Commissions |->
                             IF c \in C THEN "PENDING" ELSE status[c]],
               UNCHANGED charges
        PROVE  Abstract!Next
    <3>1. Abstract!Reopen(C)
      BY <2>2 DEF Abstract!Reopen, VerdictOf, Outcomes
    <3>2. QED
      BY <3>1 DEF Abstract!Next
  <2>3. ASSUME NEW C \in SUBSET Commissions, C = {},
               status' = [c \in Commissions |->
                             IF c \in C THEN "PENDING" ELSE status[c]]
        PROVE  UNCHANGED status
    BY <2>3 DEF RInv, TypeInv, TypeOK
  <2>4. QED
    BY <2>1, <2>2, <2>3 DEF PassStep, vars, rows, shopify
<1>3. QED
  BY <1>1, <1>2, RInvAlways, PTL
  DEF RSpec, ImplementsChargeOnce, Abstract!Spec, VerdictOf
=============================================================================
