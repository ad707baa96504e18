--------------------------- MODULE KafkaPartition ---------------------------
(***************************************************************************)
(* One partition of a Kafka topic, as one consumer group of the Python     *)
(* worker uses it.  Kafka is not under src/; what is modelled is the part  *)
(* of its contract that app/core/kafka/consumer.py and producer.py rely on *)
(* with the settings of app/core/config/kafka_settings.py: manual commits  *)
(* (enable_auto_commit False) of the consumer's whole position, and        *)
(* auto_offset_reset "latest" when the group has no committed offset.      *)
(***************************************************************************)
EXTENDS Integers, Sequences

CONSTANTS Members   (* the worker processes that joined the consumer group *)

ASSUME MembersAssumption == Members # {} /\ "nobody" \notin Members

VARIABLES
    log,        \* the records of the partition, oldest first
    committed,  \* offset committed by the group, or NoOffset
    owner,      \* the member the partition is assigned to, or "nobody"
    position    \* per member: the offset its AIOKafkaConsumer returns next

kafkaVars == <<log, committed, owner, position>>

NoOffset == -1
Nobody == "nobody"

KafkaTypeOK(Message) ==
    /\ log \in Seq(Message)
    /\ committed \in {NoOffset} \cup (0 .. Len(log))
    /\ owner \in Members \cup {Nobody}
    /\ position \in [Members -> 0 .. Len(log)]

\* A new partition; start is 0 for a group that has committed before and
\* NoOffset for one that never has.
KafkaInit(start) ==
    /\ log = <<>>
    /\ committed = start
    /\ owner = Nobody
    /\ position = [w \in Members |-> 0]

\* KafkaProducer.send: the broker appends the record.  The producer is not
\* idempotent, so a resend after a lost acknowledgement appends it twice.
Append1(m, copies) ==
    /\ log' = IF copies = 1 THEN Append(log, m) ELSE log \o <<m, m>>
    /\ UNCHANGED <<committed, owner, position>>

\* Faults seeded in Assign: starting one record too far, or always at the end.
AssignOneTooFar(w) ==
    /\ owner' = w
    /\ position' = [position EXCEPT ![w] = committed + 1]
    /\ UNCHANGED <<log, committed>>
AssignAtEnd(w) ==
    /\ owner' = w
    /\ position' = [position EXCEPT ![w] = Len(log)]
    /\ UNCHANGED <<log, committed>>

\* The group coordinator hands the partition to w, which starts from the
\* committed offset, or from the end of the log when there is none.
Assign(w) ==
    /\ owner' = w
    /\ position' = [position EXCEPT ![w] =
                       IF committed = NoOffset THEN Len(log) ELSE committed]
    /\ UNCHANGED <<log, committed>>

\* Seeded fault: the position is committed as records are handed out, as with
\* enable_auto_commit.
FetchCommitting(w, m) ==
    /\ owner = w
    /\ position[w] < Len(log)
    /\ m = log[position[w] + 1]
    /\ position' = [position EXCEPT ![w] = @ + 1]
    /\ committed' = position[w] + 1
    /\ UNCHANGED <<log, owner>>

\* KafkaConsumer.consume yields the next record to the member that owns the
\* partition; the position moves before the record is processed.
Fetch(w, m) ==
    /\ owner = w
    /\ position[w] < Len(log)
    /\ m = log[position[w] + 1]
    /\ position' = [position EXCEPT ![w] = @ + 1]
    /\ UNCHANGED <<log, committed, owner>>

\* KafkaConsumer.commit: commits the whole position, whatever record it was
\* called for.  A member that lost the partition commits nothing, and the
\* error is reported as a return value nobody reads.
CommitPosition(w) ==
    /\ committed' = IF owner = w THEN position[w] ELSE committed
    /\ UNCHANGED <<log, owner, position>>

\* The member's process dies or leaves; its partition is unassigned until
\* the next rebalance.
Leave(w) ==
    /\ owner' = IF owner = w THEN Nobody ELSE owner
    /\ UNCHANGED <<log, committed, position>>
=============================================================================
