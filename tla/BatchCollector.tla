--------------------------- MODULE BatchCollector ---------------------------
(***************************************************************************)
(* data_collection_consumer.py: how webhook events are taken off a topic.  *)
(* A reader task moves records from the Kafka consumer into a bounded      *)
(* queue; the batcher fills a batch from the queue, runs its handlers      *)
(* concurrently when it is full or has waited long enough, and commits     *)
(* when all of them have finished.                                         *)
(*                                                                         *)
(* An event is the offset of its record.  What a handler collects from     *)
(* Shopify is left out; it has finished when it returned or raised, which  *)
(* the batch treats alike.                                                 *)
(***************************************************************************)
EXTENDS KafkaPartition, FiniteSets

CONSTANTS
    BatchSize,      \* MAX_CONCURRENT_MESSAGES
    QueueSize,      \* maxsize of the queue
    MaxEvents,      \* bound on the records that are published
    MaxDisruptions  \* bound on crashes, restarts and forced rebalances

ASSUME BatchCollectorAssumption ==
    /\ BatchSize \in Nat \ {0} /\ QueueSize \in Nat \ {0}
    /\ MaxEvents \in Nat /\ MaxDisruptions \in Nat

VARIABLES
    held,         \* per member: what its reader is putting on the queue
    queue,        \* per member: the asyncio.Queue
    batch,        \* per member: the batch being filled or run
    unfinished,   \* per member: positions in the batch not yet handled
    phase,        \* per member: what its batcher is doing
    handled,      \* events some handler has finished with
    interrupted,  \* events a process was still working on when it died
    disruptions   \* crashes, restarts and forced rebalances so far

pipeline == <<held, queue, batch, unfinished, phase>>
vars == <<kafkaVars, pipeline, handled, interrupted, disruptions>>

Event == "event"
Offsets == 1 .. MaxEvents

\* What the reader holds between records, and the end marker it leaves.
Nothing == 0
End == -1

Init ==
    /\ KafkaInit(0)
    /\ held = [w \in Members |-> Nothing]
    /\ queue = [w \in Members |-> <<>>]
    /\ batch = [w \in Members |-> <<>>]
    /\ unfinished = [w \in Members |-> {}]
    /\ phase = [w \in Members |-> "filling"]
    /\ handled = {}
    /\ interrupted = {}
    /\ disruptions = 0

\* A webhook or an onboarding job puts an event on the topic.
Publish ==
    /\ Len(log) < MaxEvents
    /\ Append1(Event, 1)
    /\ UNCHANGED <<pipeline, handled, interrupted, disruptions>>

-----------------------------------------------------------------------------
(* The reader task.                                                        *)

\* The consumer yields the next record; its position is past it from now on.
Read(w) ==
    /\ held[w] = Nothing
    /\ Fetch(w, Event)
    /\ held' = [held EXCEPT ![w] = position[w] + 1]
    /\ UNCHANGED <<queue, batch, unfinished, phase, handled, interrupted, disruptions>>

\* Seeded fault: a queue without maxsize.
PutUnbounded(w) ==
    /\ held[w] \in Offsets
    /\ queue' = [queue EXCEPT ![w] = Append(@, held[w])]
    /\ held' = [held EXCEPT ![w] = Nothing]
    /\ UNCHANGED <<kafkaVars, batch, unfinished, phase, handled, interrupted, disruptions>>

\* queue.put waits while the queue is full.
Put(w) ==
    /\ held[w] \in Offsets
    /\ Len(queue[w]) < QueueSize
    /\ queue' = [queue EXCEPT ![w] = Append(@, held[w])]
    /\ held' = [held EXCEPT ![w] = Nothing]
    /\ UNCHANGED <<kafkaVars, batch, unfinished, phase, handled, interrupted, disruptions>>

\* consume() returns or raises, as it does on a coordination error: the reader
\* leaves the end marker and is done.
StopReading(w) ==
    /\ held[w] = Nothing
    /\ disruptions < MaxDisruptions
    /\ Len(queue[w]) < QueueSize
    /\ queue' = [queue EXCEPT ![w] = Append(@, End)]
    /\ held' = [held EXCEPT ![w] = End]
    /\ disruptions' = disruptions + 1
    /\ UNCHANGED <<kafkaVars, batch, unfinished, phase, handled, interrupted>>

-----------------------------------------------------------------------------
(* The batcher.                                                            *)

Batched(w) == Append(batch[w], Head(queue[w]))

Take(w) ==
    /\ phase[w] = "filling"
    /\ queue[w] # <<>> /\ Head(queue[w]) # End
    /\ batch' = [batch EXCEPT ![w] = Batched(w)]
    /\ unfinished' = [unfinished EXCEPT ![w] = @ \cup {Len(batch[w]) + 1}]
    /\ queue' = [queue EXCEPT ![w] = Tail(@)]
    /\ phase' = [phase EXCEPT ![w] =
                    IF Len(Batched(w)) >= BatchSize THEN "running" ELSE @]
    /\ UNCHANGED <<kafkaVars, held, handled, interrupted, disruptions>>

\* Faults seeded in FlushPartial: a partial batch waits for more traffic, or is
\* dropped by the timeout.
FlushNever(w) == FALSE /\ UNCHANGED vars
FlushAway(w) ==
    /\ phase[w] = "filling" /\ queue[w] = <<>> /\ batch[w] # <<>>
    /\ batch' = [batch EXCEPT ![w] = <<>>]
    /\ unfinished' = [unfinished EXCEPT ![w] = {}]
    /\ UNCHANGED <<kafkaVars, held, queue, phase, handled, interrupted, disruptions>>

\* The wait for the queue times out with a partial batch in hand.
FlushPartial(w) ==
    /\ phase[w] = "filling" /\ queue[w] = <<>> /\ batch[w] # <<>>
    /\ phase' = [phase EXCEPT ![w] = "running"]
    /\ UNCHANGED <<kafkaVars, held, queue, batch, unfinished, handled,
                   interrupted, disruptions>>

\* The end marker: leave the loop, and run what is left in the finally clause.
TakeEnd(w) ==
    /\ phase[w] = "filling"
    /\ queue[w] # <<>> /\ Head(queue[w]) = End
    /\ queue' = [queue EXCEPT ![w] = Tail(@)]
    /\ phase' = [phase EXCEPT ![w] = "closing"]
    /\ UNCHANGED <<kafkaVars, held, batch, unfinished, handled, interrupted, disruptions>>

\* One of the concurrently running handlers returns or raises.
Finish(w, i) ==
    /\ phase[w] \in {"running", "closing"}
    /\ i \in unfinished[w]
    /\ handled' = handled \cup {batch[w][i]}
    /\ unfinished' = [unfinished EXCEPT ![w] = @ \ {i}]
    /\ UNCHANGED <<kafkaVars, held, queue, batch, phase, interrupted, disruptions>>

\* _process_batch commits once every handler has finished.  The message it
\* passes to commit() is ignored there: the whole position is committed.
CommitBatch(w) ==
    /\ phase[w] \in {"running", "closing"}
    /\ batch[w] # <<>> /\ unfinished[w] = {}
    /\ CommitPosition(w) \/ UNCHANGED kafkaVars
    /\ batch' = [batch EXCEPT ![w] = <<>>]
    /\ phase' = [phase EXCEPT ![w] = IF @ = "running" THEN "filling" ELSE @]
    /\ UNCHANGED <<held, queue, unfinished, handled, interrupted, disruptions>>

\* start_consuming has returned and the consumer manager calls it again, on
\* the same consumer, with a new queue and a new reader.
Restart(w) ==
    /\ phase[w] = "closing" /\ batch[w] = <<>>
    /\ held' = [held EXCEPT ![w] = Nothing]
    /\ queue' = [queue EXCEPT ![w] = <<>>]
    /\ phase' = [phase EXCEPT ![w] = "filling"]
    /\ UNCHANGED <<kafkaVars, batch, unfinished, handled, interrupted, disruptions>>

-----------------------------------------------------------------------------
(* The environment.                                                        *)

\* Does w have event e in hand: read, and not yet finished with?
InHand(w, e) ==
    \/ held[w] = e
    \/ \E i \in 1 .. Len(queue[w]) : queue[w][i] = e
    \/ \E i \in unfinished[w] : batch[w][i] = e

\* The process dies or is replaced by a deployment; shutdown does not wait for
\* the pipeline either.
Crash(w) ==
    /\ disruptions < MaxDisruptions
    /\ Leave(w)
    /\ interrupted' = interrupted \cup {e \in Offsets : InHand(w, e)}
    /\ held' = [held EXCEPT ![w] = Nothing]
    /\ queue' = [queue EXCEPT ![w] = <<>>]
    /\ batch' = [batch EXCEPT ![w] = <<>>]
    /\ unfinished' = [unfinished EXCEPT ![w] = {}]
    /\ phase' = [phase EXCEPT ![w] = "filling"]
    /\ disruptions' = disruptions + 1
    /\ UNCHANGED handled

\* The group gives the partition to w; a former owner keeps what it has read.
Rebalance(w) ==
    /\ owner # Nobody
    /\ disruptions < MaxDisruptions
    /\ Assign(w)
    /\ disruptions' = disruptions + 1
    /\ UNCHANGED <<pipeline, handled, interrupted>>

TakeOver(w) ==
    /\ owner = Nobody
    /\ Assign(w)
    /\ UNCHANGED <<pipeline, handled, interrupted, disruptions>>

-----------------------------------------------------------------------------
Batcher(w) ==
    \/ Take(w) \/ FlushPartial(w) \/ TakeEnd(w)
    \/ CommitBatch(w) \/ Restart(w)

Next ==
    \/ Publish
    \/ \E w \in Members :
          \/ Read(w) \/ Put(w) \/ StopReading(w)
          \/ Batcher(w) \/ (\E i \in unfinished[w] : Finish(w, i))
          \/ Crash(w) \/ Rebalance(w) \/ TakeOver(w)

Spec == Init /\ [][Next]_vars

\* Tasks that can run are run, the timeout expires, every handler ends (its
\* Shopify calls are bounded by three attempts), and the coordinator reassigns
\* an orphaned partition.
Fairness ==
    /\ \A w \in Members :
          /\ WF_vars(Read(w)) /\ WF_vars(Put(w))
          /\ WF_vars(Batcher(w))
          /\ WF_vars(\E i \in unfinished[w] : Finish(w, i))
    /\ WF_vars(\E w \in Members : TakeOver(w))

FairSpec == Spec /\ Fairness

-----------------------------------------------------------------------------
(* Properties.                                                             *)

\* Types; the pipeline holds events of the topic within its bounds.
TypeOK ==
    /\ KafkaTypeOK({Event}) /\ Len(log) <= MaxEvents
    /\ held \in [Members -> Offsets \cup {Nothing, End}]
    /\ queue \in [Members -> Seq(Offsets \cup {End})]
    /\ batch \in [Members -> Seq(Offsets)]
    /\ unfinished \in [Members -> SUBSET (1 .. BatchSize)]
    /\ phase \in [Members -> {"filling", "running", "closing"}]
    /\ handled \in SUBSET Offsets
    /\ interrupted \in SUBSET Offsets
    /\ disruptions \in 0 .. MaxDisruptions
    /\ \A w \in Members :
          /\ Len(queue[w]) <= QueueSize
          /\ unfinished[w] \subseteq 1 .. Len(batch[w])

\* The batching itself loses nothing: an event below the committed offset was
\* handled, is in some member's hands, or was when a process died.
NothingVanishes ==
    \A e \in 1 .. committed :
        e \in handled \/ e \in interrupted \/ \E w \in Members : InHand(w, e)

\* What the commit may run ahead of the work by: what one reader can have
\* prefetched, once per crash or change of owner.
CommitAheadBounded ==
    Cardinality({e \in 1 .. committed : e \notin handled})
        <= (QueueSize + 1) * (disruptions + 1)

\* start_consuming's docstring: a committed offset means everything before it
\* is done.  It does not hold: the position is ahead of the batch.
CommittedIsDone == 1 .. committed \subseteq handled

\* No event waits for ever, for more traffic or for anything else, unless a
\* process died with it.
EventuallyHandled ==
    \A e \in Offsets : Len(log) >= e ~> e \in handled \cup interrupted
=============================================================================
