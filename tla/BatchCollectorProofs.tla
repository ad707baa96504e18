------------------------ MODULE BatchCollectorProofs ------------------------
(***************************************************************************)
(* Proofs about BatchCollector, for any number of workers, events, crashes *)
(* and rebalances, and any size of batch and queue.                        *)
(***************************************************************************)
EXTENDS BatchCollector, FiniteSetTheorems, SequenceTheorems, TLAPS

(* What the operations on a partition keep.                                *)

\* Appending a record keeps the types of the partition.
LEMMA AppendTypes ==
    ASSUME NEW Message, KafkaTypeOK(Message),
           NEW m \in Message, NEW n \in 1 .. 2, Append1(m, n)
    PROVE  KafkaTypeOK(Message)'
<1>1. /\ log' \in Seq(Message)
      /\ Len(log) \in Nat
      /\ Len(log') \in Nat
      /\ Len(log) <= Len(log')
  BY DEF Append1, KafkaTypeOK
<1>2. QED
  BY <1>1 DEF Append1, KafkaTypeOK, NoOffset

\* So does everything a member of the group does to it.
LEMMA MemberTypes ==
    ASSUME NEW Message, KafkaTypeOK(Message), NEW w \in Members,
           \/ Assign(w)
           \/ \E m \in Message : Fetch(w, m)
           \/ CommitPosition(w)
           \/ Leave(w)
           \/ UNCHANGED kafkaVars
    PROVE  KafkaTypeOK(Message)'
<1>0. Len(log) \in Nat
  BY DEF KafkaTypeOK
<1>1. CASE Assign(w)
  BY <1>0, <1>1 DEF Assign, KafkaTypeOK, NoOffset
<1>2. CASE \E m \in Message : Fetch(w, m)
  BY <1>0, <1>2 DEF Fetch, KafkaTypeOK
<1>3. CASE CommitPosition(w)
  BY <1>0, <1>3 DEF CommitPosition, KafkaTypeOK
<1>4. CASE Leave(w)
  BY <1>0, <1>4 DEF Leave, KafkaTypeOK, Nobody
<1>5. CASE UNCHANGED kafkaVars
  BY <1>5 DEF kafkaVars, KafkaTypeOK
<1>6. QED
  BY <1>1, <1>2, <1>3, <1>4, <1>5

\* The end marker is the last thing a reader leaves, and a batcher that is
\* closing has taken it: nothing is behind it in the queue.
EndInv ==
    /\ \A w \in Members : \A i \in 1 .. Len(queue[w]) :
          queue[w][i] = End => i = Len(queue[w]) /\ held[w] = End
    /\ \A w \in Members :
          phase[w] = "closing" => queue[w] = <<>> /\ held[w] = End

\* The work that is left is work on the batch, and a batch that is being
\* filled has room for another event.
BatchInv ==
    \A w \in Members :
        /\ Len(batch[w]) <= BatchSize
        /\ phase[w] = "filling" => Len(batch[w]) < BatchSize

Covered(e) ==
    e \in handled \/ e \in interrupted \/ \E w \in Members : InHand(w, e)

\* What is committed is covered, and so is what the owner will commit next.
CoverInv ==
    /\ committed # NoOffset
    /\ \A e \in 1 .. committed : Covered(e)
    /\ owner \in Members => \A e \in 1 .. position[owner] : Covered(e)

Inv == TypeOK /\ EndInv /\ BatchInv /\ CoverInv

-----------------------------------------------------------------------------
LEMMA InitInv == Init => Inv
<1> SUFFICES ASSUME Init PROVE Inv
  OBVIOUS
<1> USE BatchCollectorAssumption, MembersAssumption
<1>1. KafkaTypeOK({Event}) /\ Len(log) = 0
  BY DEF Init, KafkaInit, KafkaTypeOK, NoOffset, Nobody
<1>2. TypeOK
  BY <1>1 DEF Init, TypeOK, Offsets, Nothing, End
<1>3. EndInv /\ BatchInv
  BY DEF Init, EndInv, BatchInv
<1>4. CoverInv
  BY DEF Init, KafkaInit, CoverInv, Nobody, NoOffset
<1>5. QED
  BY <1>2, <1>3, <1>4 DEF Inv

-----------------------------------------------------------------------------
(* Types.                                                                  *)

LEMMA NextTypes == TypeOK /\ BatchInv /\ [Next]_vars => TypeOK'
<1> SUFFICES ASSUME TypeOK, BatchInv, [Next]_vars PROVE TypeOK'
  OBVIOUS
<1> USE BatchCollectorAssumption
<1>t. /\ KafkaTypeOK({Event}) /\ Len(log) <= MaxEvents
      /\ Len(log) \in Nat
      /\ position \in [Members -> 0 .. Len(log)]
      /\ held \in [Members -> Offsets \cup {Nothing, End}]
      /\ queue \in [Members -> Seq(Offsets \cup {End})]
      /\ batch \in [Members -> Seq(Offsets)]
      /\ unfinished \in [Members -> SUBSET (1 .. BatchSize)]
      /\ phase \in [Members -> {"filling", "running", "closing"}]
      /\ \A w \in Members :
            /\ Len(queue[w]) \in Nat /\ Len(queue[w]) <= QueueSize
            /\ Len(batch[w]) \in Nat
            /\ unfinished[w] \subseteq 1 .. Len(batch[w])
  BY DEF TypeOK, KafkaTypeOK
<1>1. CASE Publish
  <2>1. KafkaTypeOK({Event})'
    BY <1>1, <1>t, AppendTypes DEF Publish
  <2>2. Len(log') <= MaxEvents
    BY <1>1, <1>t DEF Publish, Append1, KafkaTypeOK
  <2>3. QED
    BY <1>1, <2>1, <2>2 DEF Publish, TypeOK, pipeline
<1>2. ASSUME NEW w \in Members, Read(w) PROVE TypeOK'
  <2>1. KafkaTypeOK({Event})' /\ Len(log') <= MaxEvents
    BY <1>2, <1>t, MemberTypes DEF Read, Fetch
  <2>2. position[w] + 1 \in Offsets
    BY <1>2, <1>t DEF Read, Fetch, Offsets
  <2>3. QED
    BY <1>2, <2>1, <2>2 DEF Read, TypeOK
<1>3. ASSUME NEW w \in Members, Put(w) \/ StopReading(w) PROVE TypeOK'
  <2>1. PICK x \in Offsets \cup {End} :
              /\ queue' = [queue EXCEPT ![w] = Append(queue[w], x)]
              /\ Len(queue[w]) < QueueSize
    <3>1. CASE Put(w)
      <4>1. /\ held[w] \in Offsets \cup {End}
            /\ queue' = [queue EXCEPT ![w] = Append(queue[w], held[w])]
            /\ Len(queue[w]) < QueueSize
        BY <3>1 DEF Put
      <4>2. QED
        BY <4>1
    <3>2. CASE StopReading(w)
      <4>1. /\ End \in Offsets \cup {End}
            /\ queue' = [queue EXCEPT ![w] = Append(queue[w], End)]
            /\ Len(queue[w]) < QueueSize
        BY <3>2 DEF StopReading
      <4>2. QED
        BY <4>1
    <3>3. QED
      BY <1>3, <3>1, <3>2
  <2>2. Append(queue[w], x) \in Seq(Offsets \cup {End})
        /\ Len(Append(queue[w], x)) = Len(queue[w]) + 1
    BY <2>1, <1>t, AppendProperties
  <2>3. queue' \in [Members -> Seq(Offsets \cup {End})]
        /\ \A m \in Members : Len(queue'[m]) <= QueueSize
    BY <2>1, <2>2, <1>t
  <2>4. /\ held' \in [Members -> Offsets \cup {Nothing, End}]
        /\ disruptions' \in 0 .. MaxDisruptions
        /\ UNCHANGED <<kafkaVars, batch, unfinished, phase, handled, interrupted>>
    <3>1. CASE Put(w)
      BY <3>1 DEF Put, TypeOK
    <3>2. CASE StopReading(w)
      BY <3>2 DEF StopReading, TypeOK
    <3>3. QED
      BY <1>3, <3>1, <3>2
  <2>5. QED
    BY <2>3, <2>4 DEF TypeOK, kafkaVars, KafkaTypeOK
<1>4. ASSUME NEW w \in Members, Take(w) PROVE TypeOK'
  <2>1. /\ Head(queue[w]) \in Offsets
        /\ Tail(queue[w]) \in Seq(Offsets \cup {End})
        /\ Len(Tail(queue[w])) <= QueueSize
    BY <1>4, <1>t, HeadTailProperties DEF Take
  <2>2. /\ Batched(w) \in Seq(Offsets)
        /\ Len(Batched(w)) = Len(batch[w]) + 1
    BY <2>1, <1>t, AppendProperties DEF Batched
  <2>3. Len(batch[w]) + 1 <= BatchSize
    BY <1>4, <1>t DEF Take, BatchInv
  <2>4. /\ queue' \in [Members -> Seq(Offsets \cup {End})]
        /\ \A m \in Members : Len(queue'[m]) <= QueueSize
    BY <1>4, <2>1, <1>t DEF Take
  <2>5. /\ batch' \in [Members -> Seq(Offsets)]
        /\ unfinished' \in [Members -> SUBSET (1 .. BatchSize)]
        /\ \A m \in Members : unfinished'[m] \subseteq 1 .. Len(batch'[m])
    BY <1>4, <2>2, <2>3, <1>t DEF Take
  <2>6. phase' \in [Members -> {"filling", "running", "closing"}]
    BY <1>4, <1>t DEF Take
  <2>7. QED
    BY <1>4, <2>4, <2>5, <2>6 DEF Take, TypeOK, kafkaVars, KafkaTypeOK
<1>5. ASSUME NEW w \in Members, FlushPartial(w) PROVE TypeOK'
  BY <1>5 DEF FlushPartial, TypeOK, kafkaVars, KafkaTypeOK
<1>6. ASSUME NEW w \in Members, TakeEnd(w) PROVE TypeOK'
  <2>1. /\ Tail(queue[w]) \in Seq(Offsets \cup {End})
        /\ Len(Tail(queue[w])) <= QueueSize
    BY <1>6, <1>t, HeadTailProperties DEF TakeEnd
  <2>2. /\ queue' \in [Members -> Seq(Offsets \cup {End})]
        /\ \A m \in Members : Len(queue'[m]) <= QueueSize
    BY <1>6, <2>1, <1>t DEF TakeEnd
  <2>3. QED
    BY <1>6, <2>2 DEF TakeEnd, TypeOK, kafkaVars, KafkaTypeOK
<1>7. ASSUME NEW w \in Members, NEW i \in unfinished[w], Finish(w, i)
      PROVE  TypeOK'
  <2>1. batch[w][i] \in Offsets
    BY <1>7, <1>t, ElementOfSeq
  <2>2. QED
    BY <1>7, <2>1 DEF Finish, TypeOK, kafkaVars, KafkaTypeOK
<1>8. ASSUME NEW w \in Members, CommitBatch(w) PROVE TypeOK'
  <2>1. KafkaTypeOK({Event})' /\ Len(log') <= MaxEvents
    BY <1>8, <1>t, MemberTypes DEF CommitBatch, CommitPosition, kafkaVars
  <2>2. QED
    BY <1>8, <1>t, <2>1 DEF CommitBatch, TypeOK
<1>9. ASSUME NEW w \in Members, Restart(w) PROVE TypeOK'
  BY <1>9 DEF Restart, TypeOK, kafkaVars, KafkaTypeOK
<1>10. ASSUME NEW w \in Members, Crash(w) PROVE TypeOK'
  <2>1. KafkaTypeOK({Event})' /\ Len(log') <= MaxEvents
    BY <1>10, <1>t, MemberTypes DEF Crash, Leave
  <2>2. QED
    BY <1>10, <2>1 DEF Crash, TypeOK
<1>11. ASSUME NEW w \in Members, Rebalance(w) \/ TakeOver(w) PROVE TypeOK'
  <2>1. KafkaTypeOK({Event})' /\ Len(log') <= MaxEvents
    BY <1>11, <1>t, MemberTypes DEF Rebalance, TakeOver, Assign
  <2>2. QED
    BY <1>11, <2>1 DEF Rebalance, TakeOver, TypeOK, pipeline
<1>12. CASE UNCHANGED vars
  BY <1>12 DEF vars, pipeline, kafkaVars, TypeOK, KafkaTypeOK
<1>13. QED
  BY <1>1, <1>2, <1>3, <1>4, <1>5, <1>6, <1>7, <1>8, <1>9, <1>10, <1>11, <1>12
  DEF Next, Batcher

-----------------------------------------------------------------------------
(* The end marker and the batch.                                           *)

LEMMA NextEnd == TypeOK /\ EndInv /\ [Next]_vars => EndInv'
<1> SUFFICES ASSUME TypeOK, EndInv, [Next]_vars PROVE EndInv'
  OBVIOUS
<1>t. /\ queue \in [Members -> Seq(Offsets \cup {End})]
      /\ held \in [Members -> Offsets \cup {Nothing, End}]
      /\ phase \in [Members -> {"filling", "running", "closing"}]
      /\ \A w \in Members : Len(queue[w]) \in Nat
      /\ End \notin Offsets /\ Nothing \notin Offsets /\ End # Nothing
  BY DEF TypeOK, End, Nothing, Offsets
<1>1. CASE Publish \/ UNCHANGED vars
  BY <1>1 DEF Publish, vars, pipeline, EndInv
<1>2. ASSUME NEW w \in Members, Read(w) PROVE EndInv'
  BY <1>2, <1>t DEF Read, EndInv
<1>3. ASSUME NEW w \in Members, Put(w) \/ StopReading(w) PROVE EndInv'
  <2>1. CASE Put(w)
    <3>1. \A i \in 1 .. Len(queue[w]) : queue[w][i] # End
      BY <2>1, <1>t DEF Put, EndInv
    <3>2. /\ Len(queue'[w]) = Len(queue[w]) + 1
          /\ \A i \in 1 .. Len(queue'[w]) : queue'[w][i] # End
      BY <2>1, <3>1, <1>t, AppendProperties DEF Put
    <3>3. phase[w] # "closing"
      BY <2>1, <1>t DEF Put, EndInv
    <3>4. QED
      BY <2>1, <3>2, <3>3, <1>t DEF Put, EndInv
  <2>2. CASE StopReading(w)
    <3>1. \A i \in 1 .. Len(queue[w]) : queue[w][i] # End
      BY <2>2, <1>t DEF StopReading, EndInv
    <3>2. /\ Len(queue'[w]) = Len(queue[w]) + 1
          /\ \A i \in 1 .. Len(queue'[w]) :
                queue'[w][i] = End => i = Len(queue'[w])
      BY <2>2, <3>1, <1>t, AppendProperties DEF StopReading
    <3>3. phase[w] # "closing" /\ held'[w] = End
      BY <2>2, <1>t DEF StopReading, EndInv
    <3>4. QED
      BY <2>2, <3>2, <3>3, <1>t DEF StopReading, EndInv
  <2>3. QED
    BY <1>3, <2>1, <2>2
<1>4. ASSUME NEW w \in Members, Take(w) \/ TakeEnd(w) PROVE EndInv'
  <2>1. queue[w] # <<>> /\ queue' = [queue EXCEPT ![w] = Tail(queue[w])]
    BY <1>4 DEF Take, TakeEnd
  <2>2. /\ Len(queue'[w]) = Len(queue[w]) - 1
        /\ \A i \in 1 .. Len(queue'[w]) : queue'[w][i] = queue[w][i + 1]
    BY <2>1, <1>t, HeadTailProperties
  <2>3. \A i \in 1 .. Len(queue'[w]) :
           queue'[w][i] = End => i = Len(queue'[w]) /\ held[w] = End
    BY <2>2, <1>t DEF EndInv
  <2>4. CASE Take(w)
    <3>1. phase'[w] # "closing"
      BY <2>4, <1>t DEF Take
    <3>2. QED
      BY <2>4, <2>1, <2>3, <3>1, <1>t DEF Take, EndInv
  <2>5. CASE TakeEnd(w)
    <3>1. queue[w][1] = End /\ Len(queue[w]) \in Nat \ {0}
      BY <2>5, <1>t, HeadTailProperties, EmptySeq DEF TakeEnd
    <3>2. Len(queue[w]) = 1 /\ held[w] = End
      <4>1. 1 \in 1 .. Len(queue[w])
        BY <3>1
      <4>2. 1 = Len(queue[w]) /\ held[w] = End
        BY <3>1, <4>1 DEF EndInv
      <4>3. QED
        BY <4>2
    <3>3. queue'[w] = <<>>
      BY <2>2, <3>2, <2>1, <1>t, HeadTailProperties, EmptySeq
    <3>4. QED
      BY <2>5, <2>1, <3>2, <3>3, <1>t DEF TakeEnd, EndInv
  <2>6. QED
    BY <1>4, <2>4, <2>5
<1>5. ASSUME NEW w \in Members, FlushPartial(w) PROVE EndInv'
  BY <1>5, <1>t DEF FlushPartial, EndInv
<1>6. ASSUME NEW w \in Members, NEW i \in unfinished[w], Finish(w, i)
      PROVE  EndInv'
  BY <1>6 DEF Finish, EndInv
<1>7. ASSUME NEW w \in Members, CommitBatch(w) PROVE EndInv'
  BY <1>7, <1>t DEF CommitBatch, EndInv
<1>8. ASSUME NEW w \in Members, Restart(w) \/ Crash(w) PROVE EndInv'
  <2>1. /\ queue' = [queue EXCEPT ![w] = <<>>]
        /\ phase' = [phase EXCEPT ![w] = "filling"]
        /\ held' = [held EXCEPT ![w] = Nothing]
    BY <1>8 DEF Restart, Crash
  <2>2. QED
    BY <2>1, <1>t DEF EndInv
<1>9. ASSUME NEW w \in Members, Rebalance(w) \/ TakeOver(w) PROVE EndInv'
  BY <1>9 DEF Rebalance, TakeOver, pipeline, EndInv
<1>10. QED
  BY <1>1, <1>2, <1>3, <1>4, <1>5, <1>6, <1>7, <1>8, <1>9 DEF Next, Batcher

LEMMA NextBatch == TypeOK /\ BatchInv /\ [Next]_vars => BatchInv'
<1> SUFFICES ASSUME TypeOK, BatchInv, [Next]_vars PROVE BatchInv'
  OBVIOUS
<1> USE BatchCollectorAssumption
<1>t. /\ queue \in [Members -> Seq(Offsets \cup {End})]
      /\ batch \in [Members -> Seq(Offsets)]
      /\ phase \in [Members -> {"filling", "running", "closing"}]
      /\ \A w \in Members : Len(batch[w]) \in Nat
  BY DEF TypeOK
<1>1. CASE Publish \/ UNCHANGED vars
  BY <1>1 DEF Publish, vars, pipeline, BatchInv
<1>2. ASSUME NEW w \in Members,
             \/ Read(w) \/ Put(w) \/ StopReading(w)
             \/ \E i \in unfinished[w] : Finish(w, i)
             \/ Rebalance(w) \/ TakeOver(w)
      PROVE  BatchInv'
  <2>1. UNCHANGED <<batch, phase>>
    BY <1>2 DEF Read, Put, StopReading, Finish, Rebalance, TakeOver, pipeline
  <2>2. QED
    BY <2>1 DEF BatchInv
<1>3. ASSUME NEW w \in Members, Take(w) PROVE BatchInv'
  <2>1. Head(queue[w]) \in Offsets
    BY <1>3, <1>t, HeadTailProperties DEF Take
  <2>2. Len(Batched(w)) = Len(batch[w]) + 1
    BY <2>1, <1>t, AppendProperties DEF Batched
  <2>3. Len(Batched(w)) <= BatchSize
    BY <1>3, <2>2, <1>t DEF Take, BatchInv
  <2>4. phase'[w] = "filling" => Len(Batched(w)) < BatchSize
    BY <1>3, <2>2, <1>t DEF Take
  <2>5. QED
    BY <1>3, <2>3, <2>4, <1>t DEF Take, BatchInv
<1>4. ASSUME NEW w \in Members, FlushPartial(w) \/ TakeEnd(w) PROVE BatchInv'
  <2>1. /\ UNCHANGED batch
        /\ \A u \in Members : phase'[u] = "filling" => phase[u] = "filling"
    BY <1>4, <1>t DEF FlushPartial, TakeEnd
  <2>2. QED
    BY <2>1 DEF BatchInv
<1>5. ASSUME NEW w \in Members, CommitBatch(w) \/ Restart(w) \/ Crash(w)
      PROVE  BatchInv'
  <2>1. /\ batch'[w] = <<>>
        /\ \A u \in Members \ {w} : batch'[u] = batch[u] /\ phase'[u] = phase[u]
    BY <1>5, <1>t DEF CommitBatch, Restart, Crash
  <2>2. Len(batch'[w]) = 0
    BY <2>1
  <2>3. QED
    BY <2>1, <2>2 DEF BatchInv
<1>6. QED
  BY <1>1, <1>2, <1>3, <1>4, <1>5 DEF Next, Batcher

-----------------------------------------------------------------------------
(* Nothing that is covered is dropped.                                     *)

\* What a member has in hand it keeps or finishes, unless it crashes.
KeptBy(u) ==
    \A e \in Offsets :
        InHand(u, e) => \/ InHand(u, e)'
                        \/ e \in handled'
                        \/ Crash(u) /\ e \in interrupted'

\* A step of one member leaves the hands of the others alone.
LEMMA OneMemberKeeps ==
    ASSUME NEW w \in Members,
           \A u \in Members \ {w} :
              /\ held'[u] = held[u] /\ queue'[u] = queue[u]
              /\ batch'[u] = batch[u] /\ unfinished'[u] = unfinished[u],
           KeptBy(w)
    PROVE  \A u \in Members : KeptBy(u)
<1>1. \A u \in Members \ {w}, e \in Offsets : InHand(u, e) => InHand(u, e)'
  BY DEF InHand
<1>2. QED
  BY <1>1 DEF KeptBy

LEMMA HandsKept ==
    TypeOK /\ EndInv /\ [Next]_vars => \A u \in Members : KeptBy(u)
<1> SUFFICES ASSUME TypeOK, EndInv, [Next]_vars
             PROVE  \A u \in Members : KeptBy(u)
  OBVIOUS
<1>t. /\ queue \in [Members -> Seq(Offsets \cup {End})]
      /\ held \in [Members -> Offsets \cup {Nothing, End}]
      /\ batch \in [Members -> Seq(Offsets)]
      /\ unfinished \in [Members -> SUBSET (1 .. BatchSize)]
      /\ \A w \in Members :
            /\ Len(queue[w]) \in Nat /\ Len(batch[w]) \in Nat
            /\ unfinished[w] \subseteq 1 .. Len(batch[w])
      /\ End \notin Offsets /\ Nothing \notin Offsets
  BY DEF TypeOK, End, Nothing, Offsets
<1>n. \A w \in Members : Len(queue[w]) \in Nat
  BY <1>t
<1>1. ASSUME NEW w \in Members,
             \/ Publish \/ UNCHANGED vars \/ FlushPartial(w)
             \/ Rebalance(w) \/ TakeOver(w)
      PROVE  \A u \in Members : KeptBy(u)
  <2>1. UNCHANGED <<held, queue, batch, unfinished, handled, interrupted>>
    BY <1>1 DEF Publish, vars, pipeline, FlushPartial, Rebalance, TakeOver
  <2>2. QED
    BY <2>1 DEF KeptBy, InHand
<1>2. ASSUME NEW w \in Members, Read(w)
      PROVE  \A u \in Members : KeptBy(u)
  <2>1. \A e \in Offsets : InHand(w, e) => InHand(w, e)'
    BY <1>2, <1>t DEF Read, InHand
  <2>2. QED
    BY <1>2, <2>1, <1>t, OneMemberKeeps DEF KeptBy, Read
<1>3. ASSUME NEW w \in Members, Put(w) \/ StopReading(w)
      PROVE  \A u \in Members : KeptBy(u)
  <2>1. \A e \in Offsets : InHand(w, e) => InHand(w, e)'
    <3>1. CASE Put(w)
      <4>1. /\ Len(queue'[w]) = Len(queue[w]) + 1
            /\ queue'[w][Len(queue[w]) + 1] = held[w]
            /\ \A i \in 1 .. Len(queue[w]) : queue'[w][i] = queue[w][i]
        BY <3>1, <1>t, AppendProperties DEF Put
      <4>2. UNCHANGED <<batch, unfinished>>
        BY <3>1 DEF Put
      <4>3. \E i \in 1 .. Len(queue'[w]) : queue'[w][i] = held[w]
        <5>1. Len(queue[w]) + 1 \in 1 .. Len(queue'[w])
          BY <4>1, <1>n
        <5>2. QED
          BY <4>1, <5>1
      <4>4. \A e \in Offsets :
               (\E i \in 1 .. Len(queue[w]) : queue[w][i] = e)
                   => \E i \in 1 .. Len(queue'[w]) : queue'[w][i] = e
        BY <4>1, <1>n
      <4>5. QED
        BY <4>2, <4>3, <4>4 DEF InHand
    <3>2. CASE StopReading(w)
      <4>1. /\ Len(queue'[w]) = Len(queue[w]) + 1
            /\ \A i \in 1 .. Len(queue[w]) : queue'[w][i] = queue[w][i]
        BY <3>2, <1>t, AppendProperties DEF StopReading
      <4>2. UNCHANGED <<batch, unfinished>> /\ held[w] = Nothing
        BY <3>2 DEF StopReading
      <4>3. \A e \in Offsets :
               (\E i \in 1 .. Len(queue[w]) : queue[w][i] = e)
                   => \E i \in 1 .. Len(queue'[w]) : queue'[w][i] = e
        BY <4>1, <1>n
      <4>4. QED
        BY <4>2, <4>3, <1>t DEF InHand
    <3>3. QED
      BY <1>3, <3>1, <3>2
  <2>2. /\ UNCHANGED <<batch, unfinished, handled, interrupted>>
        /\ \A u \in Members \ {w} : held'[u] = held[u] /\ queue'[u] = queue[u]
    BY <1>3, <1>t DEF Put, StopReading
  <2>3. QED
    BY <2>1, <2>2, OneMemberKeeps DEF KeptBy
<1>4. ASSUME NEW w \in Members, Take(w)
      PROVE  \A u \in Members : KeptBy(u)
  <2>1. /\ queue[w] # <<>> /\ Head(queue[w]) \in Offsets
        /\ Head(queue[w]) = queue[w][1]
        /\ Len(queue'[w]) = Len(queue[w]) - 1
        /\ \A i \in 1 .. Len(queue'[w]) : queue'[w][i] = queue[w][i + 1]
    BY <1>4, <1>t, HeadTailProperties DEF Take
  <2>2. /\ Len(batch'[w]) = Len(batch[w]) + 1
        /\ batch'[w][Len(batch[w]) + 1] = queue[w][1]
        /\ \A i \in 1 .. Len(batch[w]) : batch'[w][i] = batch[w][i]
    BY <1>4, <2>1, <1>t, AppendProperties DEF Take, Batched
  <2>3. unfinished'[w] = unfinished[w] \cup {Len(batch[w]) + 1} /\ UNCHANGED held
    BY <1>4, <1>t DEF Take
  <2>4. ASSUME NEW e \in Offsets, InHand(w, e) PROVE InHand(w, e)'
    <3>1. CASE held[w] = e
      BY <2>3, <3>1 DEF InHand
    <3>2. ASSUME NEW i \in 1 .. Len(queue[w]), queue[w][i] = e PROVE InHand(w, e)'
      <4>1. CASE i = 1
        BY <2>2, <2>3, <3>2, <4>1 DEF InHand
      <4>2. CASE i # 1
        <5>1. i - 1 \in 1 .. Len(queue'[w]) /\ i = (i - 1) + 1
          BY <2>1, <3>2, <4>2, <1>n
        <5>2. queue'[w][i - 1] = e
          BY <2>1, <5>1, <3>2
        <5>3. \E j \in 1 .. Len(queue'[w]) : queue'[w][j] = e
          BY <5>1, <5>2
        <5>4. QED
          BY <5>3 DEF InHand
      <4>3. QED
        BY <4>1, <4>2
    <3>3. ASSUME NEW i \in unfinished[w], batch[w][i] = e PROVE InHand(w, e)'
      BY <2>2, <2>3, <3>3, <1>t DEF InHand
    <3>4. QED
      BY <2>4, <3>1, <3>2, <3>3 DEF InHand
  <2>5. QED
    BY <1>4, <2>4, <1>t, OneMemberKeeps DEF KeptBy, Take
<1>5. ASSUME NEW w \in Members, TakeEnd(w)
      PROVE  \A u \in Members : KeptBy(u)
  <2>1. /\ queue[w] # <<>> /\ queue[w][1] = End
        /\ Len(queue'[w]) = Len(queue[w]) - 1
        /\ \A i \in 1 .. Len(queue'[w]) : queue'[w][i] = queue[w][i + 1]
    BY <1>5, <1>t, HeadTailProperties DEF TakeEnd
  <2>2. ASSUME NEW e \in Offsets, NEW i \in 1 .. Len(queue[w]), queue[w][i] = e
        PROVE  \E j \in 1 .. Len(queue'[w]) : queue'[w][j] = e
    <3>1. i # 1
      BY <2>1, <2>2, <1>t
    <3>2. i - 1 \in 1 .. Len(queue'[w]) /\ queue'[w][i - 1] = e
      BY <2>1, <2>2, <3>1, <1>t
    <3>3. QED
      BY <3>2
  <2>3. UNCHANGED <<held, batch, unfinished, handled, interrupted>>
    BY <1>5 DEF TakeEnd
  <2>4. \A e \in Offsets : InHand(w, e) => InHand(w, e)'
    BY <2>2, <2>3 DEF InHand
  <2>5. QED
    BY <1>5, <2>3, <2>4, <1>t, OneMemberKeeps DEF KeptBy, TakeEnd
<1>6. ASSUME NEW w \in Members, NEW i \in unfinished[w], Finish(w, i)
      PROVE  \A u \in Members : KeptBy(u)
  <2>1. \A e \in Offsets : InHand(w, e) => InHand(w, e)' \/ e \in handled'
    BY <1>6, <1>t DEF Finish, InHand
  <2>2. QED
    BY <1>6, <2>1, <1>t, OneMemberKeeps DEF KeptBy, Finish
<1>7. ASSUME NEW w \in Members, CommitBatch(w)
      PROVE  \A u \in Members : KeptBy(u)
  <2>1. \A e \in Offsets : InHand(w, e) => InHand(w, e)'
    BY <1>7, <1>t DEF CommitBatch, InHand
  <2>2. QED
    BY <1>7, <2>1, <1>t, OneMemberKeeps DEF KeptBy, CommitBatch
<1>8. ASSUME NEW w \in Members, Restart(w)
      PROVE  \A u \in Members : KeptBy(u)
  <2>1. held[w] = End /\ queue[w] = <<>>
    BY <1>8 DEF Restart, EndInv
  <2>2. \A e \in Offsets : InHand(w, e) => InHand(w, e)'
    BY <1>8, <2>1, <1>t DEF Restart, InHand
  <2>3. QED
    BY <1>8, <2>2, <1>t, OneMemberKeeps DEF KeptBy, Restart
<1>9. ASSUME NEW w \in Members, Crash(w)
      PROVE  \A u \in Members : KeptBy(u)
  <2>1. \A e \in Offsets : InHand(w, e) => e \in interrupted'
    BY <1>9 DEF Crash
  <2>2. QED
    BY <1>9, <2>1, <1>t, OneMemberKeeps DEF KeptBy, Crash
<1>10. QED
  BY <1>1, <1>2, <1>3, <1>4, <1>5, <1>6, <1>7, <1>8, <1>9, MembersAssumption
  DEF Next, Batcher

LEMMA CoveredStays ==
    TypeOK /\ EndInv /\ [Next]_vars
        => \A e \in Offsets : Covered(e) => Covered(e)'
<1> SUFFICES ASSUME TypeOK, EndInv, [Next]_vars
             PROVE  \A e \in Offsets : Covered(e) => Covered(e)'
  OBVIOUS
<1>1. handled \subseteq handled' /\ interrupted \subseteq interrupted'
  BY DEF Next, Publish, Read, Put, StopReading, Batcher, Take, FlushPartial, TakeEnd,
         CommitBatch, Restart, Finish, Crash, Rebalance, TakeOver, vars
<1>2. QED
  BY <1>1, HandsKept DEF Covered, KeptBy

\* What is committed, and what the owner will commit next, are events.
LEMMA InRange ==
    TypeOK => /\ 1 .. committed \subseteq Offsets
              /\ \A w \in Members : 1 .. position[w] \subseteq Offsets
<1> SUFFICES ASSUME TypeOK
             PROVE  /\ 1 .. committed \subseteq Offsets
                    /\ \A w \in Members : 1 .. position[w] \subseteq Offsets
  OBVIOUS
<1>1. /\ Len(log) \in Nat /\ Len(log) <= MaxEvents
      /\ committed \in {NoOffset} \cup (0 .. Len(log))
      /\ \A w \in Members : position[w] \in 0 .. Len(log)
  BY DEF TypeOK, KafkaTypeOK
<1>2. QED
  BY <1>1, BatchCollectorAssumption DEF Offsets, NoOffset

LEMMA NextCover == Inv /\ TypeOK' /\ [Next]_vars => CoverInv'
<1> SUFFICES ASSUME Inv, TypeOK', [Next]_vars PROVE CoverInv'
  OBVIOUS
<1> USE MembersAssumption
<1>i. TypeOK /\ EndInv /\ CoverInv
  BY DEF Inv
<1>t. /\ position \in [Members -> 0 .. Len(log)]
      /\ owner \in Members \cup {Nobody} /\ Nobody \notin Members
      /\ committed \in 0 .. Len(log) /\ Len(log) \in Nat
  BY <1>i DEF TypeOK, KafkaTypeOK, CoverInv, Nobody
<1>k. \A e \in Offsets : Covered(e) => Covered(e)'
  BY <1>i, CoveredStays
<1>r. /\ 1 .. committed \subseteq Offsets
      /\ \A w \in Members : 1 .. position[w] \subseteq Offsets
  BY <1>i, InRange
<1>c. /\ \A e \in 1 .. committed : Covered(e)'
      /\ owner \in Members => \A e \in 1 .. position[owner] : Covered(e)'
  BY <1>i, <1>t, <1>k, <1>r DEF CoverInv
<1>1. ASSUME UNCHANGED <<committed, owner, position>> PROVE CoverInv'
  BY <1>1, <1>i, <1>c DEF CoverInv
<1>2. ASSUME NEW w \in Members, Read(w) PROVE CoverInv'
  <2>1. /\ owner = w /\ UNCHANGED <<committed, owner>>
        /\ position'[w] = position[w] + 1 /\ held'[w] = position[w] + 1
    BY <1>2, <1>i, <1>t DEF Read, Fetch, TypeOK
  <2>2. Covered(held[w])'
    BY DEF Covered, InHand
  <2>3. \A e \in 1 .. position'[w] : Covered(e)'
    BY <2>1, <2>2, <1>c, <1>t
  <2>4. QED
    BY <2>1, <2>3, <1>c, <1>i DEF CoverInv
<1>3. ASSUME NEW w \in Members, CommitBatch(w) PROVE CoverInv'
  <2>1. CASE UNCHANGED kafkaVars
    BY <2>1, <1>1 DEF kafkaVars
  <2>2. CASE CommitPosition(w)
    <3>1. /\ committed' = IF owner = w THEN position[w] ELSE committed
          /\ UNCHANGED <<owner, position>>
      BY <2>2 DEF CommitPosition
    <3>2. committed' \in Nat
      BY <3>1, <1>3, <1>t
    <3>3. \A e \in 1 .. committed' : Covered(e)'
      BY <3>1, <1>3, <1>c
    <3>4. QED
      BY <3>1, <3>2, <3>3, <1>c DEF CoverInv, NoOffset
  <2>3. QED
    BY <1>3, <2>1, <2>2 DEF CommitBatch
<1>4. ASSUME NEW w \in Members, Crash(w) PROVE CoverInv'
  <2>1. /\ UNCHANGED <<committed, position>>
        /\ owner' = owner \/ owner' = Nobody
    BY <1>4 DEF Crash, Leave
  <2>2. QED
    BY <2>1, <1>c, <1>i, <1>t DEF CoverInv
<1>5. ASSUME NEW w \in Members, Rebalance(w) \/ TakeOver(w) PROVE CoverInv'
  <2>1. /\ UNCHANGED committed /\ owner' = w
        /\ position' = [position EXCEPT ![w] =
                           IF committed = NoOffset THEN Len(log) ELSE committed]
    BY <1>5 DEF Rebalance, TakeOver, Assign
  <2>2. committed # NoOffset /\ position'[w] = committed
    BY <2>1, <1>t DEF NoOffset
  <2>3. QED
    BY <2>1, <2>2, <1>c, <1>i DEF CoverInv
<1>6. CASE Publish \/ UNCHANGED vars
  <2>1. UNCHANGED <<committed, owner, position>>
    BY <1>6 DEF Publish, Append1, vars, kafkaVars
  <2>2. QED
    BY <2>1, <1>1
<1>7. ASSUME NEW w \in Members,
             \/ Put(w) \/ StopReading(w) \/ Take(w) \/ FlushPartial(w)
             \/ TakeEnd(w) \/ Restart(w)
             \/ \E i \in unfinished[w] : Finish(w, i)
      PROVE  CoverInv'
  <2>1. UNCHANGED <<committed, owner, position>>
    BY <1>7 DEF Put, StopReading, Take, FlushPartial, TakeEnd, Restart, Finish,
                kafkaVars
  <2>2. QED
    BY <2>1, <1>1
<1>8. QED
  BY <1>2, <1>3, <1>4, <1>5, <1>6, <1>7 DEF Next, Batcher

-----------------------------------------------------------------------------
LEMMA InvHolds == Spec => []Inv
<1>1. Inv /\ [Next]_vars => Inv'
  BY NextTypes, NextEnd, NextBatch, NextCover DEF Inv
<1>2. QED
  BY InitInv, <1>1, PTL DEF Spec

\* The pipeline stays within its bounds: no queue is longer than its maxsize
\* and no batch larger than MAX_CONCURRENT_MESSAGES.
THEOREM CollectorTypes == Spec => []TypeOK
<1>1. Inv => TypeOK
  BY DEF Inv
<1>2. QED
  BY InvHolds, <1>1, PTL

\* The pipeline loses no event: whatever the commit passes was handled, is in
\* somebody's hands, or was when its process died.
THEOREM NothingIsLost == Spec => []NothingVanishes
<1>1. Inv => NothingVanishes
  BY DEF Inv, CoverInv, Covered, NothingVanishes
<1>2. QED
  BY InvHolds, <1>1, PTL

-----------------------------------------------------------------------------
(* How far the commit is ahead of the work.                                *)

Missing == {e \in 1 .. committed : e \notin handled}

\* What the next commit of w passes and w does not even have in hand: read by
\* a former owner, or by w before it lost the partition.
Elsewhere == [w \in Members |->
    {e \in 1 .. position[w] : e \notin handled /\ ~InHand(w, e)}]

\* What d crashes or changes of owner may leave behind.
Allowance(d) == (QueueSize + 1) * d

\* Each crash or change of owner leaves behind what one reader can have
\* prefetched, and the next commit adds what the owner has prefetched now.
AheadInv ==
    /\ Cardinality(Missing) <= Allowance(disruptions + 1)
    /\ owner = Nobody => Cardinality(Missing) <= Allowance(disruptions)
    /\ owner \in Members =>
          Cardinality(Elsewhere[owner]) <= Allowance(disruptions)

\* Both are finite sets of events.
LEMMA AheadTypes ==
    TypeOK =>
        /\ Missing \subseteq Offsets /\ IsFiniteSet(Missing)
        /\ \A w \in Members :
              Elsewhere[w] \subseteq Offsets /\ IsFiniteSet(Elsewhere[w])
<1> SUFFICES ASSUME TypeOK
             PROVE  /\ Missing \subseteq Offsets /\ IsFiniteSet(Missing)
                    /\ \A w \in Members :
                          Elsewhere[w] \subseteq Offsets /\ IsFiniteSet(Elsewhere[w])
  OBVIOUS
<1>1. IsFiniteSet(Offsets)
  BY FS_Interval, BatchCollectorAssumption DEF Offsets
<1>2. Missing \in SUBSET Offsets /\ \A w \in Members : Elsewhere[w] \in SUBSET Offsets
  BY InRange DEF Missing, Elsewhere
<1>3. QED
  BY <1>1, <1>2, FS_Subset

LEMMA AheadNextTypes ==
    TypeOK' =>
        /\ IsFiniteSet(Missing')
        /\ \A w \in Members : IsFiniteSet(Elsewhere'[w])
<1> SUFFICES ASSUME TypeOK'
             PROVE  /\ IsFiniteSet(Missing')
                    /\ \A w \in Members : IsFiniteSet(Elsewhere'[w])
  OBVIOUS
<1>1. /\ Len(log') \in Nat /\ Len(log') <= MaxEvents
      /\ committed' \in {NoOffset} \cup (0 .. Len(log'))
      /\ \A w \in Members : position'[w] \in 0 .. Len(log')
  BY DEF TypeOK, KafkaTypeOK
<1>2. /\ Missing' \in SUBSET Offsets
      /\ \A w \in Members : Elsewhere'[w] \in SUBSET Offsets
  BY <1>1, BatchCollectorAssumption DEF Missing, Elsewhere, Offsets, NoOffset
<1>3. IsFiniteSet(Offsets)
  BY FS_Interval, BatchCollectorAssumption DEF Offsets
<1>4. QED
  BY <1>2, <1>3, FS_Subset

\* A smaller finite set has no more elements.
LEMMA Fewer ==
    ASSUME NEW S, IsFiniteSet(S), NEW T, T \subseteq S
    PROVE  Cardinality(T) <= Cardinality(S) /\ Cardinality(T) \in Nat
                                            /\ Cardinality(S) \in Nat
BY FS_Subset, FS_CardinalityType

\* What a reader has prefetched: the queue and the record it holds.
Prefetched(w) == {queue[w][i] : i \in 1 .. Len(queue[w])} \cup {held[w]}

LEMMA PrefetchBounded ==
    ASSUME TypeOK, NEW w \in Members
    PROVE  /\ IsFiniteSet(Prefetched(w))
           /\ Cardinality(Prefetched(w)) \in Nat
           /\ Cardinality(Prefetched(w)) <= QueueSize + 1
<1> DEFINE n == Len(queue[w])
           S == {queue[w][i] : i \in 1 .. n}
           f == [i \in 1 .. n |-> queue[w][i]]
<1>1. n \in Nat /\ n <= QueueSize
  BY DEF TypeOK
<1>2. IsFiniteSet(1 .. n) /\ Cardinality(1 .. n) <= n
  BY <1>1, FS_Interval
<1>3. f \in Surjection(1 .. n, S)
  BY DEF Surjection
<1>4. IsFiniteSet(S) /\ Cardinality(S) <= Cardinality(1 .. n)
  <2> HIDE DEF f, S, n
  <2> QED
    BY <1>2, <1>3, FS_Surjection
<1>5. Cardinality(1 .. n) \in Nat /\ Cardinality(S) \in Nat
  BY <1>2, <1>4, FS_CardinalityType
<1>6. /\ IsFiniteSet(S \cup {held[w]})
      /\ Cardinality(S \cup {held[w]}) <= Cardinality(S) + 1
      /\ Cardinality(S \cup {held[w]}) \in Nat
  <2> HIDE DEF S
  <2>1. /\ IsFiniteSet(S \cup {held[w]})
        /\ \/ Cardinality(S \cup {held[w]}) = Cardinality(S)
           \/ Cardinality(S \cup {held[w]}) = Cardinality(S) + 1
    BY <1>4, FS_AddElement
  <2>2. Cardinality(S \cup {held[w]}) \in Nat
    BY <2>1, FS_CardinalityType
  <2> QED
    BY <1>5, <2>1, <2>2
<1>7. QED
  BY <1>1, <1>2, <1>4, <1>5, <1>6, BatchCollectorAssumption DEF Prefetched

LEMMA Disrupted ==
    ASSUME NEW d \in Nat
    PROVE  /\ Allowance(d) \in Nat
           /\ Allowance(d + 1) = Allowance(d) + (QueueSize + 1)
<1>1. QueueSize + 1 \in Nat
  BY BatchCollectorAssumption
<1>2. ASSUME NEW q \in Nat
      PROVE  q * d \in Nat /\ q * (d + 1) = q * d + q
  OBVIOUS
<1>3. QED
  BY <1>1, <1>2 DEF Allowance

LEMMA InitAhead == Init => AheadInv
<1> SUFFICES ASSUME Init PROVE AheadInv
  OBVIOUS
<1>1. Missing = {} /\ disruptions = 0 /\ owner = Nobody
  BY DEF Init, KafkaInit, Missing
<1>2. Cardinality(Missing) = 0
  BY <1>1, FS_EmptySet
<1>3. QED
  <2>1. Allowance(0) \in Nat /\ Allowance(0 + 1) \in Nat
    BY Disrupted
  <2>2. owner \notin Members
    BY <1>1, MembersAssumption DEF Nobody
  <2>3. QED
    BY <1>1, <1>2, <2>1, <2>2 DEF AheadInv

LEMMA NextAhead == Inv /\ AheadInv /\ TypeOK' /\ [Next]_vars => AheadInv'
<1> SUFFICES ASSUME Inv, AheadInv, TypeOK', [Next]_vars PROVE AheadInv'
  OBVIOUS
<1> USE MembersAssumption, BatchCollectorAssumption
<1>i. TypeOK /\ EndInv /\ CoverInv
  BY DEF Inv
<1>t. /\ position \in [Members -> 0 .. Len(log)]
      /\ owner \in Members \cup {Nobody} /\ Nobody \notin Members
      /\ committed \in 0 .. Len(log) /\ Len(log) \in Nat
      /\ disruptions \in Nat
  BY <1>i DEF TypeOK, KafkaTypeOK, CoverInv, Nobody
<1>f. /\ IsFiniteSet(Missing) /\ IsFiniteSet(Missing')
      /\ \A w \in Members : IsFiniteSet(Elsewhere[w]) /\ IsFiniteSet(Elsewhere'[w])
  BY <1>i, AheadTypes, AheadNextTypes
<1>h. handled \subseteq handled' /\ (disruptions' = disruptions \/ disruptions' = disruptions + 1)
  BY DEF Next, Publish, Read, Put, StopReading, Batcher, Take, FlushPartial, TakeEnd,
         CommitBatch, Restart, Finish, Crash, Rebalance, TakeOver, vars
<1>q. /\ Allowance(disruptions) \in Nat /\ Allowance(disruptions') \in Nat
      /\ Allowance(disruptions + 1) = Allowance(disruptions) + (QueueSize + 1)
      /\ Allowance(disruptions' + 1) = Allowance(disruptions') + (QueueSize + 1)
      /\ Allowance(disruptions) <= Allowance(disruptions')
      /\ QueueSize + 1 \in Nat
  <2>1. disruptions' \in Nat
    BY <1>h, <1>t
  <2>2. /\ Allowance(disruptions) \in Nat /\ Allowance(disruptions') \in Nat
        /\ Allowance(disruptions + 1) = Allowance(disruptions) + (QueueSize + 1)
        /\ Allowance(disruptions' + 1) = Allowance(disruptions') + (QueueSize + 1)
    BY <2>1, <1>t, Disrupted
  <2>3. QueueSize + 1 \in Nat /\ QueueSize + 1 >= 0
    OBVIOUS
  <2>4. CASE disruptions' = disruptions
    BY <2>2, <2>3, <2>4
  <2>5. CASE disruptions' = disruptions + 1
    BY <2>2, <2>3, <2>5
  <2>6. QED
    BY <1>h, <2>4, <2>5
<1>m. Cardinality(Missing) <= Allowance(disruptions + 1)
  BY DEF AheadInv
\* Events only become fewer where the offsets stay.
<1>s. ASSUME UNCHANGED committed
      PROVE  /\ Cardinality(Missing') <= Cardinality(Missing)
             /\ Cardinality(Missing') \in Nat /\ Cardinality(Missing) \in Nat
             /\ Cardinality(Missing') <= Allowance(disruptions' + 1)
  <2>1. Missing' \subseteq Missing
    BY <1>s, <1>h DEF Missing
  <2>2. /\ Cardinality(Missing') <= Cardinality(Missing)
        /\ Cardinality(Missing') \in Nat /\ Cardinality(Missing) \in Nat
    BY <2>1, <1>f, Fewer
  <2>3. QED
    BY <2>2, <1>m, <1>q
\* An owner that keeps what it has in hand.
<1>1. ASSUME UNCHANGED <<committed, owner, position>>,
             owner \in Members => ~Crash(owner)
      PROVE  AheadInv'
  <2>1. Cardinality(Missing') <= Allowance(disruptions' + 1) /\ (owner' = Nobody =>
            Cardinality(Missing') <= Allowance(disruptions'))
    BY <1>1, <1>s, <1>q DEF AheadInv
  <2>2. ASSUME owner \in Members
        PROVE  Cardinality(Elsewhere'[owner]) <= Allowance(disruptions')
    <3>1. KeptBy(owner) /\ ~Crash(owner)
      BY <2>2, <1>1, <1>i, HandsKept
    <3>2. 1 .. position[owner] \subseteq Offsets
      BY <2>2, <1>i, InRange
    <3>3. Elsewhere'[owner] \subseteq Elsewhere[owner]
      <4> SUFFICES ASSUME NEW e \in Elsewhere'[owner] PROVE e \in Elsewhere[owner]
        OBVIOUS
      <4>1. e \in 1 .. position[owner] /\ e \notin handled' /\ ~InHand(owner, e)'
        BY <1>1, <2>2 DEF Elsewhere
      <4>2. ~InHand(owner, e)
        BY <3>1, <3>2, <4>1 DEF KeptBy
      <4>3. QED
        BY <4>1, <4>2, <1>h, <2>2 DEF Elsewhere
    <3>4. /\ Cardinality(Elsewhere'[owner]) <= Cardinality(Elsewhere[owner])
          /\ Cardinality(Elsewhere'[owner]) \in Nat
          /\ Cardinality(Elsewhere[owner]) \in Nat
      BY <3>3, <2>2, <1>f, Fewer
    <3>5. QED
      BY <3>4, <2>2, <1>q DEF AheadInv
  <2>3. QED
    BY <2>1, <2>2, <1>1 DEF AheadInv
<1>2. ASSUME NEW w \in Members, Read(w) PROVE AheadInv'
  <2>1. /\ owner = w /\ UNCHANGED <<committed, owner, disruptions>>
        /\ position'[w] = position[w] + 1 /\ held'[w] = position[w] + 1
    BY <1>2, <1>i, <1>t DEF Read, Fetch, TypeOK
  <2>2. ~Crash(w)
    BY <2>1, <1>t DEF Crash
  <2>3. ASSUME NEW e, e = position[w] + 1 PROVE InHand(w, e)'
    BY <2>1, <2>3 DEF InHand
  <2>4. 1 .. position[w] \subseteq Offsets /\ KeptBy(w)
    BY <1>i, InRange, HandsKept
  <2>5. Elsewhere'[w] \subseteq Elsewhere[w]
    <3> SUFFICES ASSUME NEW e \in Elsewhere'[w] PROVE e \in Elsewhere[w]
      OBVIOUS
    <3>1. e \in 1 .. position'[w] /\ e \notin handled' /\ ~InHand(w, e)'
      BY DEF Elsewhere
    <3>2. e # position[w] + 1
      BY <3>1, <2>3
    <3>3. e \in 1 .. position[w]
      BY <3>1, <3>2, <2>1, <1>t
    <3>4. ~InHand(w, e)
      BY <3>1, <3>3, <2>2, <2>4 DEF KeptBy
    <3>5. QED
      BY <3>1, <3>3, <3>4, <1>h DEF Elsewhere
  <2>6. /\ Cardinality(Elsewhere'[w]) <= Cardinality(Elsewhere[w])
        /\ Cardinality(Elsewhere'[w]) \in Nat /\ Cardinality(Elsewhere[w]) \in Nat
    BY <2>5, <1>f, Fewer
  <2>7. QED
    BY <2>1, <2>6, <1>s, <1>t, <1>q DEF AheadInv
<1>3. ASSUME NEW w \in Members, CommitBatch(w) PROVE AheadInv'
  <2>1. CASE UNCHANGED <<committed, owner, position>>
    <3>1. \A u \in Members : Crash(u) => disruptions' = disruptions + 1
      BY DEF Crash
    <3>2. disruptions' = disruptions
      BY <1>3 DEF CommitBatch
    <3>3. QED
      BY <2>1, <3>1, <3>2, <1>1, <1>t
  <2>2. CASE owner = w /\ committed' = position[w] /\ UNCHANGED <<owner, position>>
    <3>1. /\ unfinished[w] = {} /\ UNCHANGED <<held, queue, unfinished, handled, disruptions>>
      BY <1>3 DEF CommitBatch
    <3>2. Missing' \subseteq Elsewhere[w] \cup Prefetched(w)
      BY <2>2, <3>1 DEF Missing, Elsewhere, InHand, Prefetched
    <3>3. /\ IsFiniteSet(Prefetched(w)) /\ Cardinality(Prefetched(w)) \in Nat
          /\ Cardinality(Prefetched(w)) <= QueueSize + 1
      BY <1>i, PrefetchBounded
    <3>4. /\ IsFiniteSet(Elsewhere[w] \cup Prefetched(w))
          /\ Cardinality(Elsewhere[w] \cup Prefetched(w))
                <= Cardinality(Elsewhere[w]) + Cardinality(Prefetched(w))
      <4>1. IsFiniteSet(Elsewhere[w] \cap Prefetched(w))
        BY <3>3, <1>f, FS_Subset
      <4>2. Cardinality(Elsewhere[w] \cap Prefetched(w)) \in Nat
        BY <4>1, FS_CardinalityType
      <4>3. Cardinality(Elsewhere[w]) \in Nat
        BY <1>f, FS_CardinalityType
      <4>4. /\ IsFiniteSet(Elsewhere[w] \cup Prefetched(w))
            /\ Cardinality(Elsewhere[w] \cup Prefetched(w))
                  = Cardinality(Elsewhere[w]) + Cardinality(Prefetched(w))
                       - Cardinality(Elsewhere[w] \cap Prefetched(w))
        BY <3>3, <1>f, FS_Union
      <4>5. QED
        BY <4>2, <4>3, <4>4, <3>3
    <3>5. /\ Cardinality(Missing') <= Cardinality(Elsewhere[w] \cup Prefetched(w))
          /\ Cardinality(Missing') \in Nat
          /\ Cardinality(Elsewhere[w] \cup Prefetched(w)) \in Nat
      BY <3>2, <3>4, Fewer
    <3>6. Cardinality(Elsewhere[w]) \in Nat
      BY <1>f, FS_CardinalityType
    <3>7. Cardinality(Elsewhere[w]) <= Allowance(disruptions)
      BY <2>2 DEF AheadInv
    <3>8. Cardinality(Missing') <= Allowance(disruptions' + 1)
      BY <3>1, <3>3, <3>4, <3>5, <3>6, <3>7, <1>q
    <3>9. Elsewhere'[w] = Elsewhere[w]
      BY <2>2, <3>1, <1>3 DEF Elsewhere, InHand
    <3>10. QED
      BY <2>2, <3>1, <3>7, <3>8, <3>9, <1>t DEF AheadInv
  <2>3. QED
    BY <1>3, <2>1, <2>2 DEF CommitBatch, CommitPosition, kafkaVars
<1>4. ASSUME NEW w \in Members, Crash(w) PROVE AheadInv'
  <2>1. /\ UNCHANGED <<committed, position, handled>> /\ disruptions' = disruptions + 1
        /\ owner' = IF owner = w THEN Nobody ELSE owner
        /\ \A u \in Members \ {w} :
              /\ held'[u] = held[u] /\ queue'[u] = queue[u]
              /\ batch'[u] = batch[u] /\ unfinished'[u] = unfinished[u]
    BY <1>4, <1>i DEF Crash, Leave, TypeOK
  <2>2. owner' = Nobody => Cardinality(Missing') <= Allowance(disruptions')
    BY <2>1, <1>s, <1>m, <1>q
  <2>3. ASSUME owner' \in Members
        PROVE  Cardinality(Elsewhere'[owner']) <= Allowance(disruptions')
    <3>1. owner' = owner /\ owner \in Members \ {w}
      BY <2>1, <2>3, <1>t
    <3>2. Elsewhere'[owner] = Elsewhere[owner]
      BY <2>1, <3>1 DEF Elsewhere, InHand
    <3>3. Cardinality(Elsewhere[owner]) \in Nat
      BY <3>1, <1>f, FS_CardinalityType
    <3>4. QED
      BY <3>1, <3>2, <3>3, <1>q DEF AheadInv
  <2>4. QED
    BY <2>1, <2>2, <2>3, <1>s DEF AheadInv
<1>5. ASSUME NEW w \in Members, Rebalance(w) \/ TakeOver(w) PROVE AheadInv'
  <2>1. /\ UNCHANGED <<committed, handled>> /\ owner' = w /\ position'[w] = committed
    BY <1>5, <1>t DEF Rebalance, TakeOver, Assign, NoOffset
  <2>2. Elsewhere'[w] \subseteq Missing
    BY <2>1 DEF Elsewhere, Missing
  <2>3. /\ Cardinality(Elsewhere'[w]) <= Cardinality(Missing)
        /\ Cardinality(Elsewhere'[w]) \in Nat /\ Cardinality(Missing) \in Nat
    BY <2>2, <1>f, Fewer
  <2>4. Cardinality(Missing) <= Allowance(disruptions')
    <3>1. CASE Rebalance(w)
      <4>1. disruptions' = disruptions + 1
        BY <3>1 DEF Rebalance
      <4>2. QED
        BY <4>1, <1>m
    <3>2. CASE TakeOver(w)
      BY <3>2, <1>q DEF TakeOver, AheadInv
    <3>3. QED
      BY <1>5, <3>1, <3>2
  <2>5. QED
    BY <2>1, <2>3, <2>4, <1>s, <1>q, <1>t DEF AheadInv
<1>6. ASSUME \/ Publish \/ UNCHANGED vars
             \/ \E w \in Members :
                   \/ Put(w) \/ StopReading(w) \/ Take(w) \/ FlushPartial(w)
                   \/ TakeEnd(w) \/ Restart(w)
                   \/ \E i \in unfinished[w] : Finish(w, i)
      PROVE  AheadInv'
  <2>1. UNCHANGED <<committed, owner, position, interrupted>>
    BY <1>6 DEF Publish, Append1, vars, kafkaVars, Put, StopReading, Take,
                FlushPartial, TakeEnd, Restart, Finish
  <2>2. owner \in Members => ~Crash(owner)
    BY <2>1, <1>t DEF Crash, Leave
  <2>3. QED
    BY <2>1, <2>2, <1>1
<1>7. QED
  BY <1>2, <1>3, <1>4, <1>5, <1>6 DEF Next, Batcher

\* The commit runs ahead of the work by no more than one reader can have
\* prefetched, once for now and once for each crash or change of owner.
THEOREM CommitNotFarAhead == Spec => []CommitAheadBounded
<1>1. Inv /\ AheadInv /\ [Next]_vars => Inv' /\ AheadInv'
  BY NextTypes, NextEnd, NextBatch, NextCover, NextAhead DEF Inv
<1>2. AheadInv => CommitAheadBounded
  BY DEF AheadInv, CommitAheadBounded, Missing, Allowance
<1>3. QED
  BY InitInv, InitAhead, <1>1, <1>2, PTL DEF Spec
=============================================================================
