----------------------------- MODULE SpscProofs -----------------------------
(***************************************************************************)
(* SpscQueue keeps its invariant and implements RedoFifo, for every        *)
(* capacity, every set of elements and both kinds of Put.                  *)
(***************************************************************************)
EXTENDS SpscQueue, SequenceTheorems, TLAPS

\* How many elements lie between two indexes, and how many more fit: one slot
\* is never used (COUNT and SPACE of spsc_blocking_queue.cpp).
LEMMA CountSpace ==
    ASSUME NEW h \in Indexes, NEW t \in Indexes
    PROVE  /\ COUNT(h, t) \in 0 .. Capacity - 1
           /\ SPACE(h, t) = (Capacity - 1) - COUNT(h, t)
BY CapacityAssumption DEF Indexes, COUNT, SPACE

\* What happens to the count when the producer publishes one more element.
LEMMA HeadMoves ==
    ASSUME NEW h \in Indexes, NEW t \in Indexes, SPACE(h, t) # 0
    PROVE  /\ Wrap(h + 1) \in Indexes
           /\ COUNT(Wrap(h + 1), t) = COUNT(h, t) + 1
           /\ Wrap(t + COUNT(h, t)) = h
BY CapacityAssumption DEF Indexes, COUNT, SPACE, Wrap

\* What happens to the count when the consumer removes n elements.
LEMMA TailMoves ==
    ASSUME NEW h \in Indexes, NEW t \in Indexes, NEW n \in 0 .. COUNT(h, t)
    PROVE  /\ Wrap(t + n) \in Indexes
           /\ COUNT(h, Wrap(t + n)) = COUNT(h, t) - n
           /\ \A i \in 0 .. Capacity - 1 :
                 i + n < COUNT(h, t) => Wrap(Wrap(t + n) + i) = Wrap(t + (i + n))
BY CapacityAssumption, CountSpace DEF Indexes, COUNT, Wrap

\* The slot at the write index holds no element of the queue.
LEMMA HeadIsFree ==
    ASSUME NEW h \in Indexes, NEW t \in Indexes,
           NEW i \in Nat, i < COUNT(h, t)
    PROVE  Wrap(t + i) \in Indexes /\ Wrap(t + i) # h
BY CapacityAssumption DEF Indexes, COUNT, Wrap

\* GetAll offers at least one element, none that is not there, and does not run
\* over the end of the array.
LEMMA BatchFits ==
    ASSUME NEW h \in Indexes, NEW t \in Indexes, COUNT(h, t) # 0
    PROVE  /\ BatchSize(h, t) \in 1 .. COUNT(h, t)
           /\ t + BatchSize(h, t) <= Capacity
BY CapacityAssumption DEF Indexes, COUNT, BatchSize

\* Within a batch the array is read without a wrap.
LEMMA NoWrapInBatch ==
    ASSUME NEW t \in Indexes, NEW i \in Nat, t + i < Capacity
    PROVE  Wrap(t + i) = t + i
BY CapacityAssumption DEF Indexes, Wrap

-----------------------------------------------------------------------------

\* The invariant holds of a new queue (SPSCBlockingQueueCreate).
LEMMA InitInv == Init => IInv
<1> SUFFICES ASSUME Init PROVE IInv
    OBVIOUS
<1>1. TypeOK
    BY CapacityAssumption, PutLimitAssumption, EmptySeq
    DEF Init, TypeOK, Indexes
<1>2. COUNT(writeHead, readTail) = 0
    BY CapacityAssumption DEF Init, COUNT
<1> QED
    BY <1>1, <1>2 DEF Init, IInv, ProducerInv, QueueInv, ConsumerInv

\* The steps of Put keep the invariant: the slot is free until it is published.
LEMMA ProducerKeepsInv ==
    ASSUME IInv, (\E e \in Elements : PutStart(e)) \/ ProducerProgress
    PROVE  IInv'
<1> USE DEF IInv
<1>0. /\ COUNT(writeHead, readTail) \in 0 .. Capacity - 1
      /\ writeHead \in Indexes /\ readTail \in Indexes
    BY CountSpace DEF TypeOK
<1>1. CASE \E e \in Elements : PutStart(e)
    BY <1>1, PutLimitAssumption DEF PutStart, consumerVars, TypeOK, ProducerInv,
       QueueInv, ConsumerInv
<1>2. CASE PutFull
    BY <1>2, PutLimitAssumption DEF PutFull, consumerVars, TypeOK, ProducerInv,
       QueueInv, ConsumerInv
<1>3. CASE PutGivesUp
    BY <1>3 DEF PutGivesUp, consumerVars, TypeOK, ProducerInv, QueueInv,
       ConsumerInv
<1>4. CASE PutFindsSpace
    BY <1>4 DEF PutFindsSpace, consumerVars, TypeOK, ProducerInv, QueueInv,
       ConsumerInv
<1>5. CASE PutWrite
    <2>1. TypeOK' /\ ProducerInv'
        BY <1>5 DEF PutWrite, consumerVars, TypeOK, ProducerInv
    <2>2. \A i \in 1 .. COUNT(writeHead, readTail) :
             buffer'[Wrap(readTail + (i - 1))] = buffer[Wrap(readTail + (i - 1))]
        <3> TAKE i \in 1 .. COUNT(writeHead, readTail)
        <3>1. i - 1 \in Nat /\ i - 1 < COUNT(writeHead, readTail)
            BY <1>0
        <3>2. Wrap(readTail + (i - 1)) \in Indexes \ {writeHead}
            BY <3>1, <1>0, HeadIsFree
        <3> QED
            BY <3>2, <1>5 DEF PutWrite, TypeOK
    <2>3. QueueInv'
        BY <2>2, <1>5 DEF PutWrite, QueueInv
    <2>4. ConsumerInv'
        <3> SUFFICES ASSUME cpc # "idle"
                     PROVE  \A i \in 1 .. Len(got) :
                               got[i] = buffer'[readTail + (i - 1)]
            BY <1>5 DEF PutWrite, consumerVars, ConsumerInv
        <3> TAKE i \in 1 .. Len(got)
        <3>1. /\ Len(got) \in Nat /\ Len(got) <= batch
              /\ batch \in 1 .. COUNT(writeHead, readTail)
              /\ readTail + batch <= Capacity
              /\ got[i] = buffer[readTail + (i - 1)]
            BY LenProperties DEF TypeOK, ConsumerInv
        <3>2. /\ i \in 1 .. COUNT(writeHead, readTail)
              /\ i - 1 \in Nat /\ readTail + (i - 1) < Capacity
            BY <3>1, <1>0, CapacityAssumption DEF Indexes
        <3>3. Wrap(readTail + (i - 1)) = readTail + (i - 1)
            BY <3>2, <1>0, NoWrapInBatch
        <3> QED
            BY <3>1, <3>2, <3>3, <2>2
    <2> QED
        BY <2>1, <2>3, <2>4
<1>6. CASE PutPublish
    <2>1. /\ SPACE(writeHead, readTail) # 0
          /\ buffer[writeHead] = pelem /\ pelem \in Elements
        BY <1>6 DEF PutPublish, ProducerInv
    <2>2. /\ writeHead' \in Indexes
          /\ COUNT(writeHead', readTail) = COUNT(writeHead, readTail) + 1
          /\ Wrap(readTail + COUNT(writeHead, readTail)) = writeHead
        BY <2>1, <1>0, <1>6, HeadMoves DEF PutPublish
    <2>3. TypeOK' /\ ProducerInv'
        BY <1>6, <2>2 DEF PutPublish, consumerVars, TypeOK, ProducerInv
    <2>4. QueueInv'
        <3> SUFFICES ASSUME NEW i \in 1 .. COUNT(writeHead, readTail) + 1
                     PROVE  buffer[Wrap(readTail + (i - 1))] \in Elements
            BY <1>6, <2>2 DEF PutPublish, QueueInv
        <3>1. CASE i \in 1 .. COUNT(writeHead, readTail)
            BY <3>1 DEF QueueInv
        <3>2. CASE i - 1 = COUNT(writeHead, readTail)
            BY <3>2, <2>1, <2>2
        <3> QED
            BY <3>1, <3>2, <1>0
    <2>5. ConsumerInv'
        BY <1>6, <2>2, <1>0 DEF PutPublish, consumerVars, ConsumerInv
    <2> QED
        BY <2>3, <2>4, <2>5
<1> QED
    BY <1>1, <1>2, <1>3, <1>4, <1>5, <1>6 DEF ProducerProgress

\* What the consumer holds is what the array holds at the read index; nothing
\* it does to its own copies touches the producer.
LEMMA ReadKeepsInv ==
    ASSUME IInv, (\E op \in {"take", "top", "all"} : ConsumeStart(op))
                 \/ ReadElement
    PROVE  IInv'
<1> USE DEF IInv
<1>0. /\ COUNT(writeHead, readTail) \in 0 .. Capacity - 1
      /\ writeHead \in Indexes /\ readTail \in Indexes
    BY CountSpace DEF TypeOK
<1>1. CASE \E op \in {"take", "top", "all"} : ConsumeStart(op)
    <2> PICK op \in {"take", "top", "all"} : ConsumeStart(op)
        BY <1>1
    <2>1. /\ BatchSize(writeHead, readTail) \in 1 .. COUNT(writeHead, readTail)
          /\ readTail + BatchSize(writeHead, readTail) <= Capacity
        BY <1>0, BatchFits DEF ConsumeStart
    <2>2. /\ batch' \in 1 .. COUNT(writeHead, readTail)
          /\ readTail + batch' <= Capacity
          /\ cpc' # "all" => batch' = 1
        BY <2>1, <1>0, CapacityAssumption DEF ConsumeStart, Indexes
    <2>3. got' = <<>> /\ got' \in Seq(Elements) /\ Len(got') = 0
        BY EmptySeq DEF ConsumeStart
    <2>4. TypeOK' /\ ProducerInv' /\ QueueInv'
        BY <2>2, <2>3, <1>0 DEF ConsumeStart, producerVars, TypeOK, ProducerInv,
           QueueInv
    <2>5. ConsumerInv'
        BY <2>2, <2>3, <1>0 DEF ConsumeStart, ConsumerInv
    <2> QED
        BY <2>4, <2>5
<1>2. CASE ReadElement
    <2>1. /\ Len(got) \in Nat /\ Len(got) < batch
          /\ batch \in 1 .. COUNT(writeHead, readTail)
          /\ readTail + batch <= Capacity
          /\ \A i \in 1 .. Len(got) : got[i] = buffer[readTail + (i - 1)]
        BY <1>2, LenProperties DEF ReadElement, TypeOK, ConsumerInv
    <2>2. Wrap(readTail + Len(got)) = readTail + Len(got)
        BY <2>1, <1>0, CapacityAssumption, NoWrapInBatch DEF Indexes
    <2>3. Len(got) + 1 \in 1 .. COUNT(writeHead, readTail)
        BY <2>1, <1>0
    <2>4. buffer[Wrap(readTail + ((Len(got) + 1) - 1))] \in Elements
        BY <2>3 DEF QueueInv
    <2>5. buffer[readTail + Len(got)] \in Elements
        BY <2>4, <2>2, <2>1
    <2>6. /\ got' \in Seq(Elements)
          /\ Len(got') = Len(got) + 1
          /\ \A i \in 1 .. Len(got) : got'[i] = got[i]
          /\ got'[Len(got) + 1] = buffer[readTail + Len(got)]
        BY <1>2, <2>5, AppendProperties DEF ReadElement, TypeOK
    <2>7. TypeOK' /\ ProducerInv' /\ QueueInv'
        BY <1>2, <2>6 DEF ReadElement, producerVars, TypeOK, ProducerInv, QueueInv
    <2>8. \A i \in 1 .. Len(got') : got'[i] = buffer[readTail + (i - 1)]
        <3> TAKE i \in 1 .. Len(got')
        <3>1. CASE i \in 1 .. Len(got)
            BY <3>1, <2>1, <2>6
        <3>2. CASE i = Len(got) + 1
            BY <3>2, <2>1, <2>6
        <3> QED
            BY <3>1, <3>2, <2>1, <2>6
    <2>9. ConsumerInv'
        BY <1>2, <2>1, <2>6, <2>8 DEF ReadElement, ConsumerInv
    <2> QED
        BY <2>7, <2>9
<1> QED
    BY <1>1, <1>2

\* Pop and PopN find what they check for: the batch was there when GetAll read
\* the indexes, and since then only the producer has moved.
LEMMA PopIsAllowed == IInv => NoPopError
<1> SUFFICES ASSUME IInv, cpc # "idle" PROVE PopAllowed(batch)
    BY DEF NoPopError
<1>1. COUNT(writeHead, readTail) \in 0 .. Capacity - 1
    BY CountSpace DEF IInv, TypeOK
<1> QED
    BY <1>1 DEF IInv, ConsumerInv, PopAllowed

\* The consumer's last step in Take, Pop and PopN: the read index moves on by
\* the batch, whose elements are handed over.
LEMMA RemoveEffect ==
    ASSUME IInv, TakePublish \/ Pop
    PROVE  /\ cpc # "idle" /\ cpc' = "idle" /\ Len(got) = batch
           /\ readTail' = Wrap(readTail + batch)
           /\ taken' = got
           /\ UNCHANGED <<writeHead, buffer, producerVars, batch, got>>
<1>1. CASE TakePublish
    BY <1>1 DEF TakePublish, IInv, ConsumerInv
<1>2. CASE Pop
    BY <1>2, PopIsAllowed DEF Pop, NoPopError
<1> QED
    BY <1>1, <1>2

\* Removing a batch keeps the invariant.
LEMMA RemoveKeepsInv ==
    ASSUME IInv, TakePublish \/ Pop
    PROVE  IInv'
<1> USE DEF IInv
<1>0. /\ COUNT(writeHead, readTail) \in 0 .. Capacity - 1
      /\ writeHead \in Indexes /\ readTail \in Indexes
    BY CountSpace DEF TypeOK
<1>1. batch \in 1 .. COUNT(writeHead, readTail)
    BY RemoveEffect DEF ConsumerInv
<1>2. /\ readTail' \in Indexes
      /\ COUNT(writeHead, readTail') = COUNT(writeHead, readTail) - batch
      /\ \A i \in 0 .. Capacity - 1 : i + batch < COUNT(writeHead, readTail) =>
            Wrap(readTail' + i) = Wrap(readTail + (i + batch))
    BY <1>0, <1>1, TailMoves, RemoveEffect
<1>3. TypeOK'
    BY <1>2, RemoveEffect DEF TypeOK, producerVars
<1>4. ProducerInv'
    <2>1. SPACE(writeHead, readTail) # 0 => SPACE(writeHead, readTail') # 0
        BY <1>0, <1>1, <1>2, CountSpace, CapacityAssumption
    <2> QED
        BY <2>1, RemoveEffect DEF ProducerInv, producerVars
<1>5. QueueInv'
    <2> SUFFICES ASSUME NEW i \in 1 .. COUNT(writeHead, readTail) - batch
                 PROVE  buffer[Wrap(readTail' + (i - 1))] \in Elements
        BY <1>2, RemoveEffect DEF QueueInv
    <2>1. /\ i - 1 \in 0 .. Capacity - 1
          /\ (i - 1) + batch < COUNT(writeHead, readTail)
          /\ i + batch \in 1 .. COUNT(writeHead, readTail)
          /\ (i - 1) + batch = (i + batch) - 1
        BY <1>0, <1>1, CapacityAssumption
    <2>2. Wrap(readTail' + (i - 1)) = Wrap(readTail + ((i + batch) - 1))
        BY <2>1, <1>2
    <2> QED
        BY <2>1, <2>2 DEF QueueInv
<1>6. ConsumerInv'
    BY RemoveEffect DEF ConsumerInv
<1> QED
    BY <1>3, <1>4, <1>5, <1>6

-----------------------------------------------------------------------------

\* The invariant of SpscQueue, for every capacity: each slot belongs to one of
\* the two threads at a time.
THEOREM Invariance == Spec => []IInv
<1>1. Init => IInv
    BY InitInv
<1>2. IInv /\ [Next]_vars => IInv'
    <2> SUFFICES ASSUME IInv, [Next]_vars PROVE IInv'
        OBVIOUS
    <2>1. CASE (\E e \in Elements : PutStart(e)) \/ ProducerProgress
        BY <2>1, ProducerKeepsInv
    <2>2. CASE (\E op \in {"take", "top", "all"} : ConsumeStart(op)) \/ ReadElement
        BY <2>2, ReadKeepsInv
    <2>3. CASE TakePublish \/ Pop
        BY <2>3, RemoveKeepsInv
    <2>4. CASE UNCHANGED vars
        BY <2>4 DEF vars, producerVars, consumerVars, IInv, TypeOK, ProducerInv,
           QueueInv, ConsumerInv
    <2> QED
        BY <2>1, <2>2, <2>3, <2>4 DEF Next, ConsumerNext
<1> QED
    BY <1>1, <1>2, PTL DEF Spec

\* Pop and PopN are never refused.
THEOREM PopNeverFails == Spec => []NoPopError
    BY Invariance, PopIsAllowed, PTL

-----------------------------------------------------------------------------
(* Refinement                                                              *)

\* The sequence the two indexes delimit in the array.
LEMMA QueueContents ==
    ASSUME IInv
    PROVE  /\ queue \in Seq(Elements)
           /\ Len(queue) = COUNT(writeHead, readTail)
           /\ COUNT(writeHead, readTail) \in 0 .. Capacity - 1
           /\ \A i \in 1 .. COUNT(writeHead, readTail) :
                 queue[i] = buffer[Wrap(readTail + (i - 1))]
<1>1. COUNT(writeHead, readTail) \in 0 .. Capacity - 1
    BY CountSpace DEF IInv, TypeOK
<1>2. queue \in [1 .. COUNT(writeHead, readTail) -> Elements]
    BY DEF queue, IInv, QueueInv
<1>3. queue \in Seq(Elements) /\ Len(queue) = COUNT(writeHead, readTail)
    BY <1>1, <1>2
<1> QED
    BY <1>1, <1>3 DEF queue

\* The same after a step.
LEMMA QueueContentsNext ==
    ASSUME IInv'
    PROVE  /\ queue' \in Seq(Elements)
           /\ Len(queue') = COUNT(writeHead', readTail')
           /\ \A i \in 1 .. COUNT(writeHead', readTail') :
                 queue'[i] = buffer'[Wrap(readTail' + (i - 1))]
<1>1. COUNT(writeHead', readTail') \in 0 .. Capacity - 1
    BY CountSpace DEF IInv, TypeOK
<1>2. queue' \in [1 .. COUNT(writeHead', readTail') -> Elements]
    BY DEF queue, IInv, QueueInv
<1>3. queue' \in Seq(Elements) /\ Len(queue') = COUNT(writeHead', readTail')
    BY <1>1, <1>2
<1> QED
    BY <1>1, <1>3 DEF queue

\* A step that moves neither index and writes outside of the queue is invisible.
LEMMA QueueUnchanged ==
    ASSUME IInv, UNCHANGED <<writeHead, readTail, taken>>,
           \A i \in 1 .. COUNT(writeHead, readTail) :
              buffer'[Wrap(readTail + (i - 1))] = buffer[Wrap(readTail + (i - 1))]
    PROVE  UNCHANGED Fifo!fifoVars
<1>1. queue' = [i \in 1 .. COUNT(writeHead, readTail) |->
                  buffer'[Wrap(readTail + (i - 1))]]
    BY DEF queue
<1>2. queue' = queue
    BY <1>1 DEF queue
<1> QED
    BY <1>2 DEF Fifo!fifoVars

\* The write of Put is invisible ...
LEMMA WriteIsInvisible ==
    ASSUME IInv, PutWrite
    PROVE  UNCHANGED Fifo!fifoVars
<1>0. /\ COUNT(writeHead, readTail) \in 0 .. Capacity - 1
      /\ writeHead \in Indexes /\ readTail \in Indexes
    BY CountSpace DEF IInv, TypeOK
<1>1. ASSUME NEW i \in 1 .. COUNT(writeHead, readTail)
      PROVE  buffer'[Wrap(readTail + (i - 1))] = buffer[Wrap(readTail + (i - 1))]
    <2>1. i - 1 \in Nat /\ i - 1 < COUNT(writeHead, readTail)
        BY <1>0
    <2>2. Wrap(readTail + (i - 1)) \in Indexes \ {writeHead}
        BY <2>1, <1>0, HeadIsFree
    <2> QED
        BY <2>2 DEF PutWrite, IInv, TypeOK
<1> QED
    BY <1>1, QueueUnchanged DEF PutWrite, consumerVars

\* ... its publication appends one element ...
LEMMA PublishIsPut ==
    ASSUME IInv, IInv', PutPublish
    PROVE  Fifo!Put(pelem) /\ pelem \in Elements
<1> DEFINE n == COUNT(writeHead, readTail)
<1>1. /\ SPACE(writeHead, readTail) # 0
      /\ buffer[writeHead] = pelem /\ pelem \in Elements
      /\ writeHead \in Indexes /\ readTail \in Indexes
    BY DEF PutPublish, IInv, ProducerInv, TypeOK
<1>2. /\ COUNT(writeHead', readTail') = n + 1
      /\ Wrap(readTail + n) = writeHead
      /\ n < Capacity - 1
    BY <1>1, HeadMoves, CountSpace, CapacityAssumption DEF PutPublish
<1>3. /\ queue \in Seq(Elements) /\ Len(queue) = n /\ n \in 0 .. Capacity - 1
      /\ \A i \in 1 .. n : queue[i] = buffer[Wrap(readTail + (i - 1))]
    BY QueueContents
<1>4. /\ queue' \in Seq(Elements) /\ Len(queue') = n + 1
      /\ \A i \in 1 .. n + 1 : queue'[i] = buffer[Wrap(readTail + (i - 1))]
    <2>1. /\ queue' \in Seq(Elements) /\ Len(queue') = COUNT(writeHead', readTail')
          /\ \A i \in 1 .. COUNT(writeHead', readTail') :
                queue'[i] = buffer'[Wrap(readTail' + (i - 1))]
        BY QueueContentsNext
    <2> QED
        BY <2>1, <1>2 DEF PutPublish
<1> HIDE DEF n
<1>5. /\ Append(queue, pelem) \in Seq(Elements)
      /\ Len(Append(queue, pelem)) = n + 1
      /\ \A i \in 1 .. n : Append(queue, pelem)[i] = queue[i]
      /\ Append(queue, pelem)[n + 1] = pelem
    BY <1>1, <1>3, AppendProperties
<1>6. \A i \in 1 .. n + 1 : queue'[i] = Append(queue, pelem)[i]
    <2> TAKE i \in 1 .. n + 1
    <2>1. CASE i \in 1 .. n
        BY <2>1, <1>3, <1>4, <1>5
    <2>2. CASE i = n + 1
        BY <2>2, <1>1, <1>2, <1>3, <1>4, <1>5
    <2> QED
        BY <2>1, <2>2, <1>3
<1>7. queue' = Append(queue, pelem)
    BY <1>4, <1>5, <1>6, SeqEqual
<1> QED
    BY <1>1, <1>2, <1>3, <1>7 DEF Fifo!Put, PutPublish, consumerVars

\* ... and the end of Take, Pop and PopN removes the batch.
LEMMA RemoveIsTake ==
    ASSUME IInv, IInv', TakePublish \/ Pop
    PROVE  batch \in 1 .. Len(queue) /\ Fifo!Take(batch)
<1> DEFINE n == COUNT(writeHead, readTail)
<1>1. /\ writeHead \in Indexes /\ readTail \in Indexes
      /\ batch \in 1 .. n /\ readTail + batch <= Capacity
      /\ Len(got) = batch /\ got \in Seq(Elements)
      /\ \A i \in 1 .. batch : got[i] = buffer[readTail + (i - 1)]
    BY RemoveEffect DEF IInv, ConsumerInv, TypeOK
<1>2. /\ COUNT(writeHead', readTail') = n - batch
      /\ \A i \in 0 .. Capacity - 1 : i + batch < n =>
            Wrap(readTail' + i) = Wrap(readTail + (i + batch))
      /\ taken' = got /\ buffer' = buffer
    BY <1>1, TailMoves, RemoveEffect
<1>3. /\ queue \in Seq(Elements) /\ Len(queue) = n /\ n \in 0 .. Capacity - 1
      /\ \A i \in 1 .. n : queue[i] = buffer[Wrap(readTail + (i - 1))]
    BY QueueContents
<1>4. /\ queue' \in Seq(Elements) /\ Len(queue') = n - batch
      /\ \A i \in 1 .. n - batch : queue'[i] = buffer[Wrap(readTail' + (i - 1))]
    <2>1. /\ queue' \in Seq(Elements) /\ Len(queue') = COUNT(writeHead', readTail')
          /\ \A i \in 1 .. COUNT(writeHead', readTail') :
                queue'[i] = buffer'[Wrap(readTail' + (i - 1))]
        BY QueueContentsNext
    <2> QED
        BY <2>1, <1>2
<1> HIDE DEF n
<1>5. \A i \in 1 .. n : queue[i] \in Elements
    BY <1>3, ElementOfSeq
<1>6. taken' = SubSeq(queue, 1, batch)
    <2>1. /\ SubSeq(queue, 1, batch) \in Seq(Elements)
          /\ Len(SubSeq(queue, 1, batch)) = batch
          /\ \A i \in 1 .. batch : SubSeq(queue, 1, batch)[i] = queue[i]
        BY <1>1, <1>3, <1>5, SubSeqProperties
    <2>2. \A i \in 1 .. batch : got[i] = SubSeq(queue, 1, batch)[i]
        <3> TAKE i \in 1 .. batch
        <3>1. i \in 1 .. n /\ i - 1 \in Nat /\ readTail + (i - 1) < Capacity
            BY <1>1, <1>3, CapacityAssumption DEF Indexes
        <3>2. Wrap(readTail + (i - 1)) = readTail + (i - 1)
            BY <3>1, <1>1, NoWrapInBatch
        <3> QED
            BY <3>1, <3>2, <2>1, <1>1, <1>3
    <2> QED
        BY <2>1, <2>2, <1>1, <1>2, SeqEqual
<1>7. queue' = SubSeq(queue, batch + 1, Len(queue))
    <2> DEFINE rest == SubSeq(queue, batch + 1, n)
    <2>1. /\ rest \in Seq(Elements)
          /\ Len(rest) = n - batch
          /\ \A i \in 1 .. n - batch : rest[i] = queue[(batch + 1) + i - 1]
        <3>1. /\ rest \in Seq(Elements)
              /\ Len(rest) = IF batch + 1 <= n THEN n - (batch + 1) + 1 ELSE 0
              /\ \A i \in 1 .. n - (batch + 1) + 1 :
                    rest[i] = queue[(batch + 1) + i - 1]
            BY <1>1, <1>3, <1>5, SubSeqProperties
        <3> QED
            BY <3>1, <1>1, <1>3
    <2>2. \A i \in 1 .. n - batch : queue'[i] = rest[i]
        <3> TAKE i \in 1 .. n - batch
        <3>1. /\ i - 1 \in 0 .. Capacity - 1 /\ (i - 1) + batch < n
              /\ i + batch \in 1 .. n
              /\ (batch + 1) + i - 1 = i + batch
              /\ (i - 1) + batch = (i + batch) - 1
            BY <1>1, <1>3, CapacityAssumption
        <3>2. queue'[i] = buffer[Wrap(readTail + ((i + batch) - 1))]
            BY <3>1, <1>2, <1>4
        <3> QED
            BY <3>1, <3>2, <2>1, <1>3
    <2> QED
        BY <2>1, <2>2, <1>3, <1>4, SeqEqual
<1> QED
    BY <1>1, <1>3, <1>6, <1>7 DEF Fifo!Take

\* SpscQueue implements RedoFifo: a Put takes effect when writeHead is stored,
\* a Take or Pop when readTail is, and no other step can be seen.
THEOREM QueueIsFifo == Spec => ImplementsFifo
<1>1. Init => Fifo!Init
    <2> SUFFICES ASSUME Init PROVE Fifo!Init
        OBVIOUS
    <2>1. COUNT(writeHead, readTail) = 0
        BY CapacityAssumption DEF Init, COUNT
    <2>2. queue = <<>>
        BY <2>1 DEF queue
    <2> QED
        BY <2>2 DEF Init, Fifo!Init
<1>2. IInv /\ IInv' /\ [Next]_vars => [Fifo!Next]_Fifo!fifoVars
    <2> SUFFICES ASSUME IInv, IInv', [Next]_vars
                 PROVE  Fifo!Next \/ UNCHANGED Fifo!fifoVars
        OBVIOUS
    <2>1. CASE PutWrite
        BY <2>1, WriteIsInvisible
    <2>2. CASE PutPublish
        BY <2>2, PublishIsPut DEF Fifo!Next
    <2>3. CASE TakePublish \/ Pop
        BY <2>3, RemoveIsTake DEF Fifo!Next
    <2>4. CASE UNCHANGED <<writeHead, readTail, taken, buffer>>
        BY <2>4, QueueUnchanged
    <2>5. ASSUME \/ \E e \in Elements : PutStart(e)
                 \/ PutFull \/ PutGivesUp \/ PutFindsSpace
                 \/ \E op \in {"take", "top", "all"} : ConsumeStart(op)
                 \/ ReadElement
                 \/ UNCHANGED vars
          PROVE  UNCHANGED <<writeHead, readTail, taken, buffer>>
        BY <2>5 DEF PutStart, PutFull, PutGivesUp, PutFindsSpace, ConsumeStart,
           ReadElement, vars, consumerVars
    <2> QED
        BY <2>1, <2>2, <2>3, <2>4, <2>5 DEF Next, ProducerProgress, ConsumerNext
<1> QED
    BY <1>1, <1>2, Invariance, PTL DEF Spec, ImplementsFifo, Fifo!Spec

=============================================================================
