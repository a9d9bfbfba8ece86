------------------------------ MODULE SpscQueue ------------------------------
(***************************************************************************)
(* The lock-free queue between the thread that dispatches WAL records and  *)
(* a redo worker (spsc_blocking_queue.cpp of extreme_rto and of            *)
(* parallel_recovery): one producer, one consumer, an array, the index of  *)
(* the next write and the index of the next read.  The barriers of the     *)
(* code order the accesses to the array and to the indexes within a        *)
(* thread; every access to shared memory is a step of its own.             *)
(*                                                                         *)
(* The consumer uses the queue in three ways: Take; Top, then Pop when the *)
(* element is redone; GetAll, then PopN when the batch is redone.  The     *)
(* statistics maxUsage and totalCnt and the callbacks are left out.        *)
(***************************************************************************)
EXTENDS Naturals, Sequences

CONSTANTS
    Elements,   \* what is queued: pointers to redo items
    Null,       \* the null pointer
    Capacity,   \* queue->capacity
    PutLimit    \* tries after which Put returns false (parallel_recovery), or
                \* 0 if it never does (extreme_rto)

\* The code asks for a power of 2, so that "& mask" is the remainder.
ASSUME CapacityAssumption == Capacity \in Nat /\ Capacity >= 2

ASSUME PutLimitAssumption == PutLimit \in Nat

ASSUME NullAssumption == Null \notin Elements

VARIABLES
    writeHead,  \* queue->writeHead
    readTail,   \* queue->readTail
    buffer,     \* queue->buffer
    ppc,        \* producer: where it is
    pelem,      \* producer: the element of the Put
    tries,      \* producer: cnt, if it gives up after PutLimit tries
    cpc,        \* consumer: how it uses the queue at the moment
    batch,      \* consumer: eleNum, or 1
    got,        \* consumer: the elements it has read so far
    taken       \* history: what the consumer has removed last

producerVars == <<ppc, pelem, tries>>
consumerVars == <<cpc, batch, got, taken>>
vars == <<writeHead, readTail, buffer, producerVars, consumerVars>>

Indexes == 0 .. Capacity - 1

-----------------------------------------------------------------------------
(* Indexes                                                                 *)

\* i & mask, for an index that has run at most once past the end.
Wrap(i) == IF i < Capacity THEN i ELSE i - Capacity

COUNT(head, tail) ==
    IF head >= tail THEN head - tail ELSE head + Capacity - tail

\* Mutant: the slot that tells a full queue from an empty one is used, too.
SPACE_NoSlack(head, tail) ==
    IF tail > head THEN tail - head ELSE tail + Capacity - head

SPACE(head, tail) ==
    IF tail > head THEN tail - (head + 1) ELSE tail + Capacity - (head + 1)

\* Mutant: GetAll offers the elements behind the end of the array as well.
BatchSize_NoWrap(head, tail) == COUNT(head, tail)

\* eleNum of GetAll: as far as the elements lie in one piece.
BatchSize(head, tail) ==
    IF head >= tail THEN head - tail ELSE Capacity - tail

-----------------------------------------------------------------------------
(* SPSCBlockingQueuePut                                                    *)

\* Put(e) is called.
PutStart(e) ==
    /\ ppc = "idle"
    /\ ppc' = "putting"
    /\ pelem' = e
    /\ tries' = 0
    /\ UNCHANGED <<writeHead, readTail, buffer, consumerVars>>

\* The loop reads readTail and finds the queue full: try again ...
PutFull ==
    /\ ppc = "putting"
    /\ PutLimit # 0
    /\ tries < PutLimit
    /\ SPACE(writeHead, readTail) = 0
    /\ tries' = tries + 1
    /\ UNCHANGED <<writeHead, readTail, buffer, ppc, pelem, consumerVars>>

\* ... and at last return false: the element stays with the caller.
PutGivesUp ==
    /\ ppc = "putting"
    /\ PutLimit # 0
    /\ tries = PutLimit
    /\ ppc' = "idle"
    /\ UNCHANGED <<writeHead, readTail, buffer, pelem, tries, consumerVars>>

\* The loop reads readTail and finds space.
PutFindsSpace ==
    /\ ppc = "putting"
    /\ PutLimit = 0 \/ tries < PutLimit
    /\ SPACE(writeHead, readTail) # 0
    /\ ppc' = "writing"
    /\ UNCHANGED <<writeHead, readTail, buffer, pelem, tries, consumerVars>>

PutWrite ==
    /\ ppc = "writing"
    /\ buffer' = [buffer EXCEPT ![writeHead] = pelem]
    /\ ppc' = "publishing"
    /\ UNCHANGED <<writeHead, readTail, pelem, tries, consumerVars>>

PutPublish ==
    /\ ppc = "publishing"
    /\ writeHead' = Wrap(writeHead + 1)
    /\ ppc' = "idle"
    /\ UNCHANGED <<readTail, buffer, pelem, tries, consumerVars>>

-----------------------------------------------------------------------------
(* The consumer                                                            *)

\* Take, Top and GetAll read writeHead until the queue is not empty.
ConsumeStart(op) ==
    /\ cpc = "idle"
    /\ COUNT(writeHead, readTail) # 0
    /\ cpc' = op
    /\ batch' = IF op = "all" THEN BatchSize(writeHead, readTail) ELSE 1
    /\ got' = <<>>
    /\ UNCHANGED <<writeHead, readTail, buffer, producerVars, taken>>

\* One element is read from the array.
ReadElement ==
    /\ cpc # "idle"
    /\ Len(got) < batch
    /\ got' = Append(got, buffer[readTail + Len(got)])
    /\ UNCHANGED <<writeHead, readTail, buffer, producerVars, cpc, batch, taken>>

\* The end of Take.
TakePublish ==
    /\ cpc = "take"
    /\ Len(got) = batch
    /\ readTail' = Wrap(readTail + 1)
    /\ taken' = got
    /\ cpc' = "idle"
    /\ UNCHANGED <<writeHead, buffer, producerVars, batch, got>>

\* Mutant: the last element of the queue cannot be popped.
PopAllowed_Strict(n) ==
    /\ COUNT(writeHead, readTail) > n
    /\ readTail + n <= Capacity

\* What Pop and PopN check before they move the index; if it does not hold they
\* log a WARNING and leave the queue alone.
PopAllowed(n) ==
    /\ COUNT(writeHead, readTail) >= n
    /\ readTail + n <= Capacity

\* Pop after Top, PopN after GetAll.
Pop ==
    /\ cpc \in {"top", "all"}
    /\ Len(got) = batch
    /\ readTail' = IF PopAllowed(batch) THEN Wrap(readTail + batch)
                   ELSE readTail
    /\ taken' = IF PopAllowed(batch) THEN got ELSE taken
    /\ cpc' = "idle"
    /\ UNCHANGED <<writeHead, buffer, producerVars, batch, got>>

-----------------------------------------------------------------------------

\* SPSCBlockingQueueCreate.
Init ==
    /\ writeHead = 0 /\ readTail = 0
    /\ buffer = [i \in Indexes |-> Null]
    /\ ppc = "idle" /\ pelem = Null /\ tries = 0
    /\ cpc = "idle" /\ batch = 0 /\ got = <<>> /\ taken = <<>>

ProducerProgress ==
    \/ PutFull
    \/ PutGivesUp
    \/ PutFindsSpace
    \/ PutWrite
    \/ PutPublish

ConsumerNext ==
    \/ \E op \in {"take", "top", "all"} : ConsumeStart(op)
    \/ ReadElement
    \/ TakePublish
    \/ Pop

Next ==
    \/ \E e \in Elements : PutStart(e)
    \/ ProducerProgress
    \/ ConsumerNext

Spec == Init /\ [][Next]_vars

\* A Put that was called runs on, and a redo worker consumes in an endless loop.
FairSpec ==
    /\ Spec
    /\ WF_vars(ProducerProgress)
    /\ WF_vars(ConsumerNext)

-----------------------------------------------------------------------------
(* Properties                                                              *)

\* The type invariant.
TypeOK ==
    /\ writeHead \in Indexes /\ readTail \in Indexes
    /\ buffer \in [Indexes -> Elements \cup {Null}]
    /\ ppc \in {"idle", "putting", "writing", "publishing"}
    /\ pelem \in Elements \cup {Null}
    /\ tries \in 0 .. PutLimit
    /\ cpc \in {"idle", "take", "top", "all"}
    /\ batch \in Nat
    /\ got \in Seq(Elements) /\ taken \in Seq(Elements)

\* The slot the producer is about to fill is still free.
ProducerInv ==
    /\ ppc # "idle" => pelem \in Elements
    /\ ppc \in {"writing", "publishing"} => SPACE(writeHead, readTail) # 0
    /\ ppc = "publishing" => buffer[writeHead] = pelem

\* What the two indexes delimit has been written.
QueueInv ==
    \A i \in 1 .. COUNT(writeHead, readTail) :
       buffer[Wrap(readTail + (i - 1))] \in Elements

\* The consumer works on elements that are still in the queue, in one piece of
\* the array, and has read them right.
ConsumerInv ==
    cpc # "idle" =>
       /\ batch \in 1 .. COUNT(writeHead, readTail)
       /\ readTail + batch <= Capacity
       /\ Len(got) <= batch
       /\ \A i \in 1 .. Len(got) : got[i] = buffer[readTail + (i - 1)]
       /\ cpc # "all" => batch = 1

(***************************************************************************)
(* The inductive invariant: while the other side moves its index on, the   *)
(* producer writes into a slot nobody reads, and the consumer reads slots  *)
(* nobody writes.                                                          *)
(***************************************************************************)
IInv == TypeOK /\ ProducerInv /\ QueueInv /\ ConsumerInv

(***************************************************************************)
(* Pop and PopN are never refused: no element is redone twice because the  *)
(* index stayed behind with a WARNING.                                     *)
(***************************************************************************)
NoPopError ==
    cpc \in {"top", "all"} => PopAllowed(batch)

\* The queue as the two indexes delimit it in the array.
queue == [i \in 1 .. COUNT(writeHead, readTail) |->
            buffer[Wrap(readTail + (i - 1))]]

Fifo == INSTANCE RedoFifo WITH Bound <- Capacity - 1

(***************************************************************************)
(* The array, the two indexes and their unlocked accesses implement a      *)
(* bounded first-in first-out queue: no redo item is lost, duplicated,     *)
(* overtaken or overwritten before it was read.                            *)
(***************************************************************************)
ImplementsFifo == Fifo!Spec

(***************************************************************************)
(* A dispatcher that waits in Put for a full queue gets on, and what is in *)
(* the queue is consumed, in whichever way the consumer uses it.           *)
(***************************************************************************)
QueueMovesOn ==
    /\ ppc # "idle" ~> ppc = "idle"
    /\ \A i \in Indexes :
          (readTail = i /\ writeHead # i) ~> readTail # i

=============================================================================
