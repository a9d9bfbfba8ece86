------------------------------ MODULE RedoFifo ------------------------------
(***************************************************************************)
(* What a redo worker's queue promises: a bounded first-in first-out       *)
(* queue.  The consumer takes one element at a time or the oldest few.     *)
(***************************************************************************)
EXTENDS Naturals, Sequences

CONSTANTS
    Elements,   \* what is queued: pointers to redo items
    Bound       \* how many fit

VARIABLES
    queue,      \* the elements, the oldest first
    taken       \* what the consumer was given last

fifoVars == <<queue, taken>>

Init == queue = <<>> /\ taken = <<>>

Put(e) ==
    /\ Len(queue) < Bound
    /\ queue' = Append(queue, e)
    /\ UNCHANGED taken

Take(n) ==
    /\ taken' = SubSeq(queue, 1, n)
    /\ queue' = SubSeq(queue, n + 1, Len(queue))

Next ==
    \/ \E e \in Elements : Put(e)
    \/ \E n \in 1 .. Len(queue) : Take(n)

Spec == Init /\ [][Next]_fifoVars

=============================================================================
