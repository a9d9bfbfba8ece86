\* The queue of parallel_recovery, whose Put gives up after four tries; the one
\* of extreme_rto, whose Put waits, has the same steps without the give-up.
CONSTANTS
    Elements = {e1, e2}
    Null = Null
    Capacity = 4
    PutLimit = 4
SPECIFICATION FairSpec
INVARIANTS
    IInv
PROPERTIES
    ImplementsFifo
    QueueMovesOn
