\* A synchronous and an asynchronous transaction with rows on the same page; a full
\* checkpoint, a timed one or two incremental ones; two crashes.  All threads may
\* come to rest: transactions, requests and crashes are bounded.
CONSTANTS
    x1 = x1
    x2 = x2
    a = a
    Xids = {x1, x2}
    Pages = {a}
    PageOf <- MCPageOf
    SyncCommit = {x1}
    Requests <- MCRequests
    Read = {x2}
    UpdateStep = 0
    MaxCrashes = 2
    NoXid = NoXid
    NoPage = NoPage
SPECIFICATION Spec
INVARIANTS
    IInv
    DurableCommit
    RecoveredExactly
    HintTrue
    NoCkptPanic
    NobodyStuck
CHECK_DEADLOCK FALSE
