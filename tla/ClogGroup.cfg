\* Three sessions, two banks, a leftover wakeup for one of them.
CONSTANTS
    p1 = p1
    p2 = p2
    p3 = p3
    Procs = {p1, p2, p3}
    Work <- MCWork
    Parent <- MCParent
    CLOG_XACTS_PER_PAGE = 5
    Banks = 2
    THRESHOLD_SUBTRANS_CLOG_OPT = 2
    Asked = {15}
    Strays <- MCStrays
    NoProc = NoProc
    NoXid = NoXid
    NoBank = NoBank
SPECIFICATION FairSpec
INVARIANTS
    ServedWhenReturned
    BankLockHeld
    CheckerExact
PROPERTIES
    ImplementsAtomicClog
    EndIsRecorded
