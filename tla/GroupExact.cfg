\* One PGPROC with a subtransaction, one with a leftover wakeup.
CONSTANTS
    Procs = {p1, p2, p3}
    Subs = {p1}
    NoProc = NoProc
    Leftover = {p2}
SPECIFICATION FairSpec
INVARIANTS
    RequestServed
    WakeupsBalance
PROPERTIES
    FollowerReleased
