\* The PGPROC with a subtransaction has a leftover wakeup.
CONSTANTS
    Procs = {p1, p2, p3}
    Subs = {p1}
    NoProc = NoProc
    Leftover = {p1}
SPECIFICATION Spec
INVARIANTS
    SubMemberHasLatest
