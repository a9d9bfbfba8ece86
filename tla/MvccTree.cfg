\* Subtransaction trees: one snapshot, up to three xids, the middle one with a
\* tuple (a top-level xid with or without a child, or a child).
CONSTANTS
    MaxXid = 5
    Readers = {r1}
    Snaps = {s1}
    Tuples = {4}
SPECIFICATION Spec
INVARIANTS
    IInv
    VisibilityExact
    TreeCommitsWhole
    XminHorizon
    MarkResolvedAfterWait
    NoCsnLogPanic
PROPERTIES
    CsnLogFinal
