\* One thread with two snapshots that share its single-item cache, and the
\* liveness of its wait for a commit in progress.
CONSTANTS
    MaxXid = 4
    Readers = {r1}
    Snaps = {s1, s2}
    Tuples = {3}
SPECIFICATION FairSpec
INVARIANTS
    VisibilityExact
PROPERTIES
    SnapshotRepeatable
    WaitEnds
