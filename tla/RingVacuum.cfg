\* Two threads, of which one may hold two snapshots, two transactions, a ring of two: the
\* second transaction rewrites the slot of the first snapshot, and the ring can be full.
CONSTANTS
    MaxXid = 4
    Readers = {r1, r2}
    RingSize = 2
    SNAP_ERROR_COUNT = 4
    MaxHeld = 2
SYMMETRY ReaderSymmetry
SPECIFICATION Spec
INVARIANTS
    IInv
    NoVisibleRowRemoved
    XminIsHorizon
    OverflowNeedsReaders
