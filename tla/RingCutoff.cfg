CONSTANTS
    MaxXid = 6
    Readers = {r1}
    RingSize = 3
    SNAP_ERROR_COUNT = 12
    MaxHeld = 1
SPECIFICATION Spec
INVARIANTS
    XminNotBelowCutoff
