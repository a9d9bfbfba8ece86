\* Three nested calls of AcceptInvalidationMessages.
CONSTANTS
    ra = ra
    rb = rb
    maxBackends = 2
    maxreserveBackends = 2
    SendOnly = {0}
    Committers = {0}
    Accepters = {1}
    Rels = {ra, rb}
    Sends <- MCSends
    MAXNUMMESSAGES = 3
    MSGNUMWRAPAROUND = 3
    CLEANUP_MIN = 2
    CLEANUP_QUANTUM = 1
    SIG_THRESHOLD = 1
    WRITE_QUANTUM = 2
    MAXINVALMSGS = 2
    RC_MAX_NUM = 2
    MaxDepth = 3
    NoSlot = NoSlot
    NoMsg = NoMsg
SPECIFICATION Spec
INVARIANTS
    SkippedIsDuplicate
