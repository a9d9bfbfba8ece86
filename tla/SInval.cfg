\* A thread in slot 0 and a session of the pool in slot 1, which both change the catalog;
\* a queue of three messages.
CONSTANTS
    ra = ra
    rb = rb
    maxBackends = 2
    maxreserveBackends = 1
    SendOnly = {}
    Committers = {0, 1}
    Accepters = {0}
    Rels = {ra, rb}
    Sends <- MCSends
    MAXNUMMESSAGES = 3
    MSGNUMWRAPAROUND = 3
    CLEANUP_MIN = 1
    CLEANUP_QUANTUM = 1
    SIG_THRESHOLD = 0
    WRITE_QUANTUM = 2
    MAXINVALMSGS = 3
    RC_MAX_NUM = 2
    MaxDepth = 2
    NoSlot = NoSlot
    NoMsg = NoMsg
SPECIFICATION FairSpec
INVARIANTS
    TypeOK
    NothingOverlooked
    StaleIsAnnounced
PROPERTIES
    ImplementsDelivery
    SendersGetOn
