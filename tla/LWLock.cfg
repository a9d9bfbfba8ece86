\* Three threads, two of them in the same byte, which counts one holder.
CONSTANTS
    p1 = p1
    p2 = p2
    p3 = p3
    Procs = {p1, p2, p3}
    Bytes = {0, 1}
    ByteOf <- MCByteOf
    MaxCount = 1
    Calls <- MCCalls
    Downgraders = {p2}
    Leftover = {p3}
    MaxTimeouts = 1
    High = High
    NoProc = NoProc
SPECIFICATION FairSpec
INVARIANTS
    IInv
    StateWordExact
    LinksSound
PROPERTIES
    SleeperWoken
