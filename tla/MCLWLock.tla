------------------------------ MODULE MCLWLock ------------------------------
(* LWLock for TLC.                                                         *)
EXTENDS LWLock, TLC

CONSTANTS p1, p2, p3

Call(o, m) == [op |-> o, mode |-> m]

\* p1 and p2 share a byte.
MCByteOf == p1 :> 0 @@ p2 :> 0 @@ p3 :> 1
MCCalls == p1 :> {Call("acquire", "shared"), Call("timeout", "exclusive")}
        @@ p2 :> {Call("acquire", "exclusive"), Call("acquire", "shared")}
        @@ p3 :> {Call("or_wait", "exclusive"), Call("conditional", "shared")}

=============================================================================
