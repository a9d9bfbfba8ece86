---------------------------- MODULE InvalDelivery ----------------------------
(***************************************************************************)
(* What the shared invalidation queue promises.  Every attached backend is *)
(* owed the messages that were posted since it attached, in the order they *)
(* were posted.  A backend that falls so far behind that the queue has no  *)
(* room for it loses its messages, and is told so before anything else.    *)
(***************************************************************************)
EXTENDS Naturals, Sequences

CONSTANTS
    Slots,      \* backends
    Messages,   \* what is posted
    Room,       \* messages the queue has room for
    Batch       \* messages posted or taken at a time

VARIABLES
    attached,   \* the backends that receive messages
    owed,       \* the messages a backend has not taken yet
    lost,       \* backends that lost messages and have not been told
    taken       \* the messages a backend has taken and not used yet

deliveryVars == <<attached, owed, lost, taken>>

Init ==
    /\ attached = {}
    /\ owed = [s \in Slots |-> <<>>]
    /\ lost = {}
    /\ taken = [s \in Slots |-> <<>>]

Attach(s) ==
    /\ attached' = attached \cup {s}
    /\ UNCHANGED <<owed, lost, taken>>

Detach(s) ==
    /\ taken[s] = <<>>
    /\ attached' = attached \ {s}
    /\ lost' = lost \ {s}
    /\ owed' = [owed EXCEPT ![s] = <<>>]
    /\ UNCHANGED taken

\* New messages are owed to everybody who is attached and knows of the rest.
Post(msgs) ==
    /\ owed' = [s \in Slots |-> IF s \in attached \ lost THEN owed[s] \o msgs
                                ELSE owed[s]]
    /\ \A s \in Slots : Len(owed'[s]) <= Room
    /\ UNCHANGED <<attached, lost, taken>>

\* Those who leave no room for n more messages lose theirs.
Drop(S, n) ==
    /\ S # {} /\ S \subseteq attached
    /\ \A s \in S : Len(owed[s]) + n > Room
    /\ lost' = lost \cup S
    /\ owed' = [s \in Slots |-> IF s \in S THEN <<>> ELSE owed[s]]
    /\ UNCHANGED <<attached, taken>>

Take(s, n) ==
    /\ taken[s] = <<>>
    /\ taken' = [taken EXCEPT ![s] = SubSeq(owed[s], 1, n)]
    /\ owed' = [owed EXCEPT ![s] = SubSeq(@, n + 1, Len(@))]
    /\ UNCHANGED <<attached, lost>>

Use(s) ==
    /\ taken[s] # <<>>
    /\ taken' = [taken EXCEPT ![s] = Tail(@)]
    /\ UNCHANGED <<attached, owed, lost>>

\* The backend is told to forget what it has cached.
Tell(s) ==
    /\ s \in lost
    /\ lost' = lost \ {s}
    /\ UNCHANGED <<attached, owed, taken>>

Next ==
    \/ \E s \in Slots :
          \/ Attach(s)
          \/ Detach(s)
          \/ \E n \in 1 .. Len(owed[s]) : Take(s, n)
          \/ Use(s)
          \/ Tell(s)
    \/ \E n \in 1 .. Batch : \E msgs \in [1 .. n -> Messages] : Post(msgs)
    \/ \E S \in SUBSET Slots, n \in 0 .. Batch : Drop(S, n)

Spec == Init /\ [][Next]_deliveryVars

=============================================================================
