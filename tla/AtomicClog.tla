----------------------------- MODULE AtomicClog -----------------------------
(***************************************************************************)
(* What the commit log promises its readers: a transaction and its         *)
(* subtransactions commit in one step.  An abort may become known bit by   *)
(* bit, since nobody can tell it from a transaction that still runs.       *)
(***************************************************************************)
CONSTANT Trees      \* the sets of xids that end together

VARIABLES committed, aborted

clogVars == <<committed, aborted>>

Over == committed \cup aborted

Init == committed = {} /\ aborted = {}

Commit(tree) ==
    /\ tree \cap Over = {}
    /\ committed' = committed \cup tree
    /\ UNCHANGED aborted

Abort(tree) ==
    /\ tree \cap committed = {}
    /\ aborted \subseteq aborted'
    /\ aborted' \ aborted \subseteq tree
    /\ UNCHANGED committed

Next == \E tree \in Trees : Commit(tree) \/ Abort(tree)

Spec == Init /\ [][Next]_clogVars

=============================================================================
