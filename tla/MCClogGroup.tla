---------------------------- MODULE MCClogGroup ----------------------------
(* ClogGroup for TLC.                                                      *)
EXTENDS ClogGroup, TLC

CONSTANTS p1, p2, p3

Commit(x, s, c) == [xid |-> x, subs |-> s, cached |-> c, st |-> "committed", top |-> TRUE]
Abort(x) == [xid |-> x, subs |-> <<>>, cached |-> <<>>, st |-> "aborted", top |-> TRUE]
Rollback(x) == [xid |-> x, subs |-> <<>>, cached |-> <<x>>, st |-> "aborted", top |-> FALSE]

\* Five xids to a page.  All three can meet in a group for page 0.  p1 goes on to
\* page 1, so that the list can change under one who has compared pages; the
\* subtransactions of p2's second transaction are on two other pages, one inside
\* the other; p3 rolls back a subtransaction.
MCWork == p1 :> <<Commit(0, <<>>, <<>>), Abort(5)>>
       @@ p2 :> <<Commit(1, <<2, 3>>, <<2, 3>>), Commit(6, <<10, 15>>, <<10, 15>>)>>
       @@ p3 :> <<Rollback(7), Commit(4, <<>>, <<>>)>>
MCStrays == p1 :> 0 @@ p2 :> 1 @@ p3 :> 0
MCParent == 2 :> 1 @@ 3 :> 2 @@ 7 :> 4 @@ 10 :> 6 @@ 15 :> 10

=============================================================================
