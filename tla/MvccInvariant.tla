---------------------------- MODULE MvccInvariant ----------------------------
(***************************************************************************)
(* The inductive invariant of MvccVisibility: why a visibility check may   *)
(* trust what it finds.  The first part is about the sessions that commit  *)
(* and abort, the second about what readers hold.                          *)
(***************************************************************************)
EXTENDS MvccVisibility

Assigned(x) == x < nextXid

RunningPcs == {"active", "marking", "sequenced", "stamping", "aborting"}
CommittingPcs == {"marking", "sequenced", "stamping"}

\* The transaction of session t has left the proc array.
Finished(t) == pc[t] \in {"ended", "done"}

\* x will never be committed: its transaction is over or its entry is ABORTED.
Dead(x) ==
    /\ csnOf[x] = 0
    /\ Finished(topXid[x]) \/ COMMITSEQNO_IS_ABORTED(csnlog[x])

-----------------------------------------------------------------------------

BoundsInv ==
    /\ FirstNormalTransactionId <= nextXid
    /\ COMMITSEQNO_FIRST_NORMAL <= nextCommitSeqNo
    /\ latestCompletedXid < nextXid
    /\ snapXmin <= latestCompletedXid + 1

UnassignedInv ==
    \A x \in Xids : ~Assigned(x) =>
       /\ csnlog[x] = COMMITSEQNO_INPROGRESS
       /\ clog[x] = "in_progress"
       /\ csnOf[x] = 0
       /\ topXid[x] = InvalidTransactionId
       /\ pc[x] = "none"
       /\ x \notin xactLocks
       /\ childXids[x] = {}
       /\ todo[x] = {}

OwnerInv ==
    \A x \in Xids :
       /\ Assigned(x) =>
             /\ topXid[x] \in Xids
             /\ topXid[x] <= x
             /\ topXid[topXid[x]] = topXid[x]
             /\ pc[topXid[x]] # "none"
       /\ pc[x] # "none" => topXid[x] = x

\* A committed child belongs to one open state of its own transaction.
ChildInv ==
    /\ \A y \in Xids : \A x \in childXids[y] :
          /\ topXid[x] = topXid[y]
          /\ Assigned(x)
          /\ x \notin xactLocks
          /\ x # topXid[x]
    /\ \A y, z \in Xids : y # z => childXids[y] \cap childXids[z] = {}

\* Open transaction states hold their xid lock; those of a session form a stack
\* with cur on top, each pointing at the one below it.
StackInv ==
    /\ \A t \in Xids : pc[t] \in {"active", "aborting"} =>
          /\ cur[t] \in xactLocks
          /\ topXid[cur[t]] = t
    /\ \A x \in xactLocks : x # topXid[x] =>
          /\ parent[x] \in xactLocks
          /\ topXid[parent[x]] = topXid[x]
          /\ parent[x] < x
          /\ x <= cur[topXid[x]]
          /\ pc[topXid[x]] \in {"active", "aborting"}
    /\ \A x, y \in xactLocks :
          topXid[x] = topXid[y] /\ x < y => x <= parent[y]

LockInv ==
    \A t \in Xids :
       /\ t \in pgxactXids <=> pc[t] \in RunningPcs
       /\ pc[t] \in RunningPcs \cup {"ended"} => t \in xactLocks
       /\ pc[t] = "marking" => cur[t] = t

TodoInv ==
    \A t \in Xids :
       /\ pc[t] \in {"marking", "stamping"} => todo[t] \subseteq Tree(t)
       /\ pc[t] = "aborting" => todo[t] \subseteq Tree(cur[t])

\* What an open state would commit is not aborted.
NotAbortedInv ==
    \A y \in xactLocks :
       LET t == topXid[y]
       IN (\/ pc[t] \in {"active", "marking"}
           \/ pc[t] = "aborting" /\ y # cur[t])
          => \A x \in Tree(y) : ~COMMITSEQNO_IS_ABORTED(csnlog[x])

\* The CSN of a tree, and the commit log against it.
CsnOfInv ==
    \A x \in Xids :
       LET t == topXid[x]
       IN /\ csnOf[x] < nextCommitSeqNo
          /\ csnOf[x] = 0 \/ csnOf[x] >= COMMITSEQNO_FIRST_NORMAL
          /\ Assigned(x) =>
             /\ pc[t] \in {"active", "marking", "aborting"} => csnOf[x] = 0
             /\ pc[t] \in {"sequenced", "stamping"} =>
                   /\ commitCSN[t] >= COMMITSEQNO_FIRST_NORMAL
                   /\ csnOf[x] = IF x \in Tree(t) THEN commitCSN[t] ELSE 0
             /\ clog[x] = "committed" <=>
                   csnOf[x] # 0 /\ pc[t] # "sequenced"

\* The CSN log against the CSNs drawn.
CsnLogInv ==
    \A x \in Xids :
       LET e == csnlog[x]
           t == topXid[x]
       IN /\ COMMITSEQNO_IS_COMMITTED(e) =>
                csnOf[x] # 0 /\ e = PlainCsn(csnOf[x])
          /\ csnOf[x] # 0 =>
                COMMITSEQNO_IS_COMMITTED(e) \/ COMMITSEQNO_IS_COMMITTING(e)
          /\ COMMITSEQNO_IS_COMMITTING(e) =>
                /\ pc[t] \in CommittingPcs
                /\ x \in Tree(t)
                /\ pc[t] = "stamping" => x \in todo[t]
                /\ COMMITSEQNO_IS_SUBTRANS(e) => e.val = t
                /\ ~COMMITSEQNO_IS_SUBTRANS(e) =>
                      /\ x = t
                      /\ e.val <= nextCommitSeqNo
                      /\ csnOf[x] # 0 => e.val <= csnOf[x]

MarkingInv ==
    \A t \in Xids : pc[t] = "marking" =>
       /\ latestCSN[t] <= nextCommitSeqNo
       /\ \A x \in Tree(t) \ todo[t] : COMMITSEQNO_IS_COMMITTING(csnlog[x])

HorizonInv ==
    \A x \in Xids : x < snapXmin => Assigned(x) /\ Finished(topXid[x])

XactInv ==
    /\ BoundsInv
    /\ UnassignedInv
    /\ OwnerInv
    /\ ChildInv
    /\ StackInv
    /\ LockInv
    /\ TodoInv
    /\ NotAbortedInv
    /\ CsnOfInv
    /\ CsnLogInv
    /\ MarkingInv
    /\ HorizonInv

\* What a reader may rely on while sessions go on: ids, owners and CSNs are
\* never taken back, finished transactions stay finished, a CSN is only drawn
\* by a transaction that is still running and not aborted, and a final entry of
\* the CSN log stays as it is.
Monotone ==
    /\ nextXid <= nextXid'
    /\ nextCommitSeqNo <= nextCommitSeqNo'
    /\ \A x \in Xids :
          /\ Assigned(x) => topXid'[x] = topXid[x]
          /\ Finished(x) => Finished(x)'
          /\ pc[x] = "done" => pc'[x] = "done"
          /\ \/ csnOf'[x] = csnOf[x]
             \/ /\ csnOf[x] = 0
                /\ csnOf'[x] = nextCommitSeqNo
                /\ Assigned(x)
                /\ ~Finished(topXid[x])
                /\ ~COMMITSEQNO_IS_ABORTED(csnlog[x])
          /\ COMMITSEQNO_IS_COMMITTED(csnlog[x])
                \/ COMMITSEQNO_IS_ABORTED(csnlog[x])
             => csnlog'[x] = csnlog[x]

-----------------------------------------------------------------------------

SnapInv ==
    \A r \in Readers, i \in Snaps :
       LET s == snap[r][i]
       IN /\ s.csn <= nextCommitSeqNo
          /\ s.csn = 0 \/ s.csn >= COMMITSEQNO_FIRST_NORMAL
          /\ \A x \in Xids : x < s.xmin =>
                /\ Assigned(x)
                /\ Finished(topXid[x])
                /\ s.csn # 0 => csnOf[x] < s.csn

CacheInv ==
    \A r \in Readers :
       LET c == cache[r]
       IN c.xid # InvalidTransactionId =>
             /\ c.xid \in Xids
             /\ Assigned(c.xid)
             /\ \/ csnOf[c.xid] # 0 /\ c.csn = PlainCsn(csnOf[c.xid])
                \/ /\ csnOf[c.xid] # 0
                   /\ c.csn = COMMITSEQNO_FROZEN
                   /\ Finished(topXid[c.xid])
                \/ Dead(c.xid) /\ c.csn = COMMITSEQNO_ABORTED

HintInv ==
    \A x \in Xids :
       /\ hint[x] = "committed" => csnOf[x] # 0
       /\ hint[x] = "invalid" => Assigned(x) /\ Dead(x)

CheckInv ==
    \A r \in Readers :
       /\ verdict[r] # "none" \/ rpc[r] \in {"waiting", "looped"} =>
             /\ rxid[r] \in Xids
             /\ Assigned(rxid[r])
             /\ Snapshot(r).csn # 0
       /\ rpc[r] = "snapping" => verdict[r] = "none" /\ Snapshot(r).csn = 0
       /\ rpc[r] \in {"waiting", "looped"} =>
             /\ rwait[r] = topXid[rxid[r]]
             /\ rhint[r] = "committed" => csnOf[rxid[r]] # 0
       /\ rpc[r] = "looped" => pc[topXid[rxid[r]]] = "done"

\* What TransactionIdGetCommitSeqNo may answer for x in snapshot s: a CSN on
\* the right side of the snapshot, ABORTED for a transaction that will never
\* commit, or the mark of a commit that is still going on.
FetchOK(x, s, csn) ==
    LET t == topXid[x]
    IN /\ csn \in CommitSeqNo
       /\ COMMITSEQNO_IS_COMMITTED(csn) =>
             /\ csnOf[x] # 0
             /\ csn.val < s.csn <=> csnOf[x] < s.csn
             /\ \/ csn = PlainCsn(csnOf[x])
                \/ csn = COMMITSEQNO_FROZEN /\ Finished(t)
       /\ COMMITSEQNO_IS_ABORTED(csn) => Dead(x)
       /\ csnOf[x] # 0 =>
             COMMITSEQNO_IS_COMMITTED(csn) \/ COMMITSEQNO_IS_COMMITTING(csn)
       /\ COMMITSEQNO_IS_COMMITTING(csn) =>
             /\ pc[t] \in CommittingPcs
             /\ COMMITSEQNO_IS_SUBTRANS(csn) => csn.val = t
             /\ ~COMMITSEQNO_IS_SUBTRANS(csn) =>
                   x = t /\ (csnOf[x] # 0 => csn.val <= csnOf[x])

ReaderInv ==
    /\ SnapInv
    /\ CacheInv
    /\ HintInv
    /\ CheckInv
    /\ VisibilityExact

\* The invariant.
IInv == TypeOK /\ XactInv /\ ReaderInv

-----------------------------------------------------------------------------

\* Why a transaction commits as a whole.  Every xid of a transaction without a
\* CSN is accounted for: it was rolled back, or an open state has it in its
\* tree; and what a session aborts is all of the tree of its current state.
AccountedInv ==
    \A x \in Xids :
       Assigned(x) /\ pc[topXid[x]] \in {"active", "marking", "aborting"} =>
          RolledBack(x) \/ \E y \in xactLocks : x \in Tree(y)

AbortedWholeInv ==
    \A t \in Xids : pc[t] = "aborting" =>
       \A x \in Tree(cur[t]) :
          /\ clog[x] = "aborted"
          /\ x \in todo[t] \/ COMMITSEQNO_IS_ABORTED(csnlog[x])

WholeInv == AccountedInv /\ AbortedWholeInv /\ TreeCommitsWhole

=============================================================================
