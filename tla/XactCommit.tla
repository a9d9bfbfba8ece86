----------------------------- MODULE XactCommit -----------------------------
(***************************************************************************)
(* Transactions as other sessions can see them: transaction ids are handed *)
(* out (varsup.cpp), a tree of subtransactions grows and shrinks, and the  *)
(* tree commits or aborts (xact.cpp, transam.cpp) by a sequence of writes  *)
(* to shared memory that other sessions observe in between: the CSN log,   *)
(* the commit log, the proc array and the transaction id locks.            *)
(*                                                                         *)
(* A session runs one top-level transaction at a time, so a session is     *)
(* named by the xid t of its top-level transaction and the functions       *)
(* below that are indexed by t hold the session's local variables.  The    *)
(* configuration is the single-node one (GTM_FREE_MODE, primary, no DMS).  *)
(***************************************************************************)
EXTENDS CsnLog

CONSTANT
    MaxXid      \* bound: the last transaction id the model hands out

ASSUME MaxXidAssumption == MaxXid \in Nat

Xids == FirstNormalTransactionId .. MaxXid

VARIABLES
    nextXid,            \* ShmemVariableCache->nextXid
    nextCommitSeqNo,    \* ShmemVariableCache->nextCommitSeqNo
    latestCompletedXid, \* ShmemVariableCache->latestCompletedXid
    snapXmin,           \* xmin of the snapshot g_snap_current points at
    csnlog,             \* pg_csnlog, one entry per xid
    clog,               \* pg_clog, one status per xid
    pgxactXids,         \* top-level xids advertised in the proc array
    xactLocks,          \* xids whose transaction lock is held
    topXid,             \* the session that was given an xid
    parent,             \* s->parent->transactionId of a subtransaction
    childXids,          \* s->childXids: committed children of an open state
    cur,                \* session: xid of CurrentTransactionState
    pc,                 \* session: where it is
    todo,               \* session: xids CSNLogSetCommitSeqNo still has to write
    latestCSN,          \* session: counter read by SetXact2CommitInProgress
    commitCSN,          \* session: PGPROC.commitCSN
    csnOf               \* history: the CSN an xid was committed with, or 0

logVars == <<csnlog, clog>>
shmemVars == <<nextXid, nextCommitSeqNo, latestCompletedXid, snapXmin,
               pgxactXids, xactLocks>>
treeVars == <<topXid, parent, childXids, cur>>
sessVars == <<pc, todo, latestCSN, commitCSN, csnOf>>
xactVars == <<nextXid, nextCommitSeqNo, latestCompletedXid, snapXmin, csnlog,
              clog, pgxactXids, xactLocks, topXid, parent, childXids, cur, pc,
              todo, latestCSN, commitCSN, csnOf>>

-----------------------------------------------------------------------------

\* The top-level transaction of t together with its committed children.
Tree(t) == {t} \cup childXids[t]

\* The xid the loop of CSNLogSetCommitSeqNo writes next: the array of children
\* is ascending and every child is younger than its parent.
IsNextToWrite(t, x) == x \in todo[t] /\ \A y \in todo[t] : x <= y

\* TransactionIdLatest: the youngest of a transaction and its children.
IsLatest(x, S) == x \in S /\ \A y \in S : y <= x

\* TransactionIdPrecedes(latestCompletedXid, latestXid) in the proc array code.
Later(x, y) == IF x < y THEN y ELSE x

\* Mutant: the scan for the oldest running xid is left out.
IsSnapshotXmin_NoScan(x, xmax, running) == x = xmax

\* CalculateLocalLatestSnapshot and GetSnapshotData: the oldest running xid
\* among those that precede xmax = latestCompletedXid + 1, or xmax itself.
IsSnapshotXmin(x, xmax, running) ==
    /\ x = xmax \/ (x \in running /\ x < xmax)
    /\ x <= xmax
    /\ \A y \in running : y < xmax => x <= y

-----------------------------------------------------------------------------
(* Transaction ids and subtransactions                                     *)

\* GetNewTransactionId and XactLockTableInsert for a top-level transaction.
AssignTransactionId ==
    /\ nextXid <= MaxXid
    /\ nextXid' = nextXid + 1
    /\ pgxactXids' = pgxactXids \cup {nextXid}
    /\ xactLocks' = xactLocks \cup {nextXid}
    /\ topXid' = [topXid EXCEPT ![nextXid] = nextXid]
    /\ cur' = [cur EXCEPT ![nextXid] = nextXid]
    /\ pc' = [pc EXCEPT ![nextXid] = "active"]
    /\ UNCHANGED <<nextCommitSeqNo, latestCompletedXid, snapXmin, csnlog, clog,
                   parent, childXids, todo, latestCSN, commitCSN, csnOf>>

\* The same for a subtransaction, with SubTransSetParent.
AssignSubTransactionId(t) ==
    /\ pc[t] = "active"
    /\ nextXid <= MaxXid
    /\ nextXid' = nextXid + 1
    /\ xactLocks' = xactLocks \cup {nextXid}
    /\ topXid' = [topXid EXCEPT ![nextXid] = t]
    /\ parent' = [parent EXCEPT ![nextXid] = cur[t]]
    /\ cur' = [cur EXCEPT ![t] = nextXid]
    /\ csnlog' = [csnlog EXCEPT ![nextXid] = SubTransCsn(cur[t])]
    /\ UNCHANGED <<nextCommitSeqNo, latestCompletedXid, snapXmin, clog,
                   pgxactXids, childXids, pc, todo, latestCSN,
                   commitCSN, csnOf>>

\* Mutant: only the subtransaction itself moves to the parent's childXids, its
\* own committed children are lost.
CommitSubTransaction_LosesChildren(t) ==
    LET s == cur[t]
        p == parent[s]
    IN /\ pc[t] = "active"
       /\ s # t
       /\ childXids' = [childXids EXCEPT ![p] = @ \cup {s}]
       /\ xactLocks' = xactLocks \ {s}
       /\ cur' = [cur EXCEPT ![t] = p]
       /\ UNCHANGED <<nextXid, nextCommitSeqNo, latestCompletedXid, snapXmin,
                      pgxactXids, topXid, parent>>
       /\ UNCHANGED <<logVars, sessVars>>

\* CommitSubTransaction: AtSubCommit_childXids, XactLockTableDelete, pop.
CommitSubTransaction(t) ==
    LET s == cur[t]
        p == parent[s]
    IN /\ pc[t] = "active"
       /\ s # t
       /\ childXids' = [childXids EXCEPT ![p] = @ \cup {s} \cup childXids[s],
                                         ![s] = {}]
       /\ xactLocks' = xactLocks \ {s}
       /\ cur' = [cur EXCEPT ![t] = p]
       /\ UNCHANGED <<nextXid, nextCommitSeqNo, latestCompletedXid, snapXmin,
                      pgxactXids, topXid, parent>>
       /\ UNCHANGED <<logVars, sessVars>>

-----------------------------------------------------------------------------
(* Commit: RecordTransactionCommit up to ResourceOwnerRelease              *)

\* SetXact2CommitInProgress samples the CSN counter, then starts to write.
SetXact2CommitInProgress(t) ==
    /\ pc[t] = "active"
    /\ cur[t] = t
    /\ pc' = [pc EXCEPT ![t] = "marking"]
    /\ latestCSN' = [latestCSN EXCEPT ![t] = nextCommitSeqNo]
    /\ todo' = [todo EXCEPT ![t] = Tree(t)]
    /\ UNCHANGED <<commitCSN, csnOf>>
    /\ UNCHANGED <<shmemVars, logVars, treeVars>>

\* One iteration of CSNLogSetPageStatus for the commit-in-progress mark.  The
\* page's bank lock is held in shared mode only, as it is by the readers, so
\* every single entry is a step of its own.
MarkCommitInProgress(t) ==
    \E x \in todo[t] :
       /\ pc[t] = "marking"
       /\ IsNextToWrite(t, x)
       /\ csnlog' = [csnlog EXCEPT ![x] =
             CSNLogSetCSN(@, CommitInProgressCsn(x, t, latestCSN[t]))]
       /\ todo' = [todo EXCEPT ![t] = @ \ {x}]
       /\ UNCHANGED <<clog, pc, latestCSN, commitCSN, csnOf>>
       /\ UNCHANGED <<shmemVars, treeVars>>

\* Mutant: the CSN sampled by SetXact2CommitInProgress is used again.
GetLocalNextCSN_Stale(t) ==
    /\ pc[t] = "marking"
    /\ todo[t] = {}
    /\ pc' = [pc EXCEPT ![t] = "sequenced"]
    /\ commitCSN' = [commitCSN EXCEPT ![t] = latestCSN[t]]
    /\ nextCommitSeqNo' = nextCommitSeqNo + 1
    /\ csnOf' = [x \in Xids |-> IF x \in Tree(t) THEN latestCSN[t]
                                ELSE csnOf[x]]
    /\ latestCSN' = [latestCSN EXCEPT ![t] = 0]
    /\ UNCHANGED <<nextXid, latestCompletedXid, snapXmin, pgxactXids, xactLocks,
                   todo>>
    /\ UNCHANGED <<logVars, treeVars>>

\* setCommitCsn(getLocalNextCSN()): an atomic fetch-and-add.
GetLocalNextCSN(t) ==
    /\ pc[t] = "marking"
    /\ todo[t] = {}
    /\ pc' = [pc EXCEPT ![t] = "sequenced"]
    /\ commitCSN' = [commitCSN EXCEPT ![t] = nextCommitSeqNo]
    /\ nextCommitSeqNo' = nextCommitSeqNo + 1
    /\ csnOf' = [x \in Xids |-> IF x \in Tree(t) THEN nextCommitSeqNo
                                ELSE csnOf[x]]
    /\ latestCSN' = [latestCSN EXCEPT ![t] = 0]
    /\ UNCHANGED <<nextXid, latestCompletedXid, snapXmin, pgxactXids, xactLocks,
                   todo>>
    /\ UNCHANGED <<logVars, treeVars>>

\* XLogInsert of the commit record, XLogWaitFlush and SyncRepWaitForLSN, whose
\* end the commit log update waits for; then CLogSetTreeStatus.
CommitTree(t) ==
    /\ pc[t] = "sequenced"
    /\ pc' = [pc EXCEPT ![t] = "stamping"]
    /\ clog' = [x \in Xids |-> IF x \in Tree(t) THEN "committed" ELSE clog[x]]
    /\ todo' = [todo EXCEPT ![t] = Tree(t)]
    /\ UNCHANGED <<csnlog, latestCSN, commitCSN, csnOf>>
    /\ UNCHANGED <<shmemVars, treeVars>>

\* UpdateCSNLogAtTransactionEND: one entry of the tree gets the final CSN.
StampCommitCsn(t) ==
    \E x \in todo[t] :
       /\ pc[t] = "stamping"
       /\ IsNextToWrite(t, x)
       /\ csnlog' = [csnlog EXCEPT ![x] =
             CSNLogSetCSN(@, PlainCsn(commitCSN[t]))]
       /\ todo' = [todo EXCEPT ![t] = @ \ {x}]
       /\ UNCHANGED <<clog, pc, latestCSN, commitCSN, csnOf>>
       /\ UNCHANGED <<shmemVars, treeVars>>

-----------------------------------------------------------------------------
(* Abort: RecordTransactionAbort for the current transaction state         *)

\* TransactionIdAbortTree: the commit log first.
AbortTree(t) ==
    /\ pc[t] = "active"
    /\ pc' = [pc EXCEPT ![t] = "aborting"]
    /\ clog' = [x \in Xids |-> IF x \in Tree(cur[t]) THEN "aborted"
                               ELSE clog[x]]
    /\ todo' = [todo EXCEPT ![t] = Tree(cur[t])]
    /\ UNCHANGED <<csnlog, latestCSN, commitCSN, csnOf>>
    /\ UNCHANGED <<shmemVars, treeVars>>

\* ... then every entry of the CSN log.
MarkAborted(t) ==
    \E x \in todo[t] :
       /\ pc[t] = "aborting"
       /\ IsNextToWrite(t, x)
       /\ csnlog' = [csnlog EXCEPT ![x] = CSNLogSetCSN(@, COMMITSEQNO_ABORTED)]
       /\ todo' = [todo EXCEPT ![t] = @ \ {x}]
       /\ UNCHANGED <<clog, pc, latestCSN, commitCSN, csnOf>>
       /\ UNCHANGED <<shmemVars, treeVars>>

\* Mutant: the aborted subtransaction is handed to the parent's childXids.
AbortSubTransaction_KeepsChild(t) ==
    LET s == cur[t]
    IN /\ pc[t] = "aborting"
       /\ todo[t] = {}
       /\ s # t
       /\ \E l \in Tree(s) :
             /\ IsLatest(l, Tree(s))
             /\ latestCompletedXid' = Later(latestCompletedXid, l)
       /\ childXids' = [childXids EXCEPT ![parent[s]] = @ \cup {s},
                                         ![s] = {}]
       /\ xactLocks' = xactLocks \ {s}
       /\ cur' = [cur EXCEPT ![t] = parent[s]]
       /\ pc' = [pc EXCEPT ![t] = "active"]
       /\ UNCHANGED <<nextXid, nextCommitSeqNo, snapXmin, pgxactXids, topXid,
                      parent, todo, latestCSN, commitCSN, csnOf>>
       /\ UNCHANGED logVars

\* A subtransaction: XidCacheRemoveRunningXids, AtSubAbort_childXids, lock
\* release, pop.  The session goes on in the parent transaction.
AbortSubTransaction(t) ==
    LET s == cur[t]
    IN /\ pc[t] = "aborting"
       /\ todo[t] = {}
       /\ s # t
       /\ \E l \in Tree(s) :
             /\ IsLatest(l, Tree(s))
             /\ latestCompletedXid' = Later(latestCompletedXid, l)
       /\ childXids' = [childXids EXCEPT ![s] = {}]
       /\ xactLocks' = xactLocks \ {s}
       /\ cur' = [cur EXCEPT ![t] = parent[s]]
       /\ pc' = [pc EXCEPT ![t] = "active"]
       /\ UNCHANGED <<nextXid, nextCommitSeqNo, snapXmin, pgxactXids, topXid,
                      parent, todo, latestCSN, commitCSN, csnOf>>
       /\ UNCHANGED logVars

-----------------------------------------------------------------------------
(* The end of a top-level transaction, committed or aborted                *)

\* Mutant: the session leaves the proc array before its CSNs are written.
Recorded_Early(t) ==
    \/ pc[t] = "stamping"
    \/ pc[t] = "aborting" /\ cur[t] = t

\* All CSN log writes of the commit or the abort are done.
Recorded(t) ==
    /\ todo[t] = {}
    /\ \/ pc[t] = "stamping"
       \/ pc[t] = "aborting" /\ cur[t] = t

\* ProcArrayEndTransaction under ProcArrayLock: the xid is withdrawn and
\* CalculateLocalLatestSnapshot publishes a new snapshot.  With
\* enable_defer_calculate_snapshot the old xmin may be published again.
ProcArrayEndTransaction(t) ==
    /\ Recorded(t)
    /\ pgxactXids' = pgxactXids \ {t}
    /\ \E l \in Tree(t) :
          /\ IsLatest(l, Tree(t))
          /\ latestCompletedXid' = Later(latestCompletedXid, l)
    /\ \/ \E x \in pgxactXids' \cup {latestCompletedXid' + 1} :
             /\ IsSnapshotXmin(x, latestCompletedXid' + 1, pgxactXids')
             /\ snapXmin' = x
       \/ snapXmin' = snapXmin
    /\ commitCSN' = [commitCSN EXCEPT ![t] = 0]
    /\ pc' = [pc EXCEPT ![t] = "ended"]
    /\ UNCHANGED <<nextXid, nextCommitSeqNo, xactLocks, todo, latestCSN,
                   csnOf>>
    /\ UNCHANGED <<logVars, treeVars>>

\* Mutant: the transaction lock stays behind.
ReleaseXactLocks_Keeps(t) ==
    /\ pc[t] = "ended"
    /\ pc' = [pc EXCEPT ![t] = "done"]
    /\ UNCHANGED <<shmemVars, logVars, treeVars>>
    /\ UNCHANGED <<todo, latestCSN, commitCSN, csnOf>>

\* ResourceOwnerRelease(RESOURCE_RELEASE_LOCKS) wakes whoever waits for t.
ReleaseXactLocks(t) ==
    /\ pc[t] = "ended"
    /\ pc' = [pc EXCEPT ![t] = "done"]
    /\ xactLocks' = xactLocks \ {t}
    /\ UNCHANGED <<nextXid, nextCommitSeqNo, latestCompletedXid, snapXmin,
                   pgxactXids, todo, latestCSN, commitCSN, csnOf>>
    /\ UNCHANGED <<logVars, treeVars>>

-----------------------------------------------------------------------------

SessionPcs == {"none", "active", "marking", "sequenced", "stamping",
               "aborting", "ended", "done"}

\* The type invariant of the shared state and of the sessions.
XactTypeOK ==
    /\ nextXid \in Nat /\ nextCommitSeqNo \in Nat
    /\ latestCompletedXid \in Nat /\ snapXmin \in Nat
    /\ csnlog \in [Xids -> CommitSeqNo]
    /\ clog \in [Xids -> {"in_progress", "committed", "aborted"}]
    /\ pgxactXids \subseteq Xids /\ xactLocks \subseteq Xids
    /\ topXid \in [Xids -> Nat] /\ parent \in [Xids -> Nat]
    /\ childXids \in [Xids -> SUBSET Xids]
    /\ cur \in [Xids -> Nat]
    /\ pc \in [Xids -> SessionPcs]
    /\ todo \in [Xids -> SUBSET Xids]
    /\ latestCSN \in [Xids -> Nat] /\ commitCSN \in [Xids -> Nat]
    /\ csnOf \in [Xids -> Nat]

XactInit ==
    /\ nextXid = FirstNormalTransactionId
    /\ nextCommitSeqNo = COMMITSEQNO_FIRST_NORMAL
    /\ latestCompletedXid = FirstNormalTransactionId - 1
    /\ snapXmin = FirstNormalTransactionId
    /\ csnlog = [x \in Xids |-> COMMITSEQNO_INPROGRESS]
    /\ clog = [x \in Xids |-> "in_progress"]
    /\ pgxactXids = {}
    /\ xactLocks = {}
    /\ topXid = [x \in Xids |-> InvalidTransactionId]
    /\ parent = [x \in Xids |-> InvalidTransactionId]
    /\ childXids = [x \in Xids |-> {}]
    /\ cur = [x \in Xids |-> InvalidTransactionId]
    /\ pc = [x \in Xids |-> "none"]
    /\ todo = [x \in Xids |-> {}]
    /\ latestCSN = [x \in Xids |-> 0]
    /\ commitCSN = [x \in Xids |-> 0]
    /\ csnOf = [x \in Xids |-> 0]

\* The steps a session takes on its own once it has begun to commit or abort.
Finish(t) ==
    \/ MarkCommitInProgress(t)
    \/ GetLocalNextCSN(t)
    \/ CommitTree(t)
    \/ StampCommitCsn(t)
    \/ MarkAborted(t)
    \/ AbortSubTransaction(t)
    \/ ProcArrayEndTransaction(t)
    \/ ReleaseXactLocks(t)

XactNext ==
    \/ AssignTransactionId
    \/ \E t \in Xids :
          \/ AssignSubTransactionId(t)
          \/ CommitSubTransaction(t)
          \/ SetXact2CommitInProgress(t)
          \/ AbortTree(t)
          \/ Finish(t)

=============================================================================
