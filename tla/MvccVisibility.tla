--------------------------- MODULE MvccVisibility ---------------------------
(***************************************************************************)
(* Sessions that read: they take MVCC snapshots (GetSnapshotData) and ask  *)
(* whether a transaction id is visible in one (XidVisibleInSnapshot and    *)
(* CommittedXidVisibleInSnapshot of snapmgr.cpp, on behalf of              *)
(* HeapTupleSatisfiesMVCC), while the sessions of XactCommit commit and    *)
(* abort.  A reader keeps the single-item cache of transam.cpp and may     *)
(* hold several snapshots at a time (nested statements, cursors).  One     *)
(* tuple per inserting xid stands for the heap: its hint bits are shared.  *)
(***************************************************************************)
EXTENDS XactCommit

CONSTANTS
    Readers,    \* reading threads
    Snaps,      \* the snapshots one thread can hold
    Tuples      \* bound: the xids that wrote a tuple the readers meet

ASSUME TuplesAssumption == Tuples \subseteq Xids

VARIABLES
    snap,       \* snap[r][i]: xmin and snapshotcsn of a held snapshot
    rpc,        \* reader: where it is
    rsnap,      \* reader: the snapshot of the visibility check
    rxid,       \* reader: the xid of the visibility check
    rwait,      \* reader: the xid SyncWaitXidEnd waits for
    rhint,      \* reader: the hint it saw, which chooses the function
    cache,      \* reader: cachedFetchCSNXid and cachedFetchCSN
    verdict,    \* reader: result of the last check
    hint        \* hint bits of the tuple inserted by an xid

readerVars == <<snap, rpc, rsnap, rxid, rwait, rhint, cache, verdict, hint>>
vars == <<xactVars, readerVars>>

NoSnap == [xmin |-> 0, csn |-> 0]

\* The snapshot of the check that reader r is doing.
Snapshot(r) == snap[r][rsnap[r]]

-----------------------------------------------------------------------------
(* Taking a snapshot                                                       *)

\* GetLocalSnapshotData copies the precomputed snapshot of the ring buffer.
GetLocalSnapshotData(r, i) ==
    /\ rpc[r] = "idle"
    /\ rpc' = [rpc EXCEPT ![r] = "snapping"]
    /\ rsnap' = [rsnap EXCEPT ![r] = i]
    /\ snap' = [snap EXCEPT ![r][i] = [xmin |-> snapXmin, csn |-> 0]]
    /\ verdict' = [verdict EXCEPT ![r] = "none"]
    /\ UNCHANGED <<rxid, rwait, rhint, cache, hint>>
    /\ UNCHANGED xactVars

\* The fallback of GetSnapshotData: scan the proc array.
ScanProcArray(r, i) ==
    \E x \in pgxactXids \cup {latestCompletedXid + 1} :
       /\ rpc[r] = "idle"
       /\ IsSnapshotXmin(x, latestCompletedXid + 1, pgxactXids)
       /\ rpc' = [rpc EXCEPT ![r] = "snapping"]
       /\ rsnap' = [rsnap EXCEPT ![r] = i]
       /\ snap' = [snap EXCEPT ![r][i] = [xmin |-> x, csn |-> 0]]
       /\ verdict' = [verdict EXCEPT ![r] = "none"]
       /\ UNCHANGED <<rxid, rwait, rhint, cache, hint>>
       /\ UNCHANGED xactVars

\* Either way snapshotcsn is then read from the shared counter.
ReadSnapshotCsn(r) ==
    /\ rpc[r] = "snapping"
    /\ rpc' = [rpc EXCEPT ![r] = "idle"]
    /\ snap' = [snap EXCEPT ![r][rsnap[r]].csn = nextCommitSeqNo]
    /\ UNCHANGED <<rsnap, rxid, rwait, rhint, cache, verdict, hint>>
    /\ UNCHANGED xactVars

-----------------------------------------------------------------------------
(* Visibility                                                              *)

\* Mutant: a cached FROZEN answers for every snapshot.
CacheHit_AnySnapshot(r, x, s) == cache[r].xid = x

\* FetchCSNFromCache: a cached FROZEN stands for "finished before the horizon
\* of some snapshot" and is no answer for a snapshot whose xmin is older.
CacheHit(r, x, s) ==
    /\ cache[r].xid = x
    /\ ~(x >= s.xmin /\ cache[r].csn = COMMITSEQNO_FROZEN)

\* GetCSNByCLog, for an xid that precedes the snapshot's xmin.
GetCSNByCLog(x, isCommit) ==
    IF isCommit \/ clog[x] = "committed" THEN COMMITSEQNO_FROZEN
    ELSE COMMITSEQNO_ABORTED

\* TransactionIdGetCommitSeqNo(x, isCommit, true, false, s).
TransactionIdGetCommitSeqNo(r, x, isCommit, s) ==
    IF CacheHit(r, x, s) THEN cache[r].csn
    ELSE IF x < s.xmin THEN GetCSNByCLog(x, isCommit)
    ELSE csnlog[x]

\* ... which caches only what cannot change any more.
CacheAfter(r, x, csn) ==
    IF COMMITSEQNO_IS_COMMITTED(csn) \/ COMMITSEQNO_IS_ABORTED(csn)
    THEN [xid |-> x, csn |-> csn]
    ELSE cache[r]

Visible(b) == IF b THEN "visible" ELSE "invisible"

\* Mutant: nobody waits for the mark of a child.
NeedsWait_TopOnly(csn, s) ==
    /\ COMMITSEQNO_IS_COMMITTING(csn)
    /\ ~COMMITSEQNO_IS_SUBTRANS(csn)
    /\ csn.val < s.csn

\* A commit-in-progress mark is decided at once when the counter sampled by
\* SetXact2CommitInProgress has reached the snapshot; otherwise wait.
NeedsWait(csn, s) ==
    /\ COMMITSEQNO_IS_COMMITTING(csn)
    /\ COMMITSEQNO_IS_SUBTRANS(csn) \/ csn.val < s.csn

\* The outcome of XidVisibleInSnapshot for the CSN it fetched.
XidVisible(csn, s) == COMMITSEQNO_IS_COMMITTED(csn) /\ csn.val < s.csn

\* The outcome of CommittedXidVisibleInSnapshot: a CSN that contradicts the
\* hint, or is still in progress after the wait, counts as committed.
CommittedXidVisible(csn, s, looped) ==
    IF COMMITSEQNO_IS_COMMITTING(csn) THEN looped
    ELSE COMMITSEQNO_IS_COMMITTED(csn) => csn.val < s.csn

\* Mutant: the entry is resolved after the wait without a look at the mark.
ResolveStaleMark_Blind(x, csn, looped, hinted) ==
    IF looped
    THEN [csnlog EXCEPT ![x] = CSNLogSetCSN(@,
             IF hinted THEN COMMITSEQNO_FROZEN ELSE COMMITSEQNO_ABORTED)]
    ELSE csnlog

\* What is written to the CSN log when the mark is still there after the wait.
ResolveStaleMark(x, csn, looped, hinted) ==
    IF looped /\ COMMITSEQNO_IS_COMMITTING(csn)
    THEN [csnlog EXCEPT ![x] = CSNLogSetCSN(@,
             IF hinted THEN COMMITSEQNO_FROZEN ELSE COMMITSEQNO_ABORTED)]
    ELSE csnlog

\* SetHintBits after XidVisibleInSnapshot: HEAP_XMIN_INVALID at once,
\* HEAP_XMIN_COMMITTED only if the commit record is known to be flushed.
HintsAfter(x, csn, looped) ==
    IF COMMITSEQNO_IS_COMMITTED(csn)
    THEN {hint, [hint EXCEPT ![x] = "committed"]}
    ELSE IF COMMITSEQNO_IS_ABORTED(csn)
             \/ (looped /\ COMMITSEQNO_IS_COMMITTING(csn))
    THEN {[hint EXCEPT ![x] = "invalid"]}
    ELSE {hint}

\* One pass through the body of the two functions after the label "loop".
Decide(r, x, s, looped, hinted) ==
    LET csn == TransactionIdGetCommitSeqNo(r, x, hinted, s)
        result == IF hinted THEN CommittedXidVisible(csn, s, looped)
                  ELSE XidVisible(csn, s)
    IN /\ ~(NeedsWait(csn, s) /\ ~looped)
       /\ rpc' = [rpc EXCEPT ![r] = "idle"]
       /\ verdict' = [verdict EXCEPT ![r] = Visible(result)]
       /\ cache' = [cache EXCEPT ![r] = CacheAfter(r, x, csn)]
       /\ csnlog' = ResolveStaleMark(x, csn, looped, hinted)
       /\ hint' \in IF hinted THEN {hint} ELSE HintsAfter(x, csn, looped)

\* The tuple's hint bits answer alone: HEAP_XMIN_INVALID, or a committed xmin
\* that precedes the snapshot's xmin.
HintDecides(r, i, x) ==
    /\ rpc[r] = "idle"
    /\ snap[r][i].csn # 0
    /\ x < nextXid
    /\ \/ hint[x] = "invalid" /\ verdict' = [verdict EXCEPT ![r] = "invisible"]
       \/ /\ hint[x] = "committed"
          /\ x < snap[r][i].xmin
          /\ verdict' = [verdict EXCEPT ![r] = "visible"]
    /\ rsnap' = [rsnap EXCEPT ![r] = i]
    /\ rxid' = [rxid EXCEPT ![r] = x]
    /\ UNCHANGED <<snap, rpc, rwait, rhint, cache, hint>>
    /\ UNCHANGED xactVars

\* The guard shared by the two ways a check on x in snapshot i may start.
StartsCheck(r, i, x) ==
    /\ rpc[r] = "idle"
    /\ snap[r][i].csn # 0
    /\ x < nextXid
    /\ hint[x] # "invalid"
    /\ ~(hint[x] = "committed" /\ x < snap[r][i].xmin)
    /\ rsnap' = [rsnap EXCEPT ![r] = i]
    /\ rxid' = [rxid EXCEPT ![r] = x]
    /\ rhint' = [rhint EXCEPT ![r] = hint[x]]
    /\ UNCHANGED <<snap, clog, treeVars, shmemVars, sessVars>>

\* A check that is decided in its first pass.
CheckXid(r, i, x) ==
    /\ StartsCheck(r, i, x)
    /\ Decide(r, x, snap[r][i], FALSE, hint[x] = "committed")
    /\ UNCHANGED rwait

\* A check that meets a commit in progress: SyncWaitXidEnd on the parent xid
\* stored in a child's mark, or on the xid itself.
CheckXidWaits(r, i, x) ==
    LET s == snap[r][i]
        csn == TransactionIdGetCommitSeqNo(r, x, hint[x] = "committed", s)
    IN /\ StartsCheck(r, i, x)
       /\ NeedsWait(csn, s)
       /\ rpc' = [rpc EXCEPT ![r] = "waiting"]
       /\ rwait' = [rwait EXCEPT ![r] =
                       IF COMMITSEQNO_IS_SUBTRANS(csn) THEN csn.val ELSE x]
       /\ verdict' = [verdict EXCEPT ![r] = "none"]
       /\ UNCHANGED <<cache, hint, csnlog>>

\* In maintenance mode, or while the thread is itself aborting, the function
\* returns false instead of waiting: "assumed" invisible.
CheckXidAssumes(r, i, x) ==
    LET s == snap[r][i]
    IN /\ StartsCheck(r, i, x)
       /\ NeedsWait(TransactionIdGetCommitSeqNo(r, x, hint[x] = "committed", s), s)
       /\ verdict' = [verdict EXCEPT ![r] = "assumed"]
       /\ UNCHANGED <<rpc, rwait, cache, hint, csnlog>>

\* ConditionalXactLockTableWait succeeds: the lock is free and the xid is no
\* longer in the proc array.
SyncWaitXidEnd(r) ==
    /\ rpc[r] = "waiting"
    /\ rwait[r] \notin xactLocks
    /\ rwait[r] \notin pgxactXids
    /\ rpc' = [rpc EXCEPT ![r] = "looped"]
    /\ UNCHANGED <<snap, rsnap, rxid, rwait, rhint, cache, verdict, hint>>
    /\ UNCHANGED xactVars

\* transaction_sync_timeout: the statement fails with an ERROR.
SyncWaitTimeout(r) ==
    /\ rpc[r] = "waiting"
    /\ rpc' = [rpc EXCEPT ![r] = "idle"]
    /\ UNCHANGED <<snap, rsnap, rxid, rwait, rhint, cache, verdict, hint>>
    /\ UNCHANGED xactVars

\* "goto loop" after the wait.
RecheckXid(r) ==
    /\ rpc[r] = "looped"
    /\ Decide(r, rxid[r], Snapshot(r), TRUE, rhint[r] = "committed")
    /\ UNCHANGED <<snap, rsnap, rxid, rwait, rhint, clog, treeVars, shmemVars,
                   sessVars>>

-----------------------------------------------------------------------------

ReaderInit ==
    /\ snap = [r \in Readers |-> [i \in Snaps |-> NoSnap]]
    /\ rpc = [r \in Readers |-> "idle"]
    /\ rsnap \in [Readers -> Snaps]
    /\ rxid = [r \in Readers |-> InvalidTransactionId]
    /\ rwait = [r \in Readers |-> InvalidTransactionId]
    /\ rhint = [r \in Readers |-> "none"]
    /\ cache = [r \in Readers |->
                  [xid |-> InvalidTransactionId, csn |-> COMMITSEQNO_INPROGRESS]]
    /\ verdict = [r \in Readers |-> "none"]
    /\ hint = [x \in Xids |-> "none"]

\* The steps a reader takes on its own once it has begun a check or a snapshot.
ReaderProgress(r) ==
    \/ ReadSnapshotCsn(r)
    \/ SyncWaitXidEnd(r)
    \/ RecheckXid(r)

ReaderNext(r) ==
    \/ ReaderProgress(r)
    \/ SyncWaitTimeout(r)
    \/ \E i \in Snaps :
          \/ GetLocalSnapshotData(r, i)
          \/ ScanProcArray(r, i)
          \/ \E x \in Tuples : \/ HintDecides(r, i, x)
                               \/ CheckXid(r, i, x)
                               \/ CheckXidWaits(r, i, x)
                               \/ CheckXidAssumes(r, i, x)

Init == XactInit /\ ReaderInit

Next ==
    \/ XactNext /\ UNCHANGED readerVars
    \/ \E r \in Readers : ReaderNext(r)

Spec == Init /\ [][Next]_vars

\* The scheduling the code relies on: a session inside RecordTransactionCommit
\* or RecordTransactionAbort is in a critical section and runs on to the
\* release of its locks (its WAL flush and its synchronous standbys answer),
\* and a reader that is not waiting runs on.
Fairness ==
    /\ \A t \in Xids : WF_vars(Finish(t) /\ UNCHANGED readerVars)
    /\ \A r \in Readers : WF_vars(ReaderProgress(r))

FairSpec == Spec /\ Fairness

-----------------------------------------------------------------------------
(* Properties                                                              *)

\* The type invariant of the readers, and of the whole.
ReaderTypeOK ==
    /\ snap \in [Readers -> [Snaps -> [xmin : Nat, csn : Nat]]]
    /\ rpc \in [Readers -> {"idle", "snapping", "waiting", "looped"}]
    /\ rsnap \in [Readers -> Snaps]
    /\ rxid \in [Readers -> Nat] /\ rwait \in [Readers -> Nat]
    /\ rhint \in [Readers -> {"none", "committed", "invalid"}]
    /\ cache \in [Readers -> [xid : Nat, csn : CommitSeqNo]]
    /\ verdict \in [Readers -> {"none", "visible", "invisible", "assumed"}]
    /\ hint \in [Xids -> {"none", "committed", "invalid"}]

\* Every variable of the sessions and of the readers stays in its type: the
\* logs hold CSNs and statuses for assigned and unassigned xids alike, locks
\* and proc array entries are real xids.
TypeOK == XactTypeOK /\ ReaderTypeOK

\* What a snapshot with this CSN has to show: the transactions that drew a
\* smaller CSN.
InSnapshot(x, csn) == csnOf[x] # 0 /\ csnOf[x] < csn

\* x belongs to a subtransaction, or a transaction, whose abort is recorded.
RolledBack(x) == clog[x] = "aborted" /\ COMMITSEQNO_IS_ABORTED(csnlog[x])

(***************************************************************************)
(* A visibility check answers "visible" exactly for the transactions that  *)
(* drew a CSN below the snapshot's: whatever the checks of                 *)
(* XidVisibleInSnapshot and CommittedXidVisibleInSnapshot met on their way *)
(* (a half-written tree, a commit in progress, a hint bit, the single-item *)
(* cache, the commit log behind xmin).  A tree has one CSN, so all of it   *)
(* is seen or nothing.  (A check cut short in maintenance mode is "assumed"*)
(* invisible by the code and claims nothing.)                              *)
(***************************************************************************)
VisibilityExact ==
    \A r \in Readers :
       verdict[r] \in {"visible", "invisible"} =>
          (verdict[r] = "visible" <=> InSnapshot(rxid[r], Snapshot(r).csn))

(***************************************************************************)
(* A transaction commits as a whole: once it has drawn its CSN, each of    *)
(* its subtransactions has the same CSN or was rolled back and is recorded *)
(* as aborted in both logs.  Savepoints that were released pass their xid  *)
(* and those of their own children up, level by level                      *)
(* (AtSubCommit_childXids); one that got lost on the way would be running  *)
(* for ever in the CSN log.                                                *)
(***************************************************************************)
TreeCommitsWhole ==
    \A x \in Xids :
       (topXid[x] \in Xids /\ csnOf[topXid[x]] # 0) =>
          csnOf[x] = csnOf[topXid[x]] \/ RolledBack(x)

(***************************************************************************)
(* Every xid below the xmin of a complete snapshot belongs to a            *)
(* transaction that has left the proc array, and if it committed, it did   *)
(* so with a CSN the snapshot covers: the two facts that let the code      *)
(* answer from the commit log or a hint bit without a CSN.                 *)
(***************************************************************************)
XminHorizon ==
    \A r \in Readers, i \in Snaps, x \in Xids :
       (snap[r][i].csn # 0 /\ x < snap[r][i].xmin) =>
          /\ topXid[x] \in Xids
          /\ pc[topXid[x]] \in {"ended", "done"}
          /\ csnOf[x] < snap[r][i].csn
          /\ clog[x] = "committed" <=> csnOf[x] # 0

(***************************************************************************)
(* After SyncWaitXidEnd the commit-in-progress mark is gone, so a reader   *)
(* never has to overwrite it with ABORTED or FROZEN ("is changed to ABORT  *)
(* after lockwait"): locks are released after the CSN has been written.    *)
(***************************************************************************)
MarkResolvedAfterWait ==
    \A r \in Readers :
       rpc[r] = "looped" => ~COMMITSEQNO_IS_COMMITTING(csnlog[rxid[r]])

(***************************************************************************)
(* Nobody asks CSNLogSetCSN for a change that stops the server: no session *)
(* is about to stamp an aborted entry or to abort a committed one.         *)
(***************************************************************************)
NoCsnLogPanic ==
    \A t \in Xids : \A x \in todo[t] :
       /\ pc[t] = "stamping" =>
             ~CSNLogPanics(csnlog[x], PlainCsn(commitCSN[t]))
       /\ pc[t] = "aborting" =>
             ~CSNLogPanics(csnlog[x], COMMITSEQNO_ABORTED)

(***************************************************************************)
(* A CSN log entry that says committed or aborted is final: no step of a   *)
(* session or of a reader (CSNLogSetCSN) changes it.                       *)
(***************************************************************************)
CsnLogFinal ==
    [][\A x \in Xids :
          (COMMITSEQNO_IS_COMMITTED(csnlog[x])
             \/ COMMITSEQNO_IS_ABORTED(csnlog[x]))
          => csnlog'[x] = csnlog[x]]_vars

(***************************************************************************)
(* A snapshot is repeatable: as long as a thread holds it, no step adds or *)
(* removes a transaction (getLocalNextCSN draws CSNs at or above every     *)
(* snapshotcsn handed out).                                                *)
(***************************************************************************)
SnapshotRepeatable ==
    [][\A r \in Readers, i \in Snaps, x \in Xids :
          (snap[r][i].csn # 0 /\ snap'[r][i] = snap[r][i])
          => (InSnapshot(x, snap[r][i].csn)' <=> InSnapshot(x, snap[r][i].csn))]_vars

(***************************************************************************)
(* A reader that waits for a commit in progress is released: the committer *)
(* needs nothing the reader holds.                                         *)
(***************************************************************************)
WaitEnds ==
    \A r \in Readers : rpc[r] = "waiting" ~> rpc[r] # "waiting"

=============================================================================
