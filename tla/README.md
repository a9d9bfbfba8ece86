# openGauss: transactions, snapshots, recovery and queues in TLA+

This directory is a verification development of the concurrent core of the
openGauss server: TLA+ modules written from the C++ source, TLC configurations
that check them on small instances, and TLAPS proofs of the main results for
every value of the constants. `PROJECT.json` is the index: which source lines a
definition models (`map`), which run checks which property, which mutated
definition each property catches, what the code is exposed to (`hazards`),
where code and comments disagree (`findings`), and what is proved (`theorems`).

## 1. The system

openGauss is a relational server descended from PostgreSQL, with threads
instead of processes. What it adds to the transaction system is commit sequence
numbers (CSNs): a snapshot is a number, and a transaction is in it when it has
drawn a smaller one. Most of the server is sequential code on private state. The
parts below share memory between threads and carry the server's guarantees.

| Component | State | Operations | Talks to | Hard because | Correct when |
|---|---|---|---|---|---|
| CSN log (`csnlog.cpp`) | one 64-bit word per xid: CSN, or parent and two flag bits | set page status, set parent, get CSN, truncate | SLRU buffers, commit, visibility | entries of one tree are written one by one under a shared lock | entries are final; no forbidden change (PANIC) |
| Commit and abort (`xact.cpp`, `transam.cpp`, `varsup.cpp`) | stack of transaction states, `childXids`, `nextXid`, `nextCommitSeqNo` | assign xid, savepoints, commit, abort | CSN log, commit log, proc array, lock manager, WAL | a commit is a dozen shared-memory writes others see in between | all of a tree or nothing; order of mark, CSN, log, proc array, lock |
| Visibility (`snapmgr.cpp`, `heapam_visibility.cpp`) | snapshot, single-item cache, hint bits | check an xid, wait for a commit in progress | CSN log, commit log, lock manager | four sources of truth of different age | visible iff CSN below the snapshot's |
| Proc array, group clearing (`procarray.cpp`) | `PGXACT.xid`, list of waiting PGPROCs, semaphores | end transaction, end subtransaction | commit, lock manager | lock-free list, a leader works for others, stray wakeups | each request is served exactly once; nobody sleeps for ever |
| Snapshot ring, horizon (`procarray.cpp`) | ring of snapshots with reference counts, `PGXACT.xmin`, `recentLocalXmin` | publish, take a snapshot, `GetOldestXmin` | commit, vacuum, checkpointer | readers take no lock | no row a snapshot shows is removed |
| Redo queues (`spsc_blocking_queue.cpp`) | array, two indexes | Put, Take, Top/Pop, GetAll/PopN | dispatcher, redo workers | no lock, wrap-around, Put that gives up | first in, first out; nothing lost or redone twice |
| Commit log and group update (`clog.cpp`, `transam.cpp`) | two bits per xid, `group_lsn`, list of waiting PGPROCs | set tree status, did-commit | commit, visibility, SLRU banks | pages of a tree are written one by one; a leader works for others and reads their fields | a tree commits at once for its readers; each request is served as asked; nobody sleeps for ever |
| SLRU (`slru.cpp`) | page slots, bank locks | read, replace, write | CSN log, commit log | I/O outside the lock | a page that changes while it is written stays dirty; WAL first |
| Parallel redo (`parallel_recovery/`, `extreme_rto/`) | workers, redo items with reference counts | dispatch, apply, synchronise | redo queues | wait cycles between workers and dispatcher | order per page; termination |
| WAL, checkpoints, page writer (`xlog.cpp`, `pagewriter.cpp`, `bufmgr.cpp`) | insertion slots, dirty page queue with `rec_lsn`, control file | insert, flush, checkpoint, recover | everything that writes | crash between any two steps; a checkpoint that writes no page takes its redo point from a queue others fill | a committed transaction survives; recovery gives what the log says |
| Lightweight locks (`lwlock.cpp`) | state word with a count per byte, list of waiters, `lwWaiting`, semaphore | acquire (with timeout, conditionally, or wait), release, downgrade | everything | bytes of one word are swapped apart, flags and list change beside the attempts, wakeups of others | exclusion; no thread on two lists; no lost wakeup |
| Lock manager, deadlock detector (`lmgr/`) | lock tables, wait queues | acquire, release, detect | everything | cycles | conflicts, progress |
| Standby snapshots, two-phase commit, replication, slots | `KnownAssignedXids`, prepared xacts, sync wait queues | | | | |
| Shared invalidation (`sinvaladt.cpp`, `sinval.cpp`, `inval.cpp`) | message ring, reader positions, pending messages | insert, read, clean up, catch up, reset | catalog caches | readers beside writers, slow readers, numbers that wrap, nested calls | no message missed without a reset; no stale entry unannounced |
| MOT | rows with versions, epochs, redo buffers | OCC validation, group commit, checkpoint | WAL | an engine of its own | |
| Ustore, page replacement, thread pool | | | | | |
| SQL front end, optimizer, executor, contrib, tools | private | | | sequential | out of reach of a model checker |

Modelled: the first seven, the WAL, checkpoint and page writer row as far as a
crash can tell (with the SLRU write it needs), lightweight locks, and shared
invalidation.
`PROJECT.json` says of each what is missing, and of the others why they are not.

The configuration modelled is that of a single-node build: `GTM_FREE_MODE`, a
primary, no shared-storage cluster (`ENABLE_DMS` off), not `__aarch64__` (there the
slots of the snapshot ring are counted in a bit mask, `1 << index` with an int on the
left at `procarray.cpp:4837`, and slots above 31 have no bit of their own).

## 2. Modules

```
CsnLog          words of the CSN log and CSNLogSetCSN
  XactCommit    sessions: xids, savepoints, commit, abort
    MvccVisibility   + readers: snapshots and visibility checks; properties
      MvccInvariant      the inductive invariant
        MCMvccVisibility     for TLC
        MvccProofs           the theorems
GroupClearXid   leaving the proc array in groups        MCGroupClearXid, GroupProofs
SnapshotRing    lock-free snapshots, vacuum horizon     MCSnapshotRing, RingProofs
RedoFifo        what a redo queue promises
  SpscQueue     the lock-free queue, refines RedoFifo   MCSpscQueue, SpscProofs
AtomicClog      what the commit log promises its readers
  ClogGroup     trees, pages, banks, group update       MCClogGroup, ClogProofs
InvalDelivery   what the invalidation queue promises
  SInvalAdt     the queue
    SInval      its users, refines InvalDelivery        MCSInval, SInvalProofs
CrashRecovery   commit, checkpoint, crash, redo         MCCrashRecovery, CrashProofs
LWLock          one lightweight lock                    MCLWLock, LWLockProofs
```

### CsnLog, XactCommit

An entry of the CSN log is a record: its kind is the combination of the two flag
bits, its value the masked number (a CSN, or the parent's xid). `CSNLogSetCSN`
keeps an aborted entry and otherwise overwrites; `CSNLogPanics` names the two
changes on which the code stops the server.

A session is named by its top-level xid. `pc` says how far it is:

| Action | Code |
|---|---|
| `AssignTransactionId`, `AssignSubTransactionId` | `AssignTransactionId`, `GetNewTransactionId`, `SubTransSetParent`, `XactLockTableInsert` |
| `CommitSubTransaction` | `AtSubCommit_childXids`, `XactLockTableDelete`, pop |
| `SetXact2CommitInProgress`, `MarkCommitInProgress` | the CSN counter is sampled, then one entry of the tree per step gets its mark |
| `GetLocalNextCSN` | fetch-and-add; the point at which a transaction commits |
| `CommitTree` | commit record, flush, synchronous standbys, commit log |
| `StampCommitCsn` | `UpdateCSNLogAtTransactionEND`, one entry per step |
| `AbortTree`, `MarkAborted` | `TransactionIdAbortTree` |
| `AbortSubTransaction` | end of `RecordTransactionAbort(true)`, `AtSubAbort_childXids`, pop |
| `ProcArrayEndTransaction` | withdraw the xid, publish a snapshot (possibly with the old xmin: deferred calculation) |
| `ReleaseXactLocks` | `ResourceOwnerRelease(RESOURCE_RELEASE_LOCKS)` |

The assignment of an xid is one step. In the code the proc array entry, the
parent link and the lock follow each other within it, and nobody can ask for the
xid before it is written to a row. The commit log is written for a whole tree in
one step: its readers only ask for xids below xmin, which are over. `csnOf` is a
history variable, the CSN a transaction drew. Savepoints without an xid leave no
trace in shared memory and are left out.

### MvccVisibility

A reader takes a snapshot in two steps: xmin (from the ring, `snapXmin`, or by a
scan of the proc array), then the CSN counter. A check starts from the tuple's
hint bits and runs through `XidVisibleInSnapshot` or, under a committed hint,
`CommittedXidVisibleInSnapshot`: single-item cache, commit log below xmin, CSN
log otherwise; it answers, or waits for a commit in progress and looks again, or
gives up with an ERROR after `transaction_sync_timeout`. `Decide` is one pass,
with what the pass writes (cache, hint bits, and the CSN log if a mark is found
where none can be). In maintenance mode the function returns false instead of
waiting; that answer is recorded as `assumed` and no property speaks of it.

Properties: `VisibilityExact` (the main one), `TreeCommitsWhole`, `XminHorizon`,
`MarkResolvedAfterWait`, `NoCsnLogPanic`, `CsnLogFinal`, `SnapshotRepeatable`,
`WaitEnds`. Writers and readers of a CSN log page both hold its bank lock in shared
mode, so the entries of a tree are written one by one and a reader may see a
committed parent beside a child that is still marked; `VisibilityExact` holds all
the same because the mark makes the reader wait.

### GroupClearXid

The fields of each PGPROC, the list head, `ProcArrayLock` and the semaphore, at
the grain of the plain stores that matter: `SetMember` and `SetSubFields` on the
way in, `ReleaseMember`, `ClearMemberXid`, `ClearSubFields`, `Wake` on the way
out. Xids are not numbered: a field says whether it holds the transaction's or
the subtransaction's. `Insert` is the compare-and-swap that succeeds.
`LeftoverWakeup` is what `LockErrorCleanup` may leave in the semaphore. A PGPROC
has at most one open subtransaction, so the order within its cache is not
modelled: `XidCacheRemoveRunningXids`, run by a leader for a member, sorts the
leader's own array (`procarray.cpp:4163`), which costs the member the group update of
the commit log (see ClogGroup) and nothing else.

### SnapshotRing

The thread that ends a transaction walks through `CalculateLocalLatestSnapshot`
under `ProcArrayLock`: the ring slot by slot, the proc array entry by entry, then
the slot's fields one by one. `SetNextSnapXid` then makes the slot the current one and
looks for the next free one, slot by slot (`SlotIsFree`, `SlotIsInUse`), the current
one last; a pass that finds all in use is followed by another (the WARNING) or, after
`SNAP_ERROR_COUNT` tests, by the PANIC. Readers take their six steps without a lock at
any moment, during the search too. `passBegan` is a history variable: who was between
`GetCurrentSnapXid` and `ReleaseSnapXid` when the pass began. `GetOldestXmin` has two forms: a
session that has taken a snapshot reuses its own `RecentGlobalXmin` (vacuum), one
that has not takes the current slot's `localxmin` (checkpointer). A deleted row
is named by its deleter; `RemoveDeadRow` is the verdict of
`HeapTupleSatisfiesVacuum`. Transactions are reduced to running, CSN drawn,
ended; readers have no xid of their own. Left out: replication slots,
`vacuum_defer_cleanup_age`, the exemption of lazy vacuums (`PROC_IN_VACUUM`).

### SpscQueue, RedoFifo

`RedoFifo` is a bounded queue with `Put` and `Take` of the oldest n. `SpscQueue`
has each access to the array and to the indexes as a step: the barriers of the
code forbid any other order. `Capacity` need not be a power of two in the model:
`& mask` is the remainder for those that are. The refinement mapping reads the
queue off the array between the two indexes; a Put takes effect when `writeHead`
is stored, a removal when `readTail` is. `PutLimit` distinguishes the queue of
extreme_rto (0: wait for ever) from that of parallel_recovery (give up after four
reads). Left out: the usage statistics and the callbacks.

### ClogGroup, AtomicClog

`XactCommit` writes the commit log of a tree in one step. `ClogGroup` shows why it
may: for a tree on several pages `CLogSetTreeStatus` has the others marked
sub-committed, then the page of the xid itself written, then the others committed.
`todo` says in which of these passes a session is and which xids
`set_status_by_pages` has not come to yet; `PageCall` is the next call of
`CLogSetPageStatus`, `AfterCall` what is left after it, `Written` what it does to a
page. A write goes alone under the lock of the
page's bank (`SetAlone`) or, if the tree is on one page and its subxids are those
cached in the PGPROC (`MayGroup`), through `SetMember`, `SetNext`, `Join` and then
`Sleep` or, as the leader, `Detach`, `AcquireBank` (changing banks where a
member's page needs it), `Serve`, `Unlock`, `Release`, `SemUnlock`. A member that
finds another page at the head of the list leaves (`OtherPage`). A checker asks
`TransactionIdDidCommit` and goes from a sub-committed child to its parent.

`AtomicClog` records the end of a whole tree in one step; the mapping reads a
sub-committed entry through the parent. `CheckerExact` is about a checker whose
reads are apart, `ServedWhenReturned` about the fields a leader reads,
`BankLockHeld` about a group that spans banks, `EndIsRecorded` about the sleepers.
One partition of the log is modelled, each has a list of its own. The guard of
`TransactionIdDidCommit` for xids below `TransactionXmin` is left out: the xids
asked about are running or just over. The order in the subxid cache, which
`XidCacheRemoveRunningXids` may spoil, decides only about `MayGroup`.

`TreeAssumption` is what transactions are: an xid ends once, only
`RecordTransactionCommit` of a top-level transaction commits, a tree has its xids once,
and a subtransaction gets its xid after its parent's (`AssignTransactionId`), so that
its parent's is smaller and, as it comes from the children of the one that ends, in the
tree.

### SInvalAdt, SInval, InvalDelivery

`SInvalAdt` is the ring with its numbers: a writer inserts in batches under
`SInvalWriteLock` (`InsertLock`, `InsertCleanup`, `WriteEntries`, `PublishMax`,
`Kick`), readers run beside it (`NothingToRead` is the unlocked test of
`hasMessages`, `ReadLock`, `ReadMax`, `GetReset`, `GetEntries`), and
`SICleanupQueue` resets those too far back, picks the one to signal and takes
`MSGNUMWRAPAROUND` off all numbers. Slots below `maxreserveBackends` are threads,
the rest sessions of the thread pool, which are never signalled. `SInval` adds
those who use it: a transaction that changed relations (`AtEOXact_Inval`), and
`AcceptInvalidationMessages`, whose rebuilds call it again. `stack` holds the calls
under way, `rcData` the relations it has seen since the outermost one began.

`InvalDelivery` delivers every message once and in order to everyone attached, or
tells him that he has lost some. `StaleIsAnnounced` adds what caches need: an entry
read before the last change has a message or a reset on its way. A catchup signal may
be absorbed by a receive that is already past its read; the queue then waits for
the next clean-up, so `SendersGetOn` is about the senders and not about each signal.

### CrashRecovery

Positions are indexes of records; a record ends where the next one starts.

| Actions | Code |
|---|---|
| `MarkBufferDirty`, `InsertRow`, `RowDone` | `heap_insert`: dirty under the content lock, insert the record, set the page LSN |
| `StartCommit`, `InsertCommit`, `CommitLogged`, `SetClog`, `EndCommit` | `RecordTransactionCommit`: `delayChkpt`, record, flush (or none, asynchronous), commit log with its LSN, `delayChkpt` off |
| `SetHintBits` | only if the commit is flushed or the page's LSN covers it |
| `FlushWal` | the WAL writer and all who wait in `XLogWaitFlush` |
| `FlushBuffer`, `TerminateBufferIO`, `ckpt_move_queue_head_after_flush` | page writer: WAL first, write, clear dirty unless dirtied again, move the head |
| `StartSuspendWalInsert` ... `Recheck` | `CreateCheckPoint`: the redo point from the dirty page queue or, for a full checkpoint, the insert position |
| `FindDelaying`, `WaitForDelaying` | `GetVirtualXIDsDelayingChkpt`, `HaveVirtualXIDsDelayingChkpt` |
| `CheckPointCLOG`, `EndClogWrite`, `CheckPointBuffers` | `CheckPointGuts`; the write of the commit log page is two steps |
| `InsertCheckpoint`, `UpdateControlFile` | the record, its flush, the PANICs, `pg_control` |
| `Crash` | keeps the flushed log and any longer prefix; page writes that were not synced may be lost |
| `StartupXLOG`, `CheckForRestartPoint` | redo from the control file's point, in one step; the server opens before its first full checkpoint |

Filling a slot of the dirty page queue is merged with taking its place (whoever
meets an empty slot waits). `UpdateStep` is the threshold below which
`dirty_page_queue_reclsn` is not raised. The recheck of the redo point turned out to
protect against the PANIC of a redo point that goes back and not against loss.
Recovery leaves the pages it has changed in the queue, in the order in which it met
their first record.
`NobodyStuck` states that as long as a commit or a checkpoint is under way some thread
can go on, and that whoever `SomebodyReady` counts as having what it waits for can go
on too; between two outside events these steps are finitely many, so it stands for
their termination without a fairness assumption.

Left out: aborts, torn pages and the double write files (a page write is atomic),
page replacement, restart points of a standby, removal of WAL, the mode without
incremental checkpoints, I/O errors, a full dirty page queue. The commit log is one
page with one group LSN. `Proceed` leaves out the skip of a checkpoint whose redo point
precedes `GetRemainCommitLsn` (`xlog.cpp:12853`, set when replay of segment storage has
leaked extents): the model takes the checkpoint. There is no action for the
test that nothing was logged since the last checkpoint (`xlog.cpp:12801`), because it
never holds: it expects the insert position `sizeof(CheckPoint)` behind the header of
the last checkpoint record, but what is inserted (`xlog.cpp:13133`) is a
`CheckPointUndo` with a data header, and longer. An idle server's timed checkpoint
therefore writes a record each time, as it does in the model.

### LWLock

The word is split as the code splits it: `count` per byte for the shared holders of
the threads that map to it, `bits` for the exclusive bit, which `LW_VAL_EXCLUSIVE`
sets in every byte, and the two flags. A shared locker reads the word (`ReadState`)
and swaps its byte later (`AttemptShared`); an exclusive one swaps the whole word and
is one step. `first` and `second` are the two attempts around `LWLockQueueSelf`. What
is done under `LW_FLAG_LOCKED` is one step: whoever looks at the list waits for that
flag. `LWLockDequeueSelf`, `DequeuedByOther`, `AwaitWakeup` are the way out of the
queue after a lock was got or time ran out; `LWLockWakeup`, `ClearWaiting`,
`PGSemaphoreUnlock` the way of a release. `LWLockAcquireTimeout` and
`LWLockDowngrade` are in the model although only shared-storage builds call them.
Left out: the variables of `LWLockWaitForVar`, `LWLockUpdateVar` and
`LWLockReleaseClearVar`, which nobody calls, the table of held locks, the victims of
the LWLock deadlock monitor.

`StateWordExact` is exclusion together with the exactness of the word; `LinksSound`
is why a thread may queue again, and why one that was taken off the list need not look
for itself there: its wakeup is coming; `SleeperWoken` says that no wakeup is lost. It has
one exception, which the code has: a call of `LWLockAcquireTimeout` that runs out of
time after `LWLockWakeup` has chosen it sets `LW_FLAG_RELEASE_OK` again and returns,
but wakes nobody in its place. An exclusive waiter behind it then sleeps although the
lock is free, until somebody else takes and releases the lock. Each such call also
counts its timeout in `extraWaits` if it was still waiting, and raises its own
semaphore by a wakeup that never came; later sleeps look again, so it is harmless.

## 3. Runs

Distinct states in parentheses.

| Run | Instance | Shows |
|---|---|---|
| `mvcc_tree` (0.5 M) | 3 xids, 1 reader, 1 snapshot, the tuple of the middle xid | all invariants and `CsnLogFinal` for all trees of up to three xids: nested savepoints, siblings, a transaction and a savepoint side by side |
| `mvcc_snapshots` | 2 xids, 1 reader with 2 snapshots | the cache and the hint bits never carry an answer over to a snapshot it is wrong for; `WaitEnds` |
| `group_exact` (93 k) | 3 PGPROCs, one with subtransactions, another with a stray wakeup | `RequestServed`, `WakeupsBalance`, `FollowerReleased` |
| `group_sub_latest` | 3 PGPROCs, the one with subtransactions has a stray wakeup | violation: late stores wipe a new request |
| `ring_vacuum` (2.1 M) | 2 xids, 2 readers with up to 3 snapshots between them, 2 slots, PANIC after 4 tests | `IInv`, `NoVisibleRowRemoved`, `XminIsHorizon`, `OverflowNeedsReaders` |
| `ring_cutoff` | 4 xids, 1 reader | violation: an xmin below the cutoff |
| `spsc_fifo` | capacity 4, 2 elements, `PutLimit` 4 | refinement of `RedoFifo`, `IInv`, `QueueMovesOn` |
| `clog_group` (144 k) | 3 sessions with 2 requests each, 4 pages in 2 banks, a checker, one stray wakeup | refinement of `AtomicClog`, `ServedWhenReturned`, `BankLockHeld`, `CheckerExact`, `EndIsRecorded` |
| `crash_recovery` (1.8 M) | a synchronous and an asynchronous commit on one page, one to two checkpoints, 2 crashes | `IInv`, `DurableCommit`, `RecoveredExactly`, `HintTrue`, `NoCkptPanic`, `NobodyStuck` |
| `lwlock` (225 k) | 3 threads, 2 bytes that count one holder each, all operations, 1 timeout, one stray wakeup | `IInv`, `StateWordExact`, `LinksSound`, `SleeperWoken` |
| `sinval` (248 k) | a thread and a pool session that both send, a queue of 3, numbers that wrap at 3 | refinement of `InvalDelivery`, `NothingOverlooked`, `StaleIsAnnounced`, `SendersGetOn` |
| `sinval_skip` | two threads, three nested calls | violation: a message skipped as a duplicate was not one |

Why the bounds are enough to be interesting. Three xids make a tree of depth
three or two transactions one of which has a child; one reader is enough because
readers do not interact except through hint bits and the CSN log, and the proof
covers any number. The second snapshot is what makes the cache dangerous. In the
group, three PGPROCs give a leader, a follower and a late-comer that starts the
next group while the first is still being woken. The ring
has as many slots as there are readers, so it fills up: a first pass of the search
fails with one reader on the old slot and then on the current one as well as with two,
later passes fail and the PANIC is reached. With two slots, two transactions use it
once round, so a reader that holds a stale pointer sees its slot rewritten. Capacity 4 makes batches that end at the
wrap-around and queues that are full with three elements. In the commit log the
pages are such that all three sessions can meet in a group for page 0, that one of
them moves on to page 1 while the others still compare pages, that a group spans two
banks, and that a tree lies on three pages with its parent links nested. The
invalidation queue holds as many messages as one transaction sends, so a reader that
pauses for two of them is reset, and the numbers are reduced at every turn; each of the
two senders may fill it again while the other has let go of the locks to signal. For a
crash, two rows on one page make the page dirty again while it is written, and the
log position of the asynchronous commit is behind that of the synchronous one or
ahead of it; a second crash meets what the first recovery has left behind, and the
checkpoint after it. Transactions begin, and rows are read, before the first crash
(`InFirstRun`). In the LWLock two threads share a byte and a third has its own, so a
shared locker meets a full byte as well as an exclusive bit that has appeared since it
read; three threads are a holder, one that is being woken and one behind it.

Deadlock is checked in every run but `crash_recovery`, where transactions,
checkpoints and crashes are bounded and all may come to rest; there `NobodyStuck`
says what deadlock freedom means. Symmetry is used in `ring_vacuum`, where the readers
are alike and only invariants are checked; the other runs check liveness or have
threads that differ.

### Fairness

* `mvcc_snapshots`: weak fairness of a session once it has begun to commit or abort
  (it is in a critical section, and its WAL flush and standbys answer) and of a
  reader that is not waiting. Sessions need not ever commit, and the timeout of a
  wait need not ever fire.
* `group_exact`: weak fairness of the threads inside `ProcArrayGroupClearXid` and
  of the shared holders' release; strong fairness of the leader's acquisition of
  `ProcArrayLock`, which others may take again and again. The LWLock wakes the
  leader whenever the lock is free again and again (`SleeperWoken` of run `lwlock`);
  strong fairness adds that, woken, it does not lose the race for the lock every
  time, which an LWLock leaves to the scheduler.
* `spsc_fifo`: a Put that was called runs on; the redo worker consumes in an
  endless loop.
* `clog_group`: weak fairness of each thread inside the update. Nobody has to join a
  group, begin another transaction or ask.
* `lwlock`: weak fairness of a thread inside a call, and who holds the lock lets go of
  it. `SleeperWoken` assumes besides that the lock is free again and again: shared
  holders that take turns may keep an exclusive waiter asleep, as only the last one
  to leave wakes anybody.
* `sinval`: weak fairness of a thread inside an insertion or a receive, strong
  fairness of its lock acquisitions for the reason given above, and a signalled
  backend accepts its messages (`ProcessCatchupInterrupt`). An idle backend that was
  not signalled need not ever look.

### Findings

1. `group_sub_latest`: the order of the stores in `ClearProcArrayGroupCache`
   together with a leftover semaphore wakeup lets an old leader wipe a new
   request; a running transaction whose subtransaction aborts may then be ended.
   Clearing `procArrayGroupMember` last, behind a write barrier, excludes it.
2. `ring_cutoff`: `GetOldestXmin`'s comment that no later snapshot gets an older
   xmin. Vacuum is safe all the same (`NoVisibleRowRemoved`: the CSN is read
   last); `TruncateCSNLOG` relies on it.
3. `sinval_skip`: `rcData` is emptied only by the outermost
   `AcceptInvalidationMessages`. If a relation changes again while calls are nested,
   its second message is skipped as a duplicate of the first although the entry
   was rebuilt in between, and the entry stays out of date.

## 4. Proofs

All leaves are checked by SMT, Zenon or LS4. Each component has an inductive
invariant `IInv`, which contains its type invariant, and a theorem `Invariance`; the
other theorems follow from it. Runs check `IInv` with TLC where TLC can evaluate it
(`mvcc_tree`, `spsc_fifo`, `ring_vacuum`, `lwlock`, `crash_recovery`); those of GroupProofs
and ClogProofs are existential formulas over functions, and that of SInvalProofs
quantifies over all integers.

### MvccProofs

Assumptions: `MaxXid \in Nat`, `Tuples \subseteq Xids`. `Readers` and `Snaps` are
arbitrary sets.

`VisibilityExact` is not inductive: that a check is right depends on what the
CSN log, the commit log, the cache, the hint bits and xmin may say at that
moment. `IInv` states it:

* about sessions (`XactInv`): open states form a stack and hold their locks
  (`StackInv`), committed children belong to one open state (`ChildInv`), nothing
  that may still commit is aborted (`NotAbortedInv`), the commit log and the CSN
  log against the CSN drawn (`CsnOfInv`, `CsnLogInv`: an entry that has a CSN is
  either stamped or still marked, a mark exists only while its session commits
  and holds a number at most its CSN), everything marked before the CSN is drawn
  (`MarkingInv`), everything below the published xmin is over (`HorizonInv`);
* about readers (`ReaderInv`): the same for what they hold (`SnapInv`,
  `CacheInv`, `HintInv`, `CheckInv`).

The argument has two halves that meet in `Monotone`. Each session action
preserves each part of `XactInv` it can disturb and is monotone: xids and owners
stay, finished stays finished, a CSN is drawn once, at the counter, by a
transaction that is running and not aborted, final entries stay.
Monotone steps do not disturb what readers hold (`ReaderFrame`). In the other
half, `TransactionIdGetCommitSeqNo` returns something acceptable from each of its
three sources (`FetchOK`), from which a pass of either function gives the exact
answer and writes nothing to the CSN log. Then

* `Invariance`, `TypeCorrect`, `VisibilityIsExact`, `XminIsHorizon`,
  `MarkIsResolved`, `CsnLogNeverPanics`: `Spec => []P` from `IInv`;
* `CsnLogIsFinal`, `SnapshotIsRepeatable`: action properties, from `IInv` and
  `Monotone`.

`TreeCommitsWhole` needs a second invariant on top of `IInv`: as long as a
transaction has no CSN, each of its xids was rolled back or lies in the tree of
one of its open states (`AccountedInv`), and the abort of a state writes all of
its tree (`AbortedWholeInv`). When the CSN is drawn the stack is down to the
top-level state, so its tree is everything that was not rolled back.
`TreeCommitsAsAWhole` is the theorem.

### SpscProofs

Assumptions: `Capacity >= 2`, `PutLimit \in Nat`, `Null \notin Elements`. `IInv`
says that each slot belongs to one side: the slot being filled is outside the
queue (`ProducerInv`), what the indexes delimit has been written (`QueueInv`),
what the consumer has read is still there and in one piece (`ConsumerInv`). A few
lemmas say what moving an index does to `COUNT` and `SPACE`. From them
`Invariance`, `PopNeverFails`, and `QueueIsFifo`: `Spec => Fifo!Spec`, where every
step but `PutPublish`, `TakePublish` and `Pop` is a stutter.

### GroupProofs

Assumption: `Procs` is finite (`MaxBackends`). `IInv` has two halves.

* The lists (`ListInv`). There are functions `own`, whose list a PGPROC is on, and a
  set `done` of those that a leader's walk has passed, such that each list ends with its
  leader (`OwnInv`), links stay within a list and no two members link to the same one
  (`LinkInv`), the list that grows starts at `procArrayGroupFirst` and a detached one
  where its leader says (`RootInv`), and what a walk has passed was served and is
  closed under `procArrayGroupNext` up to where the walk is (`DoneInv`). So when the
  walk has come to the end, everybody from the head on was served; and the last one
  to be released is the leader itself.
* The sessions: the fields of a PGPROC say what it asked for (`FieldInv`), what has not
  asked to end is advertised (`RunningInv`), whoever was released was served
  (`ReleasedInv`), wakeups balance.

The halves need each other at one place. The leader clears the fields of a member
after it has let it go. `WakeupsBalance` shows that a member without a stray wakeup
still sleeps then (`OwedSleeps`), so the fields are those of the old request; with
one they may be those of the next, which is the finding `group_sub_latest`, and
`FieldInv` claims the less that remains. `ProcArrayLock` is not used in the proof:
the lists keep leaders apart.

Theorems: `Invariance`, `RequestsAreServed`, `WakeupsAreBalanced`.

### RingProofs

Assumptions: `RingSize >= 2`, the bounds are numbers, `Readers` is finite. `IInv`
says that whatever may become somebody's xmin is a horizon, in the slots, in the hands
of the thread that computes the next one and of readers between their steps
(`SlotInv`, `ScanInv`, `ReaderInv`), that every cutoff vacuum may use is safe for every
snapshot, those under way included (`VacuumInv`), and that reference counts are the
number of readers that pin the slot (`RefInv`). A horizon stays one because an xid that
is over does not come back (`OverStays`); a cutoff stays safe because a snapshot draws
its CSN last, after it has advertised its xmin (`NewSnapshot`, `CoveredStays`).

`OverflowOnlyWhenCrowded` is about the comment in `SetNextSnapXid`, "we alloc
sufficient space for local snapshot, overflow should not happen here". The slots are
tested one by one while readers come and go, so fewer readers than slots do not exclude
that all are found in use: one reader may be met on an old slot and again on the
current one. What is proved, for any number of readers, is what a failing pass needs:
`RingSize - 1` threads between `GetCurrentSnapXid` and `ReleaseSnapXid` at the moment
the snapshot is published, and for every later pass (and the PANIC, which with 64 slots
comes after the fourth) `RingSize` threads at the moment that pass begins. The code
has 64 slots and does not limit the readers. The argument is `SearchInv`: whoever reads the
pointer after the publication gets the current slot, so an old slot is used only by
readers who were there when the pass began. Each old slot that is found in use adds
such a reader to `Behind`, those whose slot has been tested or who have let go of it,
and none ever leaves that set (`InUse`, `BehindStays`). A later pass begins when the
current slot has just been found in use, and its user is one more, counted from the
start. `SnapshotXmin` and `VacuumIsSafe` hold for any number of
readers as well.

### LWLockProofs

Assumptions: `Procs` is finite, `MaxCount >= 1`, and each thread has a byte. `IInv` is
the type invariant with where a thread may be (`PlaceInv`), `StateWordExact`, that a
PGPROC's one link is used once (`ListInv`) and `LinksSound`. The delicate step of
`StateWordIsExact` is the swap of one byte by a shared locker: an exclusive holder
sets a bit in every byte, so a byte that is as it was read shows that there was none.
The counts are cardinalities of sets of holders. The filters on the lists of waiters
are the recursive function `Only`; what it returns is proved by induction.

### CrashProofs

Assumptions (`RecoveryAssumption`): `Pages` is finite, each transaction has a page,
`MaxCrashes` and `UpdateStep` are numbers; transactions, requests for checkpoints and
the number of crashes are arbitrary. The parts of `IInv`:

* `PageInv`: each copy of a page, in the buffer, written, on disk, has the rows of the
  records up to its LSN and hints of committed transactions only;
* `QueueInv`: the queue is in the order of `recLsn`; a page that lacks a record has a
  `recLsn` no later than it, and the control file's redo point is no later than that;
* `XactInv`, `ClogInv`: where a commit is in its steps, and what the log, the commit
  log and its disk page know of it;
* `CkptInv`: what the checkpoint has established at each of its steps, such as that a
  commit whose record precedes the new redo point is in the commit log, or is one that
  the checkpoint still waits for;
* `ControlInv`, `DownInv`: the same for the control file, and for a stopped server.

Three facts carry the proof. A record that is inserted later lies at the insert
position, which is never before `queueRecLsn`, and that never before the redo point
(`LogGrows`, `BeforeRedo`), so nothing that happens during a checkpoint makes its redo
point too late. A crash keeps a prefix of the log that contains all that was flushed
(`CrashKeeps`), and pages are written after their log. Redo from the control file's
point gives every page what the whole log gives it, because records before the point
are on disk (`RedoFacts`, `ClogRestored`). Each part has a lemma saying which steps
leave it alone and one lemma per action that does not.

Deadlock freedom needs a second, smaller invariant beside `IInv`, `WaitInv`: who holds
a content lock is about to insert the record of that page or has just done so
(`LocksHeld`), and what the page writer and the checkpointer wait for is in the log
(`LsnsLogged`, `RecordLogged`). The argument then goes down an order of the threads.
If some of the log is not flushed, the WAL writer is ready. Otherwise a session waits
only for the checkpointer, in a state where that does not wait (`SessionWaits`); the
page writer at the head of the queue waits only for the session that holds the lock
(`PageWriterWaits`); and the checkpointer waits for sessions and for that page writer
(`CheckpointerWaits`). So somebody is ready (`SomebodyGoesOn`).

Theorems: `Invariance`, `CommitsAreDurable`, `RecoveryIsExact`, `HintsAreTrue`,
`CheckpointsNeverPanic`, `SomebodyGoesOn`.

### SInvalProofs

Assumptions: those of `SInvalAdt` (`SInvalAssumption`): `MSGNUMWRAPAROUND` is a
multiple of `MAXNUMMESSAGES`, a batch fits into the queue, `CLEANUP_MIN` (half of the
queue in the code) does too; and that transactions send finite lists of messages and
`MaxDepth > 0`. The number of backends, which of them only send, the sizes, the depth of
nested calls and `RC_MAX_NUM` are arbitrary.

None of the properties is inductive: they depend on which numbers a reader beside a
writer may hold. The parts of `IInv`:

* `LocksInv`, `SlotsInv`: who is where holds which lock; the loops over
  `lastBackend` and `lastreserveBackend` reach everybody who is active;
* `NumbersInv`: the numbers between `minMsgNum` and `maxMsgNum` span at most the
  buffer and the least is at most `MSGNUMWRAPAROUND` (`RangeInv`), readers' positions,
  and the `maxMsgNum` one has read, lie between them (`PositionsInv`), what a writer has
  put into the buffer lies beyond and fits (`PendingInv`), the rest are messages
  (`ContentsInv`);
* `ThreadInv`: what a thread has in hand at each of its steps; in particular a read
  finds nothing left over from an outer call;
* `FlagsInv`: who has something to read or a reset coming has `hasMessages` set, or a
  writer's loop has not come past it yet, with `maxRead` in the place of the position
  between `ReadMax` and `GetEntries`;
* `AnnouncedInv`: `StaleIsAnnounced` in terms of numbers instead of sequences.

`WriteEntriesEffect` shows that a batch is written over no message anybody may still
read, `CleanupEffect` that after a clean-up all positions, reduced by the same multiple
of the buffer's size, lie in range again and that whoever is reset had kept the batch
from fitting. Each part has a lemma per action that can disturb it and one that the
others leave it alone.

For the refinement the unread messages are a `Piece` of the buffer between two numbers;
five lemmas say how it extends, splits, and survives the reduction. `PublishMax` is
`Post`, `GetEntries` is `Take`, a clean-up that resets somebody is `Drop`, `ReadMax` in
reset state is `Tell` (the number read there is where the backend goes on), taking up or
skipping a message is `Use`; every other step, the write into the buffer included, is
invisible.

Theorems: `Invariance`, `TypeCorrect`, `Overlooked`, `Announcement`, `QueueDelivers`.

### ClogProofs

Assumptions: `ClogAssumption` and `TreeAssumption` (section 2); sessions, their requests,
pages, banks and the checker's questions are arbitrary. No property is inductive. A
session that was let go has to have been served, which depends on the lists; that it was
served rightly depends on its PGPROC; what a checker finds depends on how far the writes
of a tree are. The parts of `IInv`:

* `ListInv`: the lists, as in GroupProofs; here a stale `clogGroupNext` of somebody on no
  list is possible, so links count only for those on one (`Linked`), and the walk that
  wakes is a second one, from `wakeidx`;
* `HolderInv`: a leader that walks holds the bank it says it holds;
* `FieldInv`: on the way to a list and on it a session is in the pass over its own page,
  its tree is on that page, and its PGPROC says what to write;
* `ReleasedInv`: whoever was let go was served;
* `StatusInv`: for every request of every session, to come, under way or over, what the
  commit log says of its tree (`Progress`), and that the CSN log knows nothing before
  the commit log knows all;
* `CheckerInv`: a checker is in the tree it was asked about, which is one that commits.

`StepTouches` says that a step writes for one request only and takes no outcome back:
a leader finds in a PGPROC on its list what the session asked for. From `StatusInv`
follows what a reader can meet (`TreeState`): some xid of a tree is committed only if the
top one is, and then all are at least sub-committed. So the top-level entry decides
(`CommittedByXid`), and it is written in one step.

`DidCommit`, which the mapping to `AtomicClog` uses, is a recursive function. That there
is one is shown with the function that asks the top-level entry (`DidCommitIs`); that it
is that function, by the least xid at which they differ, whose parent is smaller
(`AtomicAnswers`). A write is then `Commit` if it is that of the top-level entry of a
tree that commits, `Abort` if the tree aborts, and invisible otherwise.

Theorems: `Invariance`, `TypeCorrect`, `LeaderHoldsBank`, `ServedBeforeReturn`,
`CheckerIsExact`, `CommitIsAtomic`.

### Only model-checked

Liveness (`WaitEnds`, `FollowerReleased`, `QueueMovesOn`, `EndIsRecorded`,
`SendersGetOn`, `SleeperWoken`) and `NobodyStuck`, which is about ENABLED, are outside
TLAPS's reach. `SomebodyGoesOn` proves the part of `NobodyStuck` that is not: while
something is under way, one of the conditions in `SomebodyReady` holds. That each of
them makes an action possible, and no guard was forgotten, is what the run adds.
Induction theorems of the library that take an operator cannot be used;
where induction is needed (`Only`, least elements) it is done on sets of numbers, with
the least element that a well-founded order has.

## 5. Not modelled

Besides the components of the table and what section 2 leaves out of each module:
xmax and multixacts, a transaction's own rows, PREPARE TRANSACTION, standbys,
truncation of the logs (only its cutoff), 64-bit wrap-around of xids and CSNs (the
code reserves four bits and has none), the weak memory order of plain accesses that
no barrier orders (the models interleave them in program order). A crash is modelled
in CrashRecovery only: the shared memory of the other modules does not survive one.

The repository has over three million lines; most of them (SQL front end, optimizer,
executor, types, tools, contrib) are sequential code on private state, where a model
would repeat the program. The modules take the shared-memory protocols beneath.

## 6. Plan

Modules, in order:

1. RedoDispatch: dispatcher, page workers and transaction worker of
   parallel_recovery on top of `RedoFifo` queues: shared redo items, sync records,
   the wait cycle Put's give-up avoids, `IsEmpty` at the end of redo. Its
   abstract specification: each page's records are applied in order, once.
2. StandbySnapshot (`GroupGetSnapshot`), SyncRep quorum waits, MOT commit groups,
   the WAL insertion slots, as far as they go.
3. The xmax half of visibility, composed with SnapshotRing's vacuum.
