---------------------------- MODULE CrashRecovery ----------------------------
(***************************************************************************)
(* Commits, checkpoints and a crash (xact.cpp, xlog.cpp, clog.cpp,         *)
(* slru.cpp, bufmgr.cpp, pagewriter.cpp), with enable_incremental_         *)
(* checkpoint on.  A transaction puts a row on a page and commits; the     *)
(* page writer writes dirty pages in the order of the dirty page queue;    *)
(* a checkpoint takes the point from which recovery will read the log from *)
(* that queue, without writing a data page itself.                         *)
(*                                                                         *)
(* The position of a log record is its index; a record ends where the next *)
(* one starts.  The double write area makes the write of a page atomic.    *)
(***************************************************************************)
EXTENDS Integers, Sequences, FiniteSets, FiniteSetsExt

CONSTANTS
    Xids,           \* transactions, of one row each
    Pages,
    PageOf,         \* the page of a transaction's row
    SyncCommit,     \* transactions with synchronous_commit on
    UpdateStep,     \* UPDATE_REC_XLOG_NUM, in records
    Requests,       \* bound: the checkpoints that are asked for, one list of them
    Read,           \* bound: rows that are read again
    MaxCrashes,     \* bound: crashes
    NoXid, NoPage

Kinds == {"full", "timed", "incremental"}

ASSUME RecoveryAssumption ==
    /\ PageOf \in [Xids -> Pages] /\ SyncCommit \subseteq Xids /\ Read \subseteq Xids
    /\ Requests \subseteq Seq(Kinds)
    /\ {MaxCrashes, UpdateStep} \subseteq Nat
    /\ NoXid \notin Xids /\ NoPage \notin Pages /\ IsFiniteSet(Pages)

VARIABLES
    wal,            \* the records of the log
    flushed,        \* the log is on disk up to here
    suspended,      \* StartSuspendWalInsert is in force
    buf,            \* the pages in the shared buffers
    written,        \* the pages as the operating system has them
    disk,           \* the pages on disk
    lock,           \* who holds the content lock of a page exclusively
    justDirtied,    \* pages with BM_JUST_DIRTIED
    io,             \* how far the page writer is with a page
    queue,          \* dirty_page_queue from head to tail
    recLsn,         \* BufferDesc.extra.rec_lsn
    queueRecLsn,    \* dirty_page_queue_reclsn
    clog,           \* committed transactions in the buffer of the commit log
    clogLsn,        \* its group_lsn
    clogDirty, clogDisk,
    clogWrite,      \* whether that page is being written, and what it held before
    delayChkpt,     \* transactions with PGXACT.delayChkpt
    pc, start,      \* transaction: where it is, and its last record
    ckpt, requests, \* the checkpointer, and what is asked of it
    control,        \* the control file: redo point and checkpoint record
    server,         \* "down", "recovery" (redo is done) or "running"
    acked,          \* transactions whose synchronous commit has returned
    crashes

walVars == <<wal, flushed, suspended>>
pageVars == <<buf, written, disk, lock, io>>
queueVars == <<justDirtied, queue, recLsn, queueRecLsn>>
clogVars == <<clog, clogLsn, clogDirty, clogWrite, clogDisk>>
xactVars == <<delayChkpt, pc, start, acked>>
serverVars == <<control, server, crashes, requests>>
vars == <<walVars, pageVars, queueVars, clogVars, xactVars, ckpt, serverVars>>

Larger(a, b) == IF a < b THEN b ELSE a

InvalidXLogRecPtr == 0
curInsert == Len(wal) + 1
EndOf(pos) == pos + 1

NoRows == [rows |-> {}, hints |-> {}, lsn |-> InvalidXLogRecPtr]
NoWrite == [on |-> FALSE, image |-> {}]
NoCkpt == [at |-> "idle", kind |-> "none", redo |-> InvalidXLogRecPtr, toFlush |-> 0,
           wait |-> {}, record |-> InvalidXLogRecPtr]

\* Bound: transactions begin and rows are read before the first crash.
InFirstRun == server = "running" /\ crashes = 0

Goto(x, label) == pc' = [pc EXCEPT ![x] = label]

-----------------------------------------------------------------------------
(* The dirty page queue                                                    *)

\* A page that is marked dirty is pushed unless it is in the queue: its place and its
\* rec_lsn are taken in one atomic operation.  The slot is filled in afterwards, under
\* the lock of the buffer header; who meets it before that waits or stops at it.
push_pending_flush_queue(p, q, rec) ==
    IF rec[p] # InvalidXLogRecPtr THEN UNCHANGED <<queue, recLsn>>
    ELSE /\ queue' = Append(q, p)
         /\ recLsn' = [rec EXCEPT ![p] = queueRecLsn]

\* Mutant: the page keeps its rec_lsn.
remove_dirty_page_from_queue_KeepsLsn(p) ==
    <<[i \in DOMAIN queue |-> IF queue[i] = p THEN NoPage ELSE queue[i]], recLsn>>

\* The queue and the rec_lsns without p.
remove_dirty_page_from_queue(p) ==
    <<[i \in DOMAIN queue |-> IF queue[i] = p THEN NoPage ELSE queue[i]],
      [recLsn EXCEPT ![p] = InvalidXLogRecPtr]>>

\* The head moves past pages that are written.
ckpt_move_queue_head_after_flush ==
    /\ queue # <<>>
    /\ Head(queue) = NoPage
    /\ queue' = Tail(queue)
    /\ ckpt' = [ckpt EXCEPT !.toFlush = Larger(@ - 1, 0)]
    /\ UNCHANGED <<walVars, pageVars, justDirtied, recLsn, queueRecLsn, clogVars, xactVars,
                   serverVars>>

\* The slots of the queue that have a page.
Taken == {i \in DOMAIN queue : queue[i] # NoPage}

\* The rec_lsn of the first page in the queue.
ckpt_get_min_rec_lsn ==
    IF Taken = {} THEN InvalidXLogRecPtr ELSE recLsn[queue[Min(Taken)]]

\* After the insertion of a record, if it is far enough from the last update.
update_dirty_page_queue_rec_lsn(pos) ==
    queueRecLsn' = IF pos - queueRecLsn > UpdateStep THEN pos ELSE queueRecLsn

-----------------------------------------------------------------------------
(* A transaction changes a page                                            *)

\* Under the exclusive content lock, which it has until the record is inserted.
MarkBufferDirty(x) ==
    LET p == PageOf[x]
    IN /\ pc[x] = "idle"
       /\ InFirstRun
       /\ lock[p] = NoXid
       /\ io[p] = "none"
       /\ lock' = [lock EXCEPT ![p] = x]
       /\ justDirtied' = justDirtied \cup {p}
       /\ push_pending_flush_queue(p, queue, recLsn)
       /\ Goto(x, "insert")
       /\ UNCHANGED <<walVars, buf, written, disk, io, queueRecLsn, clogVars, delayChkpt,
                      start, acked, ckpt, serverVars>>

\* XLogInsert of the row, and PageSetLSN.
InsertRow(x) ==
    LET p == PageOf[x]
    IN /\ pc[x] = "insert"
       /\ ~suspended
       /\ wal' = Append(wal, [type |-> "row", xid |-> x])
       /\ start' = [start EXCEPT ![x] = curInsert]
       /\ buf' = [buf EXCEPT ![p] = [buf[p] EXCEPT !.rows = @ \cup {x}, !.lsn = EndOf(curInsert)]]
       /\ Goto(x, "inserted")
       /\ UNCHANGED <<flushed, suspended, written, disk, lock, io, queueVars, clogVars,
                      delayChkpt, acked, ckpt, serverVars>>

RowDone(x) ==
    /\ pc[x] = "inserted"
    /\ update_dirty_page_queue_rec_lsn(start[x])
    /\ lock' = [lock EXCEPT ![PageOf[x]] = NoXid]
    /\ Goto(x, "active")
    /\ UNCHANGED <<walVars, buf, written, disk, io, justDirtied, queue, recLsn, clogVars,
                   delayChkpt, start, acked, ckpt, serverVars>>

-----------------------------------------------------------------------------
(* RecordTransactionCommit                                                 *)

StartCommit(x) ==
    /\ pc[x] = "active"
    /\ delayChkpt' = delayChkpt \cup {x}
    /\ Goto(x, "commit")
    /\ UNCHANGED <<walVars, pageVars, queueVars, clogVars, start, acked, ckpt, serverVars>>

InsertCommit(x) ==
    /\ pc[x] = "commit"
    /\ ~suspended
    /\ wal' = Append(wal, [type |-> "commit", xid |-> x])
    /\ start' = [start EXCEPT ![x] = curInsert]
    /\ Goto(x, "logged")
    /\ UNCHANGED <<flushed, suspended, pageVars, queueVars, clogVars, delayChkpt, acked, ckpt,
                   serverVars>>

CommitLogged(x) ==
    /\ pc[x] = "logged"
    /\ update_dirty_page_queue_rec_lsn(start[x])
    /\ Goto(x, "flush")
    /\ UNCHANGED <<walVars, pageVars, justDirtied, queue, recLsn, clogVars, delayChkpt, start,
                   acked, ckpt, serverVars>>

\* TransactionIdCommitTree after XLogWaitFlush, or TransactionIdAsyncCommitTree,
\* which has to wait for the end of a write of the commit log's page.
SetClog(x) ==
    /\ pc[x] = "flush"
    /\ IF x \in SyncCommit
       THEN flushed >= EndOf(start[x]) /\ UNCHANGED clogLsn
       ELSE ~clogWrite.on /\ clogLsn' = Larger(clogLsn, EndOf(start[x]))
    /\ clog' = clog \cup {x}
    /\ clogDirty' = TRUE
    /\ Goto(x, "set")
    /\ UNCHANGED <<walVars, pageVars, queueVars, clogWrite, clogDisk, delayChkpt, start,
                   acked, ckpt, serverVars>>

EndCommit(x) ==
    /\ pc[x] = "set"
    /\ delayChkpt' = delayChkpt \ {x}
    /\ acked' = acked \cup ({x} \cap SyncCommit)
    /\ Goto(x, "done")
    /\ UNCHANGED <<walVars, pageVars, queueVars, clogVars, start, ckpt, serverVars>>

-----------------------------------------------------------------------------
(* A reader sets the hint bit of a row                                     *)

\* Mutant: the hint bit does not wait for the log.
HintAllowed_Always(p) == TRUE

\* Is the commit on disk, or will it be when the page is?
HintAllowed(p) == clogLsn <= flushed \/ buf[p].lsn >= clogLsn

SetHintBits(x) ==
    LET p == PageOf[x]
    IN /\ InFirstRun
       /\ lock[p] = NoXid
       /\ x \in Read \cap (buf[p].rows \ buf[p].hints) \cap clog
       /\ HintAllowed(p)
       /\ buf' = [buf EXCEPT ![p] = [buf[p] EXCEPT !.hints = @ \cup {x}]]
       /\ justDirtied' = justDirtied \cup {p}
       /\ push_pending_flush_queue(p, queue, recLsn)
       /\ UNCHANGED <<walVars, written, disk, lock, io, queueRecLsn, clogVars, xactVars,
                      ckpt, serverVars>>

-----------------------------------------------------------------------------
(* The log and the pages are written                                       *)

\* XLogWaitFlush sleeps until the log writer has flushed that far.
FlushWal ==
    /\ server # "down"
    /\ flushed < curInsert
    /\ flushed' = curInsert
    /\ UNCHANGED <<wal, suspended, pageVars, queueVars, clogVars, xactVars, ckpt, serverVars>>

\* FlushBuffer, under the content lock, shared: the log first, then the page as it is ...
FlushBuffer(p) ==
    /\ io[p] = "none"
    /\ lock[p] = NoXid
    /\ recLsn[p] # InvalidXLogRecPtr
    /\ flushed >= buf[p].lsn
    /\ justDirtied' = justDirtied \ {p}
    /\ written' = [written EXCEPT ![p] = buf[p]]
    /\ io' = [io EXCEPT ![p] = "written"]
    /\ UNCHANGED <<walVars, buf, disk, lock, queue, recLsn, queueRecLsn, clogVars, xactVars,
                   ckpt, serverVars>>

\* ... and if a hint bit was set meanwhile, it goes back into the queue.
TerminateBufferIO(p) ==
    LET rest == remove_dirty_page_from_queue(p)
    IN /\ io[p] = "written"
       /\ IF p \in justDirtied
          THEN push_pending_flush_queue(p, rest[1], rest[2])
          ELSE queue' = rest[1] /\ recLsn' = rest[2]
       /\ io' = [io EXCEPT ![p] = "none"]
       /\ UNCHANGED <<walVars, buf, written, disk, lock, justDirtied, queueRecLsn, clogVars,
                      xactVars, ckpt, serverVars>>

-----------------------------------------------------------------------------
(* CreateCheckPoint                                                        *)

CkptGoto(label) == ckpt' = [ckpt EXCEPT !.at = label]

StartSuspendWalInsert ==
    /\ ckpt.at = "idle" /\ server = "running"
    /\ requests # <<>> /\ requests' = Tail(requests)
    /\ suspended' = TRUE
    /\ ckpt' = [ckpt EXCEPT !.at = "suspended", !.kind = Head(requests)]
    /\ UNCHANGED <<wal, flushed, pageVars, queueVars, clogVars, xactVars, control, server,
                   crashes>>

RaiseQueueRecLsn ==
    /\ ckpt.at = "suspended"
    /\ queueRecLsn' = IF ckpt.kind = "incremental" THEN queueRecLsn
                      ELSE Larger(queueRecLsn, curInsert)
    /\ CkptGoto("redo")
    /\ UNCHANGED <<walVars, pageVars, justDirtied, queue, recLsn, clogVars, xactVars,
                   serverVars>>

\* Mutant: a checkpoint that is not needed leaves insertion suspended.
StopSuspendWalInsert_IfNeeded(c) == suspended' = (c.at = "idle")

StopSuspendWalInsert(c) == suspended' = FALSE

\* With the redo point found, insertion goes on.
Resume(c) ==
    /\ StopSuspendWalInsert(c)
    /\ ckpt' = c
    /\ UNCHANGED <<wal, flushed, pageVars, queueVars, clogVars, xactVars, serverVars>>

\* A full checkpoint starts from here and waits for the pages in the queue.
FullRedo ==
    /\ ckpt.at = "redo"
    /\ ckpt.kind = "full"
    /\ Resume([ckpt EXCEPT !.at = "delaying", !.redo = curInsert, !.toFlush = Len(queue)])

\* A checkpoint that would not advance is skipped; one that would go back is a PANIC.
\* (The skip below GetRemainCommitLsn, which replay sets when extents of segment storage
\* leaked, is left out: without it more checkpoints are taken.)
Proceed(redo) ==
    Resume(CASE redo = control.redo -> NoCkpt
             [] redo < control.redo -> [ckpt EXCEPT !.at = "panic"]
             [] OTHER -> [ckpt EXCEPT !.at = "delaying", !.redo = redo])

\* An incremental one starts from the first page of the queue ...  (The test that nothing
\* was logged since the last checkpoint comes first.  It adds the size of a CheckPoint to
\* the record's place, but the record is a CheckPointUndo with a data header: the sum lies
\* inside the record and is never the insert position, so no checkpoint is skipped by it.)
FirstRecLsn ==
    /\ ckpt.at = "redo"
    /\ ckpt.kind # "full"
    /\ IF ckpt_get_min_rec_lsn # InvalidXLogRecPtr THEN Proceed(ckpt_get_min_rec_lsn)
       ELSE /\ CkptGoto("empty")
            /\ UNCHANGED <<walVars, pageVars, queueVars, clogVars, xactVars, serverVars>>

\* ... or, if there is none, from the queue's rec_lsn; then it looks again.
ReadQueueRecLsn ==
    /\ ckpt.at = "empty"
    /\ ckpt' = [ckpt EXCEPT !.at = "recheck", !.redo = queueRecLsn]
    /\ UNCHANGED <<walVars, pageVars, queueVars, clogVars, xactVars, serverVars>>

\* Mutant: it does not look again.
Rechecked_Not(read, min) == read

Rechecked(read, min) == IF min = InvalidXLogRecPtr \/ read < min THEN read ELSE min

Recheck ==
    /\ ckpt.at = "recheck"
    /\ Proceed(Rechecked(ckpt.redo, ckpt_get_min_rec_lsn))

\* Mutant: nobody is waited for.
GetVirtualXIDsDelayingChkpt_None == {}

GetVirtualXIDsDelayingChkpt == delayChkpt

FindDelaying ==
    /\ ckpt.at = "delaying"
    /\ ckpt' = [ckpt EXCEPT !.at = "wait", !.wait = GetVirtualXIDsDelayingChkpt]
    /\ UNCHANGED <<walVars, pageVars, queueVars, clogVars, xactVars, serverVars>>

\* HaveVirtualXIDsDelayingChkpt
WaitForDelaying ==
    /\ ckpt.at = "wait"
    /\ ckpt.wait \cap delayChkpt = {}
    /\ ckpt' = [ckpt EXCEPT !.at = "clog", !.wait = {}]
    /\ UNCHANGED <<walVars, pageVars, queueVars, clogVars, xactVars, serverVars>>

\* SlruInternalWritePage: without the bank's lock the log is flushed as far as the
\* page needs it ...
CheckPointCLOG ==
    /\ ckpt.at = "clog"
    /\ IF clogDirty
       THEN /\ clogWrite' = [on |-> TRUE, image |-> clog]
            /\ clogDirty' = FALSE
            /\ CkptGoto("clogwrite")
       ELSE CkptGoto("buffers") /\ UNCHANGED <<clogWrite, clogDirty>>
    /\ UNCHANGED <<walVars, pageVars, queueVars, clog, clogLsn, clogDisk, xactVars, serverVars>>

\* Mutant: the log is not flushed first.
ClogMayBeWritten_AtOnce == TRUE

ClogMayBeWritten == flushed >= clogLsn

\* ... and the page is written; what is recorded meanwhile may be in it or not.
EndClogWrite ==
    /\ ckpt.at = "clogwrite"
    /\ ClogMayBeWritten
    /\ \E new \in SUBSET clog : clogWrite.image \subseteq new /\ clogDisk' = new
    /\ clogWrite' = NoWrite
    /\ CkptGoto("buffers")
    /\ UNCHANGED <<walVars, pageVars, queueVars, clog, clogLsn, clogDirty, xactVars,
                   serverVars>>

\* What the page writer has written is made durable.
CheckPointBuffers ==
    /\ ckpt.at = "buffers"
    /\ ckpt.kind = "full" => ckpt.toFlush = 0 \/ queue = <<>>
    /\ disk' = written
    /\ CkptGoto("record")
    /\ UNCHANGED <<walVars, buf, written, lock, io, queueVars, clogVars, xactVars, serverVars>>

InsertCheckpoint ==
    /\ ckpt.at = "record"
    /\ ~suspended
    /\ wal' = Append(wal, [type |-> "checkpoint", xid |-> NoXid])
    /\ update_dirty_page_queue_rec_lsn(curInsert)
    /\ ckpt' = [ckpt EXCEPT !.at = "flush", !.record = curInsert]
    /\ UNCHANGED <<flushed, suspended, pageVars, justDirtied, queue, recLsn, clogVars, xactVars,
                   serverVars>>

\* PANIC if a page before the redo point is still dirty after a full checkpoint.
QueueIsBehind ==
    ckpt.kind = "full" /\ ckpt_get_min_rec_lsn \in 1 .. ckpt.redo - 1

UpdateControlFile ==
    /\ ckpt.at = "flush"
    /\ flushed >= EndOf(ckpt.record)
    /\ IF QueueIsBehind THEN CkptGoto("panic") /\ UNCHANGED control
       ELSE /\ control' = [redo |-> ckpt.redo, record |-> ckpt.record]
            /\ ckpt' = NoCkpt
    /\ UNCHANGED <<walVars, pageVars, queueVars, clogVars, xactVars, server, crashes, requests>>

-----------------------------------------------------------------------------
(* A crash, and StartupXLOG                                                *)

\* What was flushed survives; what was not may.
Crash ==
    /\ server # "down"
    /\ crashes < MaxCrashes
    /\ crashes' = crashes + 1
    /\ server' = "down"
    /\ \E end \in flushed .. curInsert :
          wal' = SubSeq(wal, 1, end - 1) /\ flushed' = end
    /\ \E lost \in SUBSET {p \in Pages : written[p] # disk[p]} :
          disk' = [p \in Pages |-> IF p \in lost THEN disk[p] ELSE written[p]]
    /\ suspended' = FALSE
    /\ written' = disk' /\ buf' = disk'
    /\ lock' = [p \in Pages |-> NoXid] /\ io' = [p \in Pages |-> "none"]
    /\ justDirtied' = {} /\ queue' = <<>>
    /\ recLsn' = [p \in Pages |-> InvalidXLogRecPtr] /\ queueRecLsn' = InvalidXLogRecPtr
    /\ clog' = clogDisk /\ clogLsn' = InvalidXLogRecPtr /\ clogDirty' = FALSE
    /\ clogWrite' = NoWrite
    /\ delayChkpt' = {}
    /\ pc' = [x \in Xids |-> IF pc[x] \in {"idle", "done"} THEN pc[x] ELSE "lost"]
    /\ start' = [x \in Xids |-> InvalidXLogRecPtr]
    /\ ckpt' = NoCkpt
    /\ UNCHANGED <<clogDisk, control, acked, requests>>

\* The records from the redo point on.
Replayed(type) == {i \in control.redo .. Len(wal) : wal[i].type = type}

\* heap_xlog_insert: the record is skipped if the page has it.
ToRedo(p) == {i \in Replayed("row") : PageOf[wal[i].xid] = p /\ disk[p].lsn < EndOf(i)}

\* The queue's rec_lsn when the records up to n are replayed, by one thread.
ReplayedUpTo(n) == n - ((n - control.redo) % (UpdateStep + 1))

\* Pages get into the queue when the first of their records is replayed.
StartupXLOG ==
    LET dirty == {p \in Pages : ToRedo(p) # {}}
        first(p) == Min(ToRedo(p))
    IN /\ server = "down"
       /\ server' = "recovery"
       /\ buf' = [p \in Pages |-> IF p \notin dirty THEN disk[p] ELSE
                    [disk[p] EXCEPT !.rows = @ \cup {wal[i].xid : i \in ToRedo(p)},
                                    !.lsn = EndOf(Max(ToRedo(p)))]]
       /\ queueRecLsn' = ReplayedUpTo(Larger(control.redo, Len(wal)))
       /\ recLsn' = [p \in Pages |-> IF p \notin dirty THEN InvalidXLogRecPtr
                                     ELSE ReplayedUpTo(Larger(control.redo, first(p) - 1))]
       /\ \E order \in [1 .. Cardinality(dirty) -> dirty] :
             /\ queue' = order
             /\ \A p \in dirty : \E i \in DOMAIN order : order[i] = p
             /\ \A i, j \in DOMAIN order : i < j => first(order[i]) < first(order[j])
       /\ justDirtied' = dirty
       /\ clog' = clog \cup {wal[i].xid : i \in Replayed("commit")}
       /\ clogDirty' = (clog' # clog)
       /\ UNCHANGED <<walVars, written, disk, lock, io, clogLsn, clogWrite, clogDisk, xactVars,
                      ckpt, control, crashes, requests>>

\* The server opens without waiting for the full checkpoint it asks for, which is none
\* if the checkpointer is so early that it takes it for a restart point.
CheckForRestartPoint ==
    /\ server = "recovery"
    /\ server' = "running"
    /\ requests' \in {<<"full">> \o requests, requests}
    /\ UNCHANGED <<walVars, pageVars, queueVars, clogVars, xactVars, ckpt, control, crashes>>

-----------------------------------------------------------------------------
(* The specification                                                       *)

Init ==
    /\ wal = <<>> /\ flushed = 1 /\ suspended = FALSE
    /\ buf = [p \in Pages |-> NoRows] /\ written = buf /\ disk = buf
    /\ lock = [p \in Pages |-> NoXid] /\ io = [p \in Pages |-> "none"]
    /\ justDirtied = {} /\ queue = <<>>
    /\ recLsn = [p \in Pages |-> InvalidXLogRecPtr] /\ queueRecLsn = 1
    /\ clog = {} /\ clogLsn = InvalidXLogRecPtr /\ clogDirty = FALSE
    /\ clogWrite = NoWrite /\ clogDisk = {}
    /\ delayChkpt = {} /\ acked = {}
    /\ pc = [x \in Xids |-> "idle"] /\ start = [x \in Xids |-> InvalidXLogRecPtr]
    /\ ckpt = NoCkpt /\ requests \in Requests
    /\ control = [redo |-> 1, record |-> InvalidXLogRecPtr]
    /\ server = "running" /\ crashes = 0

\* A transaction on its way, once it has locked the page.
Session(x) ==
    \/ InsertRow(x) \/ RowDone(x)
    \/ StartCommit(x) \/ InsertCommit(x) \/ CommitLogged(x) \/ SetClog(x) \/ EndCommit(x)

PageWriter(p) == FlushBuffer(p) \/ TerminateBufferIO(p)

\* The checkpointer, once it has been asked for a checkpoint.
Checkpointer ==
    \/ RaiseQueueRecLsn \/ FullRedo \/ FirstRecLsn \/ ReadQueueRecLsn \/ Recheck
    \/ FindDelaying \/ WaitForDelaying \/ CheckPointCLOG \/ EndClogWrite
    \/ CheckPointBuffers \/ InsertCheckpoint \/ UpdateControlFile

Next ==
    \/ \E x \in Xids : MarkBufferDirty(x) \/ Session(x) \/ SetHintBits(x)
    \/ \E p \in Pages : PageWriter(p)
    \/ ckpt_move_queue_head_after_flush \/ FlushWal
    \/ StartSuspendWalInsert \/ Checkpointer
    \/ Crash \/ StartupXLOG \/ CheckForRestartPoint

Spec == Init /\ [][Next]_vars

-----------------------------------------------------------------------------
(* Properties                                                              *)

Labels == {"idle", "insert", "inserted", "active", "commit", "logged", "flush",
           "set", "done", "lost"}
Records == [type : {"row", "commit"}, xid : Xids] \cup [type : {"checkpoint"}, xid : {NoXid}]
PageImages == [rows : SUBSET Xids, hints : SUBSET Xids, lsn : Nat]

Searching == {"suspended", "redo", "empty", "recheck"}          \* for the redo point
Syncing == {"delaying", "wait", "clog", "clogwrite", "buffers"} \* what is before it
Found == Syncing \cup {"record", "flush"}

LogType == wal \in Seq(Records) /\ flushed \in 1 .. curInsert /\ suspended \in BOOLEAN

PageType ==
    /\ buf \in [Pages -> PageImages] /\ written \in [Pages -> PageImages]
    /\ disk \in [Pages -> PageImages]
    /\ lock \in [Pages -> Xids \cup {NoXid}] /\ io \in [Pages -> {"none", "written"}]

QueueType ==
    /\ justDirtied \subseteq Pages /\ queue \in Seq(Pages \cup {NoPage})
    /\ recLsn \in [Pages -> Nat] /\ queueRecLsn \in 0 .. curInsert

ClogType ==
    /\ clog \subseteq Xids /\ clogDisk \subseteq Xids /\ clogLsn \in 0 .. curInsert
    /\ clogDirty \in BOOLEAN /\ clogWrite \in [on : BOOLEAN, image : SUBSET Xids]

XactType ==
    /\ delayChkpt \subseteq Xids /\ acked \subseteq Xids
    /\ pc \in [Xids -> Labels] /\ start \in [Xids -> 0 .. Len(wal)]

CkptType ==
    ckpt \in [at : {"idle", "panic"} \cup Searching \cup Found, kind : Kinds \cup {"none"},
              redo : Nat, toFlush : Nat, wait : SUBSET Xids, record : Nat]

ServerType ==
    /\ control \in [redo : Nat, record : Nat] /\ requests \in Seq(Kinds)
    /\ server \in {"running", "recovery", "down"} /\ crashes \in 0 .. MaxCrashes

\* Types.
TypeOK ==
    LogType /\ PageType /\ QueueType /\ ClogType /\ XactType /\ CkptType /\ ServerType

\* A transaction whose synchronous commit has returned is committed and its row is
\* there, before a crash and after recovery, whatever checkpoint recovery starts from
\* (delayChkpt of RecordTransactionCommit, the redo point of CreateCheckPoint).
DurableCommit ==
    server # "down" => \A x \in acked : x \in clog /\ x \in buf[PageOf[x]].rows

Logged(type) == {wal[i].xid : i \in {j \in DOMAIN wal : wal[j].type = type}}

\* After recovery (StartupXLOG) the commit log and the pages say what the log on
\* disk says from its beginning, though only the part from the redo point was read:
\* nothing before it was lost, and nothing got to disk ahead of its record.
RecoveredExactly ==
    server = "recovery" =>
       /\ clog = Logged("commit")
       /\ UNION {buf[p].rows : p \in Pages} = Logged("row")

\* A hint bit that says "committed" (SetHintBits) is never left behind by a commit
\* that a crash has undone: readers do not ask the commit log again.
HintTrue == server # "down" => \A p \in Pages : buf[p].hints \subseteq clog

\* CreateCheckPoint never meets its two PANICs: a redo point before the last one, a
\* page from before the redo point still dirty after a full checkpoint.
NoCkptPanic == ckpt.at # "panic"

\* What threads do once they have begun; a hint bit, a request or a crash is not.
GoesOn ==
    \/ \E x \in Xids : Session(x)
    \/ \E p \in Pages : PageWriter(p)
    \/ ckpt_move_queue_head_after_flush \/ FlushWal \/ Checkpointer

\* A commit or a checkpoint is under way.
UnderWay ==
    server # "down" /\ (ckpt.at # "idle" \/ \E x \in Xids : pc[x] \notin {"idle", "done", "lost"})

\* What each of them waits for, and whether it has come.
SessionReady(x) ==
    \/ pc[x] \in {"inserted", "active", "logged", "set"}
    \/ pc[x] \in {"insert", "commit"} /\ ~suspended
    \/ pc[x] = "flush" /\ IF x \in SyncCommit THEN flushed >= EndOf(start[x]) ELSE ~clogWrite.on

PageWriterReady(p) ==
    \/ io[p] = "written"
    \/ /\ io[p] = "none" /\ lock[p] = NoXid
       /\ recLsn[p] # InvalidXLogRecPtr /\ flushed >= buf[p].lsn

CheckpointerReady ==
    \/ ckpt.at \in Searching \cup {"delaying", "clog"}
    \/ ckpt.at = "wait" /\ ckpt.wait \cap delayChkpt = {}
    \/ ckpt.at = "clogwrite" /\ flushed >= clogLsn
    \/ ckpt.at = "buffers" /\ (ckpt.kind = "full" => ckpt.toFlush = 0 \/ queue = <<>>)
    \/ ckpt.at = "record" /\ ~suspended
    \/ ckpt.at = "flush" /\ flushed >= EndOf(ckpt.record)

SomebodyReady ==
    \/ \E x \in Xids : SessionReady(x)
    \/ \E p \in Pages : PageWriterReady(p)
    \/ queue # <<>> /\ Head(queue) = NoPage
    \/ server # "down" /\ flushed < curInsert
    \/ CheckpointerReady

\* Nobody waits for somebody who waits for him: as long as a commit or a checkpoint is
\* under way somebody can go on.  The checkpoint waits for commits in progress
\* (HaveVirtualXIDsDelayingChkpt), commits for the checkpoint that has suspended the
\* insertion of records, both for the log, the page writer for the lock of a page and
\* the full checkpoint for the page writer.  Whoever is ready can in fact go on.
NobodyStuck == UnderWay \/ SomebodyReady => ENABLED GoesOn

-----------------------------------------------------------------------------
(***************************************************************************)
(* Why: the inductive invariant.  Each part says what one of the           *)
(* mechanisms keeps true; the proofs are in CrashProofs.                   *)
(***************************************************************************)

Up == server # "down"
Rows(p) == {i \in DOMAIN wal : wal[i].type = "row" /\ PageOf[wal[i].xid] = p}
Commits(x) == {i \in DOMAIN wal : wal[i].type = "commit" /\ wal[i].xid = x}

\* The commit of x is in the log before lsn.
CommittedBy(x, lsn) == \E i \in Commits(x) : EndOf(i) <= lsn

\* The rows of a page that are in the log before lsn.
RowsBy(p, lsn) == {wal[i].xid : i \in {j \in Rows(p) : EndOf(j) <= lsn}}

\* The log first: a page holds the rows of the log up to its LSN; what is written of it,
\* and what its hint bits say, is in the log on disk; the buffer has everything.
PageOK(p) ==
    /\ disk[p].rows = RowsBy(p, disk[p].lsn)
    /\ written[p].rows = RowsBy(p, written[p].lsn)
    /\ disk[p].lsn <= written[p].lsn /\ written[p].lsn <= flushed
    /\ \A x \in disk[p].hints \cup written[p].hints : CommittedBy(x, flushed)
    /\ Up => /\ buf[p].rows = RowsBy(p, buf[p].lsn)
             /\ \A i \in Rows(p) : EndOf(i) <= buf[p].lsn
             /\ written[p].lsn <= buf[p].lsn
             /\ buf[p].hints \subseteq clog
             /\ \A x \in buf[p].hints : CommittedBy(x, Larger(flushed, buf[p].lsn))
    /\ io[p] = "written" => lock[p] = NoXid /\ written[p].lsn = buf[p].lsn

PageInv == \A p \in Pages : PageOK(p)

\* A page has a rec_lsn exactly while it is in the dirty page queue
\* (push_pending_flush_queue, remove_dirty_page_from_queue), in one slot, in the order
\* of the rec_lsns ...
InOrder(q, rec) ==
    /\ \A p \in Pages : rec[p] # InvalidXLogRecPtr <=> \E i \in DOMAIN q : q[i] = p
    /\ \A i, j \in {k \in DOMAIN q : q[k] # NoPage} :
          i < j => q[i] # q[j] /\ rec[q[i]] <= rec[q[j]]

\* ... and no record that the written page lacks is before its rec_lsn.
QueueInv ==
    /\ InOrder(queue, recLsn)
    /\ \A p \in Pages : recLsn[p] <= queueRecLsn
    /\ Up => /\ control.redo <= queueRecLsn
             /\ \A p \in Pages :
                   /\ recLsn[p] # InvalidXLogRecPtr => control.redo <= recLsn[p]
                   /\ \A i \in Rows(p) : written[p].lsn < EndOf(i) => recLsn[p] \in 1 .. i

\* Where a transaction is, and what it has logged.
XactOK(x) ==
    /\ pc[x] \in {"insert", "inserted"} =>
          lock[PageOf[x]] = x /\ recLsn[PageOf[x]] # InvalidXLogRecPtr
    /\ pc[x] \in {"inserted", "active", "commit", "logged", "flush", "set"} =>
          \E i \in DOMAIN wal : wal[i].type = "row" /\ wal[i].xid = x
    /\ pc[x] \in {"logged", "flush", "set"} => start[x] \in Commits(x)
    /\ pc[x] = "set" => x \in clog /\ (x \in SyncCommit => EndOf(start[x]) <= flushed)
    /\ pc[x] \in {"idle", "done", "lost"} \/ crashes = 0

XactInv ==
    /\ \A i \in DOMAIN wal : wal[i].type = "commit" =>
          \E j \in 1 .. i - 1 : wal[j].type = "row" /\ wal[j].xid = wal[i].xid
    /\ delayChkpt = {x \in Xids : pc[x] \in {"commit", "logged", "flush", "set"}}
    /\ \A x \in acked : CommittedBy(x, flushed) /\ (Up => x \in clog)
    /\ \A x \in Xids : XactOK(x)
    /\ server # "running" => crashes # 0

\* The commit log: what is on disk of it is in the log on disk, and every commit that
\* is logged is in it, or somebody who delays checkpoints will put it there.
ClogInv ==
    /\ clogDisk \subseteq clog
    /\ \A x \in clogDisk : CommittedBy(x, flushed)
    /\ \A x \in clog : CommittedBy(x, Larger(flushed, clogLsn))
    /\ Up => \A x \in Xids : Commits(x) # {} => x \in clog \/ pc[x] \in {"logged", "flush"}
    /\ clogWrite.on <=> ckpt.at = "clogwrite"
    /\ clogWrite.on => /\ clogDisk \subseteq clogWrite.image /\ clogWrite.image \subseteq clog
                       /\ clogDirty \/ clog \subseteq clogWrite.image
    /\ ~clogWrite.on /\ ~clogDirty => clog \subseteq clogDisk

\* Pages whose first change is before redo are not waited for any more.
PagesBehind(redo) ==
    \A i \in Taken :
       \/ redo <= recLsn[queue[i]]
       \/ ckpt.kind = "full" /\ ckpt.at \in Syncing /\ i <= ckpt.toFlush

RowsOnDisk(redo) == \A p \in Pages : \A i \in Rows(p) : i < redo => EndOf(i) <= disk[p].lsn

CommitsIn(redo, S) == \A x \in Xids : \A i \in Commits(x) : i < redo => x \in S

\* What a checkpoint has made sure of when it is at a step.
CkptInv ==
    /\ ckpt.at # "panic"
    /\ suspended <=> ckpt.at \in Searching
    /\ ckpt.at = "redo" /\ ckpt.kind = "full" => curInsert <= queueRecLsn
    /\ ckpt.at \in {"empty", "recheck"} => ckpt.kind # "full"
    /\ ckpt.at \in {"recheck"} \cup Found =>
          control.redo <= ckpt.redo /\ ckpt.redo <= queueRecLsn
    /\ ckpt.at \in Found => PagesBehind(ckpt.redo)
    /\ ckpt.at = "wait" => CommitsIn(ckpt.redo, clog \cup (ckpt.wait \cap delayChkpt))
    /\ ckpt.at = "clog" => CommitsIn(ckpt.redo, clog)
    /\ ckpt.at = "clogwrite" => CommitsIn(ckpt.redo, clogWrite.image)
    /\ ckpt.at \in {"buffers", "record", "flush"} => CommitsIn(ckpt.redo, clogDisk)
    /\ ckpt.at \in {"record", "flush"} => RowsOnDisk(ckpt.redo)
    /\ ckpt.at = "flush" => ckpt.redo <= ckpt.record

\* What is before the redo point of the control file does not have to be replayed.
ControlInv ==
    /\ control.redo \in 1 .. flushed
    /\ RowsOnDisk(control.redo)
    /\ CommitsIn(control.redo, clogDisk)

\* A crash has left nothing but what is on disk.
DownInv ==
    server = "down" =>
       /\ flushed = curInsert /\ queue = <<>> /\ ckpt = NoCkpt
       /\ written = disk /\ buf = disk /\ clog = clogDisk
       /\ io = [p \in Pages |-> "none"]

\* The inductive invariant: types and all of that together.  A page is never on disk
\* ahead of the log (FlushBuffer), the dirty page queue is in the order of the rec_lsns
\* (push_pending_flush_queue), and what is before the redo point a checkpoint has found
\* (CreateCheckPoint) is on disk by the time the control file names it.
IInv == /\ TypeOK /\ PageInv /\ QueueInv /\ XactInv /\ ClogInv /\ CkptInv
        /\ ControlInv /\ DownInv

=============================================================================
