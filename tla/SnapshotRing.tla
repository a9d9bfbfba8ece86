---------------------------- MODULE SnapshotRing ----------------------------
(***************************************************************************)
(* The ring buffer of precomputed snapshots (procarray.cpp) and the vacuum *)
(* horizon derived from it.  Whoever ends a transaction computes, under    *)
(* ProcArrayLock, the next snapshot into the free slot g_snap_next and     *)
(* makes it g_snap_current.  A reader takes no lock: it reads the pointer, *)
(* raises the reference count of the slot, advertises the slot's xmin in   *)
(* its PGXACT, copies the slot, lowers the count and reads the CSN counter *)
(* at the end.  Vacuum and the truncation of the CSN log take the          *)
(* localxmin of the current slot for the oldest xmin anybody needs.        *)
(*                                                                         *)
(* Transactions are reduced to what a snapshot is about: advertised or     *)
(* not, and the CSN drawn (XactCommit has the rest).  A deleted row is     *)
(* named by the xid that deleted it.  Readers have no xid of their own.    *)
(***************************************************************************)
EXTENDS Naturals, FiniteSets

CONSTANTS
    MaxXid,     \* bound: the last transaction id
    Readers,    \* reading threads
    RingSize,   \* MaxNumSnapVersion, 64
    SNAP_ERROR_COUNT,   \* slots found in use before the search gives up, 256
    MaxHeld     \* bound: none is taken while so many snapshots are held

ASSUME RingAssumption ==
    /\ MaxXid \in Nat /\ RingSize \in Nat \ {0, 1} /\ MaxHeld \in Nat
    /\ SNAP_ERROR_COUNT \in Nat /\ IsFiniteSet(Readers)

InvalidTransactionId == 0
FirstNormalTransactionId == 3
COMMITSEQNO_FIRST_NORMAL == 3

Xids == FirstNormalTransactionId .. MaxXid
SlotNos == 0 .. RingSize - 1

VARIABLES
    nextXid,            \* ShmemVariableCache->nextXid
    nextCommitSeqNo,    \* ShmemVariableCache->nextCommitSeqNo
    latestCompletedXid, \* ShmemVariableCache->latestCompletedXid
    running,            \* the xids advertised in the proc array
    csnOf,              \* the CSN an xid has drawn, or 0
    shmemXmin,          \* ShmemVariableCache->xmin
    recentLocalXmin,    \* ShmemVariableCache->recentLocalXmin
    slot,               \* g_snap_buffer: xmin and localxmin of each slot
    refCnt,             \* g_snap_buffer: reference counts
    current,            \* g_snap_current
    next,               \* g_snap_next
    ppc,                \* the holder of ProcArrayLock: where it is
    globalXmin,         \* ... its local variable
    scanSlot,           \* ... the slot it looks at next
    scanProcs,          \* ... and the entries of the proc array it has to visit
    idx,                \* ... the slot SetNextSnapXid has looked at last
    nofindCount,        \* ... and how many it has found in use
    passBegan,          \* history: who was using a slot when this pass over them began
    rpc,                \* reader: where it is
    ptr,                \* reader: the slot it has read the pointer of
    pgxactXmin,         \* reader: PGXACT.xmin
    recentGlobalXmin,   \* reader: u_sess->utils_cxt.RecentGlobalXmin
    copied,             \* reader: snapshot->xmin under construction
    held,               \* reader: the snapshots it holds
    cutoff,             \* the last result of GetOldestXmin
    removed             \* deleted rows that vacuum has removed

xactVars == <<nextXid, nextCommitSeqNo, latestCompletedXid, running, csnOf>>
shmVars == <<shmemXmin, recentLocalXmin>>
ringVars == <<slot, refCnt, current, next>>
scanVars == <<globalXmin, scanSlot, scanProcs>>
searchVars == <<idx, nofindCount, passBegan>>
pubVars == <<ppc, scanVars, searchVars>>
readerVars == <<rpc, ptr, pgxactXmin, recentGlobalXmin, copied, held>>
vacVars == <<cutoff, removed>>
vars == <<xactVars, shmVars, ringVars, pubVars, readerVars, vacVars>>

\* The lesser of two xids, and the least of a non-empty set.
Older(x, y) == IF x < y THEN x ELSE y
Oldest(S) == CHOOSE x \in S : \A y \in S : x <= y

Xmax == latestCompletedXid + 1

-----------------------------------------------------------------------------
(* Transactions                                                            *)

GetNewTransactionId ==
    /\ nextXid <= MaxXid
    /\ nextXid' = nextXid + 1
    /\ running' = running \cup {nextXid}
    /\ UNCHANGED <<nextCommitSeqNo, latestCompletedXid, csnOf>>
    /\ UNCHANGED <<shmVars, ringVars, pubVars, readerVars, vacVars>>

GetLocalNextCSN(x) ==
    /\ x \in running
    /\ csnOf[x] = 0
    /\ csnOf' = [csnOf EXCEPT ![x] = nextCommitSeqNo]
    /\ nextCommitSeqNo' = nextCommitSeqNo + 1
    /\ UNCHANGED <<nextXid, latestCompletedXid, running>>
    /\ UNCHANGED <<shmVars, ringVars, pubVars, readerVars, vacVars>>

\* ProcArrayEndTransaction takes ProcArrayLock; without a CSN it is an abort.
EndTransaction(x) ==
    /\ ppc = "unlocked"
    /\ x \in running
    /\ running' = running \ {x}
    /\ latestCompletedXid' = IF latestCompletedXid < x THEN x
                             ELSE latestCompletedXid
    /\ ppc' = "ended"
    /\ UNCHANGED <<nextXid, nextCommitSeqNo, csnOf, scanVars, searchVars>>
    /\ UNCHANGED <<shmVars, ringVars, readerVars, vacVars>>

-----------------------------------------------------------------------------
(* CalculateLocalLatestSnapshot                                            *)

\* enable_defer_calculate_snapshot: the xmins of last time are used again.
DeferCalculation ==
    /\ ppc = "ended"
    /\ ppc' = "calculated"
    /\ UNCHANGED <<scanVars, searchVars>>
    /\ UNCHANGED <<xactVars, shmVars, ringVars, readerVars, vacVars>>

\* globalxmin starts from xmax and the current slot.
ScanStart ==
    /\ ppc = "ended"
    /\ globalXmin' = Oldest({Xmax, slot[current].xmin} \ {InvalidTransactionId})
    /\ scanSlot' = 0
    /\ ppc' = "scanning"
    /\ UNCHANGED <<scanProcs, searchVars>>
    /\ UNCHANGED <<xactVars, shmVars, ringVars, readerVars, vacVars>>

\* One slot of the ring: it counts if somebody uses it.
ScanSlot ==
    LET x == slot[scanSlot].xmin
    IN /\ ppc = "scanning"
       /\ globalXmin' = IF refCnt[scanSlot] > 0 /\ x # InvalidTransactionId
                        THEN Older(x, globalXmin) ELSE globalXmin
       /\ scanSlot' = scanSlot + 1
       /\ ppc' = IF scanSlot' = RingSize THEN "scanned" ELSE ppc
       /\ scanProcs' = IF scanSlot' = RingSize THEN Readers ELSE scanProcs
       /\ UNCHANGED <<searchVars, xactVars, shmVars, ringVars, readerVars, vacVars>>

\* Mutant: PGXACT.xmin is left out of the scan.
ScanProc_NoXmin(r) ==
    /\ ppc = "scanned"
    /\ r \in scanProcs
    /\ scanProcs' = scanProcs \ {r}
    /\ UNCHANGED <<ppc, globalXmin, scanSlot, searchVars>>
    /\ UNCHANGED <<xactVars, shmVars, ringVars, readerVars, vacVars>>

\* One entry of the proc array: PGXACT.xmin, which its owner sets without a
\* lock.
ScanProc(r) ==
    /\ ppc = "scanned"
    /\ r \in scanProcs
    /\ globalXmin' = IF pgxactXmin[r] # InvalidTransactionId
                     THEN Older(pgxactXmin[r], globalXmin) ELSE globalXmin
    /\ scanProcs' = scanProcs \ {r}
    /\ UNCHANGED <<ppc, scanSlot, searchVars>>
    /\ UNCHANGED <<xactVars, shmVars, ringVars, readerVars, vacVars>>

\* Mutant: the running xids are left out of the scan.
SetXmins_NoXid ==
    /\ ppc = "scanned"
    /\ scanProcs = {}
    /\ shmemXmin' = Xmax
    /\ recentLocalXmin' = globalXmin
    /\ globalXmin' = InvalidTransactionId /\ scanSlot' = 0
    /\ ppc' = "calculated"
    /\ UNCHANGED <<scanProcs, searchVars>>
    /\ UNCHANGED <<xactVars, ringVars, readerVars, vacVars>>

\* The same loop has looked for the oldest running xid.  None can leave the
\* proc array meanwhile, and a new one does not precede xmax.
SetXmins ==
    LET xmin == Oldest({Xmax} \cup {x \in running : x < Xmax})
    IN /\ ppc = "scanned"
       /\ scanProcs = {}
       /\ shmemXmin' = xmin
       /\ recentLocalXmin' = Older(globalXmin, xmin)
       /\ globalXmin' = InvalidTransactionId /\ scanSlot' = 0
       /\ ppc' = "calculated"
       /\ UNCHANGED <<scanProcs, searchVars>>
       /\ UNCHANGED <<xactVars, ringVars, readerVars, vacVars>>

\* The slot is filled in field by field.
WriteXmin ==
    /\ ppc = "calculated"
    /\ slot' = [slot EXCEPT ![next].xmin = shmemXmin]
    /\ ppc' = "writing"
    /\ UNCHANGED <<refCnt, current, next, scanVars, searchVars>>
    /\ UNCHANGED <<xactVars, shmVars, readerVars, vacVars>>

WriteLocalXmin ==
    /\ ppc = "writing"
    /\ slot' = [slot EXCEPT ![next].localxmin = recentLocalXmin]
    /\ ppc' = "written"
    /\ UNCHANGED <<refCnt, current, next, scanVars, searchVars>>
    /\ UNCHANGED <<xactVars, shmVars, readerVars, vacVars>>

\* Who has read the pointer of a slot and not yet let go of the slot.
UsingSlot == {r \in Readers : rpc[r] \in {"pointed", "pinned", "advertised", "horizon"}}

\* SetNextSnapXid: publish, and then look for a slot nobody uses, one after the other
\* and without a lock ...
SetNextSnapXid ==
    /\ ppc = "written"
    /\ current' = next
    /\ idx' = next /\ nofindCount' = 0 /\ passBegan' = UsingSlot
    /\ ppc' = "searching"
    /\ UNCHANGED <<slot, refCnt, next, scanVars>>
    /\ UNCHANGED <<xactVars, shmVars, readerVars, vacVars>>

\* ... from the one behind the current slot, with wrap-around, to the current slot.
NextIdx == IF idx + 1 = RingSize THEN 0 ELSE idx + 1

\* IsZeroRefCount: this one is free, and becomes g_snap_next.
SlotIsFree ==
    /\ ppc = "searching"
    /\ refCnt[NextIdx] = 0
    /\ next' = NextIdx
    /\ ppc' = "unlocked"
    /\ idx' = 0 /\ nofindCount' = 0 /\ passBegan' = {}
    /\ UNCHANGED <<slot, refCnt, current, scanVars>>
    /\ UNCHANGED <<xactVars, shmVars, readerVars, vacVars>>

\* This one is in use.  After the last of a pass ("snapshot ring buffer overflow")
\* the search starts over, or stops the server with a PANIC.
SlotIsInUse ==
    LET passEnds == NextIdx = next
        panic == passEnds /\ nofindCount' >= SNAP_ERROR_COUNT
    IN /\ ppc = "searching"
       /\ refCnt[NextIdx] # 0
       /\ idx' = NextIdx
       /\ nofindCount' = nofindCount + 1
       /\ passBegan' = IF passEnds /\ ~panic THEN UsingSlot ELSE passBegan
       /\ ppc' = IF panic THEN "panic" ELSE ppc
       /\ UNCHANGED <<ringVars, scanVars>>
       /\ UNCHANGED <<xactVars, shmVars, readerVars, vacVars>>

-----------------------------------------------------------------------------
(* GetSnapshotData and GetLocalSnapshotData                                *)

\* The snapshots that are held, with their holders.
AllHeld == UNION {{<<r, s>> : s \in held[r]} : r \in Readers}

\* GetCurrentSnapXid reads the pointer ...
ReadCurrent(r) ==
    /\ rpc[r] = "idle"
    /\ Cardinality(AllHeld) < MaxHeld
    /\ ptr' = [ptr EXCEPT ![r] = current]
    /\ rpc' = [rpc EXCEPT ![r] = "pointed"]
    /\ UNCHANGED <<pgxactXmin, recentGlobalXmin, copied, held>>
    /\ UNCHANGED <<xactVars, shmVars, ringVars, pubVars, vacVars>>

\* ... and then raises the count of whatever the slot holds by now.
IncrRefCount(r) ==
    /\ rpc[r] = "pointed"
    /\ refCnt' = [refCnt EXCEPT ![ptr[r]] = @ + 1]
    /\ rpc' = [rpc EXCEPT ![r] = "pinned"]
    /\ UNCHANGED <<slot, current, next, ptr, pgxactXmin, recentGlobalXmin,
                   copied, held>>
    /\ UNCHANGED <<xactVars, shmVars, pubVars, vacVars>>

\* The first snapshot of a transaction sets PGXACT.xmin.
AdvertiseXmin(r) ==
    /\ rpc[r] = "pinned"
    /\ pgxactXmin' = [pgxactXmin EXCEPT ![r] =
                        IF @ = InvalidTransactionId THEN slot[ptr[r]].xmin
                        ELSE @]
    /\ rpc' = [rpc EXCEPT ![r] = "advertised"]
    /\ UNCHANGED <<ptr, recentGlobalXmin, copied, held>>
    /\ UNCHANGED <<xactVars, shmVars, ringVars, pubVars, vacVars>>

\* The slot's localxmin becomes the session's own horizon.
ReadLocalXmin(r) ==
    LET x == slot[ptr[r]].localxmin
    IN /\ rpc[r] = "advertised"
       /\ recentGlobalXmin' = [recentGlobalXmin EXCEPT ![r] =
                                 IF x < FirstNormalTransactionId
                                 THEN FirstNormalTransactionId ELSE x]
       /\ rpc' = [rpc EXCEPT ![r] = "horizon"]
       /\ UNCHANGED <<ptr, pgxactXmin, copied, held>>
       /\ UNCHANGED <<xactVars, shmVars, ringVars, pubVars, vacVars>>

\* Mutant: the slot is released by the caller, too.
CopySlot_ReleasesTwice(r) ==
    /\ rpc[r] = "horizon"
    /\ copied' = [copied EXCEPT ![r] = slot[ptr[r]].xmin]
    /\ refCnt' = [refCnt EXCEPT ![ptr[r]] = @ - 2]
    /\ ptr' = [ptr EXCEPT ![r] = 0]
    /\ rpc' = [rpc EXCEPT ![r] = "copied"]
    /\ UNCHANGED <<slot, current, next, pgxactXmin, recentGlobalXmin, held>>
    /\ UNCHANGED <<xactVars, shmVars, pubVars, vacVars>>

\* Mutant: the slot is not released.
CopySlot_KeepsPin(r) ==
    /\ rpc[r] = "horizon"
    /\ copied' = [copied EXCEPT ![r] = slot[ptr[r]].xmin]
    /\ ptr' = [ptr EXCEPT ![r] = 0]
    /\ rpc' = [rpc EXCEPT ![r] = "copied"]
    /\ UNCHANGED <<pgxactXmin, recentGlobalXmin, held>>
    /\ UNCHANGED <<xactVars, shmVars, ringVars, pubVars, vacVars>>

\* The slot is read once more for the snapshot itself and released.
CopySlot(r) ==
    /\ rpc[r] = "horizon"
    /\ copied' = [copied EXCEPT ![r] = slot[ptr[r]].xmin]
    /\ refCnt' = [refCnt EXCEPT ![ptr[r]] = @ - 1]
    /\ ptr' = [ptr EXCEPT ![r] = 0]
    /\ rpc' = [rpc EXCEPT ![r] = "copied"]
    /\ UNCHANGED <<slot, current, next, pgxactXmin, recentGlobalXmin, held>>
    /\ UNCHANGED <<xactVars, shmVars, pubVars, vacVars>>

\* GetSnapshotData replaces the slot's snapshotcsn by the counter of now.
ReadSnapshotCsn(r) ==
    /\ rpc[r] = "copied"
    /\ held' = [held EXCEPT ![r] = @ \cup
                  {[xmin |-> copied[r], csn |-> nextCommitSeqNo]}]
    /\ copied' = [copied EXCEPT ![r] = InvalidTransactionId]
    /\ rpc' = [rpc EXCEPT ![r] = "idle"]
    /\ UNCHANGED <<ptr, pgxactXmin, recentGlobalXmin>>
    /\ UNCHANGED <<xactVars, shmVars, ringVars, pubVars, vacVars>>

\* A snapshot is dropped; SnapshotResetXmin withdraws PGXACT.xmin with the last.
DropSnapshot(r, s) ==
    /\ rpc[r] = "idle"
    /\ s \in held[r]
    /\ held' = [held EXCEPT ![r] = @ \ {s}]
    /\ pgxactXmin' = [pgxactXmin EXCEPT ![r] =
                        IF held[r] = {s} THEN InvalidTransactionId ELSE @]
    /\ UNCHANGED <<rpc, ptr, recentGlobalXmin, copied>>
    /\ UNCHANGED <<xactVars, shmVars, ringVars, pubVars, vacVars>>

-----------------------------------------------------------------------------
(* Users of the horizon                                                    *)

\* GetOldestXmin in a session that has taken a snapshot before (vacuum).
GetOldestXmin(r) ==
    /\ recentGlobalXmin[r] # InvalidTransactionId
    /\ cutoff' = recentGlobalXmin[r]
    /\ UNCHANGED removed
    /\ UNCHANGED <<xactVars, shmVars, ringVars, pubVars, readerVars>>

\* GetOldestXmin in one that has not (the checkpointer): the localxmin of the
\* current slot, or what was computed last if that is older.  Without a GTM
\* ShmemVariableCache has the same value in recentLocalXmin and
\* recentGlobalXmin.
GetOldestXminFromRing ==
    /\ cutoff' = Older(slot[current].localxmin, recentLocalXmin)
    /\ UNCHANGED removed
    /\ UNCHANGED <<xactVars, shmVars, ringVars, pubVars, readerVars>>

\* HeapTupleSatisfiesVacuum calls the row deleted by x dead: x has committed,
\* is not in progress any more and precedes the cutoff.
RemoveDeadRow(x) ==
    /\ csnOf[x] # 0
    /\ x \notin running
    /\ x < cutoff
    /\ removed' = removed \cup {x}
    /\ UNCHANGED cutoff
    /\ UNCHANGED <<xactVars, shmVars, ringVars, pubVars, readerVars>>

-----------------------------------------------------------------------------

\* The state after StartupXLOG has published the first snapshot.
Init ==
    /\ nextXid = FirstNormalTransactionId
    /\ nextCommitSeqNo = COMMITSEQNO_FIRST_NORMAL
    /\ latestCompletedXid = FirstNormalTransactionId - 1
    /\ running = {}
    /\ csnOf = [x \in Xids |-> 0]
    /\ shmemXmin = FirstNormalTransactionId
    /\ recentLocalXmin = FirstNormalTransactionId
    /\ slot = [i \in SlotNos |->
                 LET x == IF i = 1 THEN FirstNormalTransactionId
                          ELSE InvalidTransactionId
                 IN [xmin |-> x, localxmin |-> x]]
    /\ refCnt = [i \in SlotNos |-> 0]
    /\ current = 1
    /\ next = 2 % RingSize
    /\ ppc = "unlocked"
    /\ globalXmin = InvalidTransactionId /\ scanSlot = 0 /\ scanProcs = {}
    /\ idx = 0 /\ nofindCount = 0 /\ passBegan = {}
    /\ rpc = [r \in Readers |-> "idle"]
    /\ ptr = [r \in Readers |-> 0]
    /\ pgxactXmin = [r \in Readers |-> InvalidTransactionId]
    /\ recentGlobalXmin = [r \in Readers |-> InvalidTransactionId]
    /\ copied = [r \in Readers |-> InvalidTransactionId]
    /\ held = [r \in Readers |-> {}]
    /\ cutoff = FirstNormalTransactionId
    /\ removed = {}

ReaderNext(r) ==
    \/ ReadCurrent(r)
    \/ IncrRefCount(r)
    \/ AdvertiseXmin(r)
    \/ ReadLocalXmin(r)
    \/ CopySlot(r)
    \/ ReadSnapshotCsn(r)
    \/ \E s \in held[r] : DropSnapshot(r, s)

Next ==
    \/ GetNewTransactionId
    \/ \E x \in Xids : GetLocalNextCSN(x) \/ EndTransaction(x)
    \/ DeferCalculation
    \/ ScanStart
    \/ ScanSlot
    \/ SetXmins
    \/ WriteXmin
    \/ WriteLocalXmin
    \/ SetNextSnapXid
    \/ SlotIsFree
    \/ SlotIsInUse
    \/ \E r \in Readers : ReaderNext(r) \/ ScanProc(r) \/ GetOldestXmin(r)
    \/ GetOldestXminFromRing
    \/ \E x \in Xids : RemoveDeadRow(x)

Spec == Init /\ [][Next]_vars

-----------------------------------------------------------------------------
(* Properties                                                              *)

\* The type invariant.
TypeOK ==
    /\ nextXid \in Nat /\ nextCommitSeqNo \in Nat /\ latestCompletedXid \in Nat
    /\ shmemXmin \in Nat /\ recentLocalXmin \in Nat
    /\ globalXmin \in Nat /\ cutoff \in Nat
    /\ running \subseteq Xids /\ removed \subseteq Xids
    /\ csnOf \in [Xids -> Nat]
    /\ slot \in [SlotNos -> [xmin : Nat, localxmin : Nat]]
    /\ refCnt \in [SlotNos -> Nat]
    /\ current \in SlotNos /\ next \in SlotNos
    /\ ppc \in {"unlocked", "ended", "scanning", "scanned", "calculated",
                "writing", "written", "searching", "panic"}
    /\ idx \in SlotNos /\ nofindCount \in Nat /\ passBegan \subseteq Readers
    /\ scanSlot \in 0 .. RingSize /\ scanProcs \subseteq Readers
    /\ rpc \in [Readers -> {"idle", "pointed", "pinned", "advertised",
                            "horizon", "copied"}]
    /\ ptr \in [Readers -> SlotNos]
    /\ pgxactXmin \in [Readers -> Nat] /\ copied \in [Readers -> Nat]
    /\ recentGlobalXmin \in [Readers -> Nat]
    /\ held \in [Readers -> SUBSET [xmin : Nat, csn : Nat]]

(***************************************************************************)
(* Vacuum removes no row that a snapshot still shows: whoever deleted a    *)
(* removed row is a committed transaction within every snapshot held,      *)
(* although readers take snapshots without a lock, advertise their xmin    *)
(* late, and may even have advertised one that is older than the horizon.  *)
(***************************************************************************)
NoVisibleRowRemoved ==
    \A r \in Readers : \A s \in held[r] : \A x \in removed :
       csnOf[x] < s.csn

(***************************************************************************)
(* The xmin of a snapshot is a horizon, however late and from whichever    *)
(* slot it was copied: every older xid has left the proc array, with a CSN *)
(* that the snapshot covers or with none.                                  *)
(***************************************************************************)
XminIsHorizon ==
    \A r \in Readers : \A s \in held[r] : \A x \in Xids : x < s.xmin =>
       /\ x < nextXid
       /\ x \notin running
       /\ csnOf[x] < s.csn

(***************************************************************************)
(* The comment of GetOldestXmin: a transaction that sets its snapshot      *)
(* later "cannot set xmin less than what we compute", so that the CSN log  *)
(* may be truncated there.                                                 *)
(***************************************************************************)
XminNotBelowCutoff ==
    \A r \in Readers :
       pgxactXmin[r] # InvalidTransactionId => cutoff <= pgxactXmin[r]

\* The last slot of a pass, the current one, is found in use like all before it.
PassFails == ppc = "searching" /\ NextIdx = next /\ refCnt[next] # 0

(***************************************************************************)
(* SetNextSnapXid: "we alloc sufficient space for local snapshot, overflow *)
(* should not happen here".  The slots are tested one by one while readers *)
(* come and go, so one reader may be met twice, on an old slot and then on *)
(* the current one.  But a first pass fails only if RingSize - 1 threads   *)
(* were between GetCurrentSnapXid and ReleaseSnapXid at the same time when *)
(* the snapshot was published, and every later one (SNAP_ERROR_COUNT, the  *)
(* PANIC) only if RingSize threads were, at the moment it began.           *)
(***************************************************************************)
OverflowNeedsReaders ==
    PassFails => Cardinality(passBegan) >= IF nofindCount < RingSize
                                           THEN RingSize - 1 ELSE RingSize

-----------------------------------------------------------------------------
(* The inductive invariant                                                 *)

\* x has left the proc array: its CSN, if it has one, is final.
Over(x) == x < nextXid /\ x \notin running

\* Everything before h is over.
Horizon(h) == \A x \in Xids : x < h => Over(x)

\* No snapshot of r that is held misses the commit of x.
Covered(x, r) == \A s \in held[r] : csnOf[x] < s.csn

\* Everything before h is over, and in every snapshot if it has committed.
Safe(h) == \A x \in Xids : x < h => Over(x) /\ \A r \in Readers : Covered(x, r)

XactInv ==
    /\ FirstNormalTransactionId <= nextXid
    /\ \A x \in running : x < nextXid
    /\ latestCompletedXid < nextXid
    /\ \A x \in Xids : csnOf[x] < nextCommitSeqNo

\* Whatever may become the xmin of a snapshot is a horizon, and a valid one in the
\* slots that readers may look at.
SlotInv ==
    /\ shmemXmin # InvalidTransactionId /\ Horizon(shmemXmin)
    /\ \A i \in SlotNos : Horizon(slot[i].xmin)
    /\ slot[current].xmin # InvalidTransactionId
    /\ ppc \in {"writing", "written"} => slot[next].xmin # InvalidTransactionId
    /\ \A r \in UsingSlot : slot[ptr[r]].xmin # InvalidTransactionId

\* PGXACT.xmin is set before a snapshot is made and stays until the last is gone,
\* and what precedes it is in all of them.
ReaderInv ==
    \A r \in Readers :
       /\ Horizon(copied[r]) /\ Horizon(pgxactXmin[r])
       /\ rpc[r] \in {"advertised", "horizon", "copied"} \/ held[r] # {}
             => pgxactXmin[r] # InvalidTransactionId
       /\ \A x \in Xids : x < pgxactXmin[r] => Covered(x, r)
       /\ \A s \in held[r] : \A x \in Xids :
             x < s.xmin => Over(x) /\ csnOf[x] < s.csn

\* The scan: what is over and precedes globalXmin is in the snapshots of those
\* visited, whether they had one when they were or took one since.
ScanInv ==
    /\ ppc = "scanning" => scanSlot < RingSize
    /\ ppc = "scanned" =>
          \A r \in Readers \ scanProcs : \A x \in Xids :
             x < globalXmin /\ Over(x) => Covered(x, r)

\* Whatever may become the cutoff of vacuum is safe, and so is what it has removed.
VacuumInv ==
    /\ Safe(recentLocalXmin) /\ Safe(cutoff)
    /\ \A i \in SlotNos : Safe(slot[i].localxmin)
    /\ \A r \in Readers : Safe(recentGlobalXmin[r])
    /\ \A x \in removed : Over(x) /\ \A r \in Readers : Covered(x, r)

\* The readers that have raised the count of slot i and not lowered it again.
Pinning(i) == {r \in Readers : /\ ptr[r] = i
                              /\ rpc[r] \in {"pinned", "advertised", "horizon"}}

RefInv == \A i \in SlotNos : refCnt[i] = Cardinality(Pinning(i))

\* How many slots lie between the current one and j in the order of the search.
Ahead(j) == IF j >= current THEN j - current ELSE j + RingSize - current

\* Those who were using a slot when the pass began and cannot be met in it any more,
\* except on the current slot: theirs has been tested, or they have let go of it.
Behind == {r \in passBegan : r \notin UsingSlot \/ Ahead(ptr[r]) <= Ahead(idx)}

\* The search: a slot other than the current one is used only by who took it before,
\* so that each such slot found in use is one reader more who is behind.  In a second
\* pass there is also the one who used the current slot when the first one ended.
SearchInv ==
    ppc = "searching" =>
       /\ current = next
       /\ \A r \in UsingSlot : ptr[r] # current => r \in passBegan
       /\ nofindCount = Ahead(idx) \/ nofindCount >= RingSize
       /\ Cardinality(Behind) >= Ahead(idx) + IF nofindCount < RingSize THEN 0 ELSE 1

(***************************************************************************)
(* The inductive invariant.  A horizon stays one, as no xid comes back; a  *)
(* cutoff stays safe, as the CSN of a snapshot is drawn last; reference    *)
(* counts are exact, and nobody is counted twice in the search.            *)
(***************************************************************************)
IInv == TypeOK /\ XactInv /\ SlotInv /\ ReaderInv /\ ScanInv /\ VacuumInv /\ RefInv
           /\ SearchInv

=============================================================================
