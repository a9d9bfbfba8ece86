----------------------------- MODULE CrashProofs -----------------------------
(***************************************************************************)
(* CrashRecovery keeps its invariant, for any transactions, pages, requests*)
(* for checkpoints and number of crashes: a commit that was acknowledged   *)
(* survives, recovery from the redo point restores what the whole log says,*)
(* no hint bit outlives its commit and no checkpoint panics.               *)
(***************************************************************************)
EXTENDS CrashRecovery, FiniteSetTheorems, WellFoundedInduction, TLAPS

\* Min of FiniteSetsExt is the least element.
LEMMA MinIsLeast ==
    ASSUME NEW S \in SUBSET Nat, S # {}
    PROVE  Min(S) \in S /\ \A y \in S : Min(S) <= y
<1> DEFINE R == OpToRel(<, Nat)
<1>1. IsWellFoundedOn(R, Nat)
    BY NatLessThanWellFounded
<1>2. \A x, y \in Nat : y < x => <<y, x>> \in R
    BY DEF OpToRel
<1>3. PICK x \in S : \A y \in S : ~ (<<y, x>> \in R)
    <2> HIDE DEF R
    <2> QED
        BY <1>1, WFMin
<1>4. ASSUME NEW y \in S PROVE x <= y
    <2>1. x \in Nat /\ y \in Nat
        OBVIOUS
    <2>2. ~ (<<y, x>> \in R)
        BY <1>3
    <2>3. ~ (y < x)
        BY <1>2, <2>1, <2>2, Zenon
    <2> QED
        BY <2>1, <2>3
<1> QED
    BY <1>4 DEF Min

\* Max of FiniteSetsExt is the largest element of a bounded set.
LEMMA MaxIsLargest ==
    ASSUME NEW S \in SUBSET Nat, S # {}, NEW n \in Nat, \A y \in S : y <= n
    PROVE  Max(S) \in S /\ \A y \in S : y <= Max(S)
<1> DEFINE T == {k \in Nat : \A y \in S : y <= k}
           m == Min(T)
<1>1. T \in SUBSET Nat /\ n \in T
    OBVIOUS
<1>2. m \in T /\ \A y \in T : m <= y
    BY <1>1, MinIsLeast
<1>3. m \in S
    <2> SUFFICES ASSUME m \notin S PROVE FALSE
        OBVIOUS
    <2> HIDE DEF m
    <2>1. m \in Nat /\ \A y \in S : y <= m
        BY <1>2
    <2>2. ASSUME NEW y \in S PROVE y < m
        BY <2>1
    <2>3. PICK z \in S : TRUE
        OBVIOUS
    <2>4. m - 1 \in Nat
        BY <2>1, <2>2, <2>3
    <2>5. \A y \in S : y <= m - 1
        BY <2>1, <2>2
    <2> QED
        BY <2>1, <2>4, <2>5, <1>2
<1> HIDE DEF m
<1> QED
    BY <1>2, <1>3 DEF Max

\* Rounding down to a multiple.
LEMMA RoundDown ==
    ASSUME NEW b \in Nat, b > 0, NEW m \in Nat, NEW n \in Nat, m <= n
    PROVE  /\ m % b \in Nat /\ n % b \in Nat
           /\ m - (m % b) \in 0 .. m
           /\ m - (m % b) <= n - (n % b)
<1>1. m % b \in 0 .. b - 1 /\ n % b \in 0 .. b - 1
    OBVIOUS
<1>2. m = (b * (m \div b)) + (m % b) /\ n = (b * (n \div b)) + (n % b)
    OBVIOUS
<1>3. m \div b \in Nat /\ n \div b \in Nat
    OBVIOUS
<1> QED
    BY <1>1, <1>2, <1>3

-----------------------------------------------------------------------------
(* The log                                                                 *)

LEMMA LogTypes ==
    ASSUME wal \in Seq(Records)
    PROVE  /\ Len(wal) \in Nat /\ DOMAIN wal = 1 .. Len(wal)
           /\ \A i \in DOMAIN wal : wal[i] \in Records
           /\ \A p \in Pages : \A i \in Rows(p) :
                 i \in 1 .. Len(wal) /\ wal[i].xid \in Xids /\ PageOf[wal[i].xid] = p
           /\ \A x \in Xids : \A i \in Commits(x) : i \in 1 .. Len(wal)
<1>1. Len(wal) \in Nat /\ DOMAIN wal = 1 .. Len(wal) /\ \A i \in DOMAIN wal : wal[i] \in Records
    OBVIOUS
<1>2. \A r \in Records : r.type = "row" => r.xid \in Xids
    BY DEF Records
<1> QED
    BY <1>1, <1>2 DEF Rows, Commits

\* A record is added to the log.
LEMMA LogAppend ==
    ASSUME wal \in Seq(Records), NEW r \in Records, wal' = Append(wal, r)
    PROVE  /\ wal' \in Seq(Records) /\ Len(wal') = Len(wal) + 1
           /\ \A i \in 1 .. Len(wal) : wal'[i] = wal[i]
           /\ wal'[curInsert] = r
           /\ \A p \in Pages : Rows(p)' =
                 Rows(p) \cup {i \in {curInsert} : r.type = "row" /\ PageOf[r.xid] = p}
           /\ \A x \in Xids : Commits(x)' =
                 Commits(x) \cup {i \in {curInsert} : r.type = "commit" /\ r.xid = x}
<1>1. /\ wal' \in Seq(Records) /\ Len(wal') = Len(wal) + 1
      /\ Len(wal) \in Nat /\ DOMAIN wal = 1 .. Len(wal) /\ DOMAIN wal' = 1 .. Len(wal) + 1
      /\ \A i \in 1 .. Len(wal) : wal'[i] = wal[i]
      /\ wal'[curInsert] = r
    BY DEF curInsert
<1>2. ASSUME NEW p \in Pages
      PROVE  Rows(p)' = Rows(p) \cup {i \in {curInsert} : r.type = "row" /\ PageOf[r.xid] = p}
    BY <1>1 DEF Rows, curInsert
<1>3. ASSUME NEW x \in Xids
      PROVE  Commits(x)' = Commits(x) \cup {i \in {curInsert} : r.type = "commit" /\ r.xid = x}
    BY <1>1 DEF Commits, curInsert
<1> QED
    BY <1>1, <1>2, <1>3

\* A crash cuts the end of the log off.
LEMMA LogCut ==
    ASSUME wal \in Seq(Records), NEW end \in 1 .. curInsert, wal' = SubSeq(wal, 1, end - 1)
    PROVE  /\ wal' \in Seq(Records) /\ Len(wal') = end - 1
           /\ \A i \in 1 .. end - 1 : wal'[i] = wal[i]
           /\ \A p \in Pages : Rows(p)' = {i \in Rows(p) : i < end}
           /\ \A x \in Xids : Commits(x)' = {i \in Commits(x) : i < end}
<1>1. /\ wal' \in Seq(Records) /\ Len(wal') = end - 1
      /\ Len(wal) \in Nat /\ DOMAIN wal = 1 .. Len(wal) /\ DOMAIN wal' = 1 .. end - 1
      /\ \A i \in 1 .. end - 1 : wal'[i] = wal[i]
      /\ end - 1 <= Len(wal)
    BY DEF curInsert
<1>2. ASSUME NEW p \in Pages
      PROVE  Rows(p)' = {i \in Rows(p) : i < end}
    BY <1>1 DEF Rows
<1>3. ASSUME NEW x \in Xids
      PROVE  Commits(x)' = {i \in Commits(x) : i < end}
    BY <1>1 DEF Commits
<1> QED
    BY <1>1, <1>2, <1>3

\* The records that actions add.
LEMMA Inserted ==
    /\ \A x \in Xids : InsertRow(x) => wal' = Append(wal, [type |-> "row", xid |-> x])
    /\ \A x \in Xids : InsertCommit(x) => wal' = Append(wal, [type |-> "commit", xid |-> x])
    /\ InsertCheckpoint => wal' = Append(wal, [type |-> "checkpoint", xid |-> NoXid])
    /\ [type |-> "checkpoint", xid |-> NoXid] \in Records
    /\ \A x \in Xids : {[type |-> "row", xid |-> x], [type |-> "commit", xid |-> x]}
                          \subseteq Records
<1>1. [type |-> "checkpoint", xid |-> NoXid] \in Records
    BY DEF Records
<1>2. ASSUME NEW x \in Xids
      PROVE  [type |-> "row", xid |-> x] \in Records /\ [type |-> "commit", xid |-> x] \in Records
    BY DEF Records
<1> QED
    BY <1>1, <1>2 DEF InsertRow, InsertCommit, InsertCheckpoint

\* Nothing but a crash takes anything from the log; rows and commits are added by the
\* transactions they belong to.
LEMMA LogGrows ==
    ASSUME TypeOK, [Next]_vars, ~Crash
    PROVE  /\ flushed <= flushed'
           /\ Len(wal) <= Len(wal')
           /\ \A i \in DOMAIN wal : i \in DOMAIN wal' /\ wal'[i] = wal[i]
           /\ \A p \in Pages : /\ Rows(p) \subseteq Rows(p)'
                               /\ \A i \in Rows(p)' \ Rows(p) : i = curInsert
           /\ \A x \in Xids : /\ Commits(x) \subseteq Commits(x)'
                              /\ \A i \in Commits(x)' \ Commits(x) : i = curInsert
           /\ \A p \in Pages :
                 (\A x \in Xids : InsertRow(x) => PageOf[x] # p) => Rows(p)' = Rows(p)
           /\ \A x \in Xids : ~InsertCommit(x) => Commits(x)' = Commits(x)
<1> DEFINE Goal == /\ flushed <= flushed'
                   /\ Len(wal) <= Len(wal')
                   /\ \A i \in DOMAIN wal : i \in DOMAIN wal' /\ wal'[i] = wal[i]
                   /\ \A p \in Pages : /\ Rows(p) \subseteq Rows(p)'
                                       /\ \A i \in Rows(p)' \ Rows(p) : i = curInsert
                   /\ \A x \in Xids : /\ Commits(x) \subseteq Commits(x)'
                                      /\ \A i \in Commits(x)' \ Commits(x) : i = curInsert
                   /\ \A p \in Pages :
                         (\A x \in Xids : InsertRow(x) => PageOf[x] # p) => Rows(p)' = Rows(p)
                   /\ \A x \in Xids : ~InsertCommit(x) => Commits(x)' = Commits(x)
<1>1. wal \in Seq(Records) /\ flushed \in 1 .. curInsert /\ Len(wal) \in Nat
      /\ DOMAIN wal = 1 .. Len(wal) /\ curInsert = Len(wal) + 1
    BY DEF TypeOK, LogType, curInsert
<1>2. ASSUME NEW x \in Xids, InsertRow(x) PROVE Goal
    <2> DEFINE r == [type |-> "row", xid |-> x]
    <2>1. r \in Records /\ wal' = Append(wal, r) /\ flushed' = flushed
        BY <1>2, Inserted DEF InsertRow
    <2>2. r.type = "row" /\ r.xid = x
        OBVIOUS
    <2> HIDE DEF r
    <2>3. /\ Len(wal') = Len(wal) + 1 /\ \A i \in 1 .. Len(wal) : wal'[i] = wal[i]
          /\ wal' \in Seq(Records)
        BY <1>1, <2>1, LogAppend
    <2>4. Len(wal) <= Len(wal') /\ \A i \in DOMAIN wal : i \in DOMAIN wal' /\ wal'[i] = wal[i]
        BY <1>1, <2>3
    <2>5. ASSUME NEW p \in Pages
          PROVE  /\ Rows(p) \subseteq Rows(p)' /\ \A i \in Rows(p)' \ Rows(p) : i = curInsert
                 /\ (\A y \in Xids : InsertRow(y) => PageOf[y] # p) => Rows(p)' = Rows(p)
        <3>1. Rows(p)' = Rows(p) \cup {i \in {curInsert} : PageOf[x] = p}
            BY <1>1, <2>1, <2>2, LogAppend
        <3> QED
            BY <1>2, <3>1
    <2>6. ASSUME NEW y \in Xids
          PROVE  /\ Commits(y) \subseteq Commits(y)'
                 /\ \A i \in Commits(y)' \ Commits(y) : i = curInsert
                 /\ ~InsertCommit(y) => Commits(y)' = Commits(y)
        <3>1. Commits(y)' = Commits(y) \cup {i \in {curInsert} : FALSE}
            BY <1>1, <2>1, <2>2, LogAppend
        <3> QED
            BY <3>1
    <2>7. flushed <= flushed'
        BY <1>1, <2>1
    <2> QED
        BY <2>4, <2>5, <2>6, <2>7
<1>3. ASSUME NEW x \in Xids, InsertCommit(x) PROVE Goal
    <2> DEFINE r == [type |-> "commit", xid |-> x]
    <2>1. r \in Records /\ wal' = Append(wal, r) /\ flushed' = flushed
        BY <1>3, Inserted DEF InsertCommit
    <2>2. r.type = "commit" /\ r.xid = x
        OBVIOUS
    <2> HIDE DEF r
    <2>3. /\ Len(wal') = Len(wal) + 1 /\ \A i \in 1 .. Len(wal) : wal'[i] = wal[i]
          /\ wal' \in Seq(Records)
        BY <1>1, <2>1, LogAppend
    <2>4. Len(wal) <= Len(wal') /\ \A i \in DOMAIN wal : i \in DOMAIN wal' /\ wal'[i] = wal[i]
        BY <1>1, <2>3
    <2>5. ASSUME NEW p \in Pages
          PROVE  /\ Rows(p) \subseteq Rows(p)' /\ \A i \in Rows(p)' \ Rows(p) : i = curInsert
                 /\ (\A y \in Xids : InsertRow(y) => PageOf[y] # p) => Rows(p)' = Rows(p)
        <3>1. Rows(p)' = Rows(p) \cup {i \in {curInsert} : FALSE}
            BY <1>1, <2>1, <2>2, LogAppend
        <3> QED
            BY <3>1
    <2>6. ASSUME NEW y \in Xids
          PROVE  /\ Commits(y) \subseteq Commits(y)'
                 /\ \A i \in Commits(y)' \ Commits(y) : i = curInsert
                 /\ ~InsertCommit(y) => Commits(y)' = Commits(y)
        <3>1. Commits(y)' = Commits(y) \cup {i \in {curInsert} : y = x}
            BY <1>1, <2>1, <2>2, LogAppend
        <3> QED
            BY <1>3, <3>1
    <2>7. flushed <= flushed'
        BY <1>1, <2>1
    <2> QED
        BY <2>4, <2>5, <2>6, <2>7
<1>4. ASSUME InsertCheckpoint PROVE Goal
    <2> DEFINE r == [type |-> "checkpoint", xid |-> NoXid]
    <2>1. r \in Records /\ wal' = Append(wal, r) /\ flushed' = flushed
        BY <1>4, Inserted DEF InsertCheckpoint
    <2>2. r.type = "checkpoint"
        OBVIOUS
    <2> HIDE DEF r
    <2>3. /\ Len(wal') = Len(wal) + 1 /\ \A i \in 1 .. Len(wal) : wal'[i] = wal[i]
          /\ wal' \in Seq(Records)
        BY <1>1, <2>1, LogAppend
    <2>4. Len(wal) <= Len(wal') /\ \A i \in DOMAIN wal : i \in DOMAIN wal' /\ wal'[i] = wal[i]
        BY <1>1, <2>3
    <2>5. ASSUME NEW p \in Pages
          PROVE  /\ Rows(p) \subseteq Rows(p)' /\ \A i \in Rows(p)' \ Rows(p) : i = curInsert
                 /\ (\A y \in Xids : InsertRow(y) => PageOf[y] # p) => Rows(p)' = Rows(p)
        BY <1>1, <2>1, <2>2, LogAppend, ZenonT(60)
    <2>6. ASSUME NEW y \in Xids
          PROVE  /\ Commits(y) \subseteq Commits(y)'
                 /\ \A i \in Commits(y)' \ Commits(y) : i = curInsert
                 /\ ~InsertCommit(y) => Commits(y)' = Commits(y)
        BY <1>1, <2>1, <2>2, LogAppend, ZenonT(60)
    <2>7. flushed <= flushed'
        BY <1>1, <2>1
    <2> QED
        BY <2>4, <2>5, <2>6, <2>7
<1>5. ASSUME wal' = wal, flushed <= flushed' PROVE Goal
    BY <1>1, <1>5 DEF Rows, Commits
<1>6. \/ \E x \in Xids : InsertRow(x) \/ InsertCommit(x)
      \/ InsertCheckpoint
      \/ wal' = wal /\ (flushed' = flushed \/ FlushWal)
    BY DEF Next, Session, PageWriter, Checkpointer, vars, walVars, MarkBufferDirty, RowDone,
       StartCommit, CommitLogged, SetClog, EndCommit, SetHintBits, FlushBuffer,
       TerminateBufferIO, ckpt_move_queue_head_after_flush, FlushWal, StartSuspendWalInsert,
       RaiseQueueRecLsn, FullRedo, FirstRecLsn, Proceed, Resume, ReadQueueRecLsn,
       Recheck, FindDelaying, WaitForDelaying, CheckPointCLOG, EndClogWrite,
       CheckPointBuffers, UpdateControlFile, StartupXLOG, CheckForRestartPoint
<1>7. flushed' = flushed \/ FlushWal => flushed <= flushed'
    BY <1>1 DEF FlushWal
<1> HIDE DEF Goal
<1>8. Goal
    BY <1>2, <1>3, <1>4, <1>5, <1>6, <1>7
<1> QED
    BY <1>8 DEF Goal

-----------------------------------------------------------------------------
(* The dirty page queue                                                    *)

\* A page leaves the queue.
LEMMA Removed ==
    ASSUME queue \in Seq(Pages \cup {NoPage}), recLsn \in [Pages -> Nat],
           InOrder(queue, recLsn), NEW p \in Pages,
           NEW q, NEW rec, <<q, rec>> = remove_dirty_page_from_queue(p)
    PROVE  /\ q \in Seq(Pages \cup {NoPage}) /\ DOMAIN q = DOMAIN queue
           /\ rec \in [Pages -> Nat] /\ rec[p] = InvalidXLogRecPtr
           /\ InOrder(q, rec)
           /\ \A o \in Pages : o # p => rec[o] = recLsn[o]
           /\ \A i \in DOMAIN queue : q[i] # NoPage => q[i] = queue[i] /\ q[i] # p
<1>1. /\ q = [i \in DOMAIN queue |-> IF queue[i] = p THEN NoPage ELSE queue[i]]
      /\ rec = [recLsn EXCEPT ![p] = InvalidXLogRecPtr]
    BY DEF remove_dirty_page_from_queue
<1>2. Len(queue) \in Nat /\ DOMAIN queue = 1 .. Len(queue)
      /\ \A i \in DOMAIN queue : queue[i] \in Pages \cup {NoPage}
    OBVIOUS
<1>3. /\ q \in Seq(Pages \cup {NoPage}) /\ DOMAIN q = DOMAIN queue
      /\ \A i \in DOMAIN queue : q[i] = IF queue[i] = p THEN NoPage ELSE queue[i]
    BY <1>1, <1>2
<1>4. /\ rec \in [Pages -> Nat] /\ rec[p] = InvalidXLogRecPtr
      /\ \A o \in Pages : o # p => rec[o] = recLsn[o]
    BY <1>1 DEF InvalidXLogRecPtr
<1>5. NoPage \notin Pages
    BY RecoveryAssumption
<1>6. ASSUME NEW o \in Pages
      PROVE  rec[o] # InvalidXLogRecPtr <=> \E i \in DOMAIN q : q[i] = o
    <2>1. CASE o = p
        BY <2>1, <1>3, <1>4, <1>5
    <2>2. CASE o # p
        BY <2>2, <1>3, <1>4, <1>5 DEF InOrder
    <2> QED
        BY <2>1, <2>2
<1>7. ASSUME NEW i \in DOMAIN q, NEW j \in DOMAIN q, q[i] # NoPage, q[j] # NoPage, i < j
      PROVE  q[i] # q[j] /\ rec[q[i]] <= rec[q[j]]
    <2>1. q[i] = queue[i] /\ q[j] = queue[j] /\ q[i] \in Pages \ {p} /\ q[j] \in Pages \ {p}
        BY <1>2, <1>3, <1>7
    <2> QED
        BY <2>1, <1>3, <1>4, <1>7 DEF InOrder
<1> QED
    BY <1>3, <1>4, <1>6, <1>7 DEF InOrder

\* A page is marked dirty.
LEMMA Pushed ==
    ASSUME NEW q \in Seq(Pages \cup {NoPage}), NEW rec \in [Pages -> Nat],
           InOrder(q, rec), NEW p \in Pages, queueRecLsn \in Nat \ {0},
           \A o \in Pages : rec[o] <= queueRecLsn,
           rec[p] = InvalidXLogRecPtr \/ <<q, rec>> = <<queue, recLsn>>,
           push_pending_flush_queue(p, q, rec)
    PROVE  /\ queue' \in Seq(Pages \cup {NoPage}) /\ recLsn' \in [Pages -> Nat]
           /\ InOrder(queue', recLsn')
           /\ \A o \in Pages : recLsn'[o] = IF o = p /\ rec[p] = InvalidXLogRecPtr
                                            THEN queueRecLsn ELSE rec[o]
           /\ \A i \in DOMAIN queue' :
                 \/ i \in DOMAIN q /\ queue'[i] = q[i]
                 \/ rec[p] = InvalidXLogRecPtr /\ queue'[i] = p
<1>1. CASE rec[p] # InvalidXLogRecPtr
    BY <1>1 DEF push_pending_flush_queue
<1>2. CASE rec[p] = InvalidXLogRecPtr
    <2>1. queue' = Append(q, p) /\ recLsn' = [rec EXCEPT ![p] = queueRecLsn]
        BY <1>2 DEF push_pending_flush_queue
    <2>2. Len(q) \in Nat /\ DOMAIN q = 1 .. Len(q) /\ \A i \in DOMAIN q : q[i] \in Pages \cup {NoPage}
        OBVIOUS
    <2>3. /\ queue' \in Seq(Pages \cup {NoPage}) /\ DOMAIN queue' = 1 .. Len(q) + 1
          /\ \A i \in DOMAIN q : queue'[i] = q[i]
          /\ queue'[Len(q) + 1] = p
        BY <2>1, <2>2
    <2>4. /\ recLsn' \in [Pages -> Nat] /\ recLsn'[p] = queueRecLsn
          /\ \A o \in Pages : o # p => recLsn'[o] = rec[o]
        BY <2>1
    <2>5. \A i \in DOMAIN q : q[i] # p
        BY <1>2 DEF InOrder
    <2>6. ASSUME NEW o \in Pages
          PROVE  recLsn'[o] # InvalidXLogRecPtr <=> \E i \in DOMAIN queue' : queue'[i] = o
        <3>1. CASE o = p
            BY <3>1, <2>2, <2>3, <2>4 DEF InvalidXLogRecPtr
        <3>2. CASE o # p
            <4>1. rec[o] # InvalidXLogRecPtr <=> \E i \in DOMAIN q : q[i] = o
                BY DEF InOrder
            <4>2. \A i \in DOMAIN queue' : i \in DOMAIN q \/ i = Len(q) + 1
                BY <2>2, <2>3
            <4> QED
                BY <3>2, <4>1, <4>2, <2>2, <2>3, <2>4
        <3> QED
            BY <3>1, <3>2
    <2>7. ASSUME NEW i \in DOMAIN queue', NEW j \in DOMAIN queue', i < j,
                 queue'[i] # NoPage, queue'[j] # NoPage
          PROVE  queue'[i] # queue'[j] /\ recLsn'[queue'[i]] <= recLsn'[queue'[j]]
        <3>1. i \in DOMAIN q /\ queue'[i] = q[i] /\ q[i] \in Pages \ {p}
            BY <2>2, <2>3, <2>5, <2>7
        <3>2. CASE j = Len(q) + 1
            BY <3>1, <3>2, <2>3, <2>4
        <3>3. CASE j \in DOMAIN q
            <4>1. queue'[j] = q[j] /\ q[j] \in Pages \ {p}
                BY <3>3, <2>2, <2>3, <2>5, <2>7
            <4>2. q[i] # q[j] /\ rec[q[i]] <= rec[q[j]]
                BY <3>1, <3>3, <4>1, <2>7 DEF InOrder
            <4> QED
                BY <3>1, <4>1, <4>2, <2>4
        <3> QED
            BY <3>2, <3>3, <2>2, <2>3
    <2> QED
        BY <1>2, <2>2, <2>3, <2>4, <2>6, <2>7 DEF InOrder
<1> QED
    BY <1>1, <1>2

\* What ckpt_get_min_rec_lsn finds.
LEMMA MinRecLsn ==
    ASSUME queue \in Seq(Pages \cup {NoPage}), recLsn \in [Pages -> Nat],
           InOrder(queue, recLsn)
    PROVE  /\ ckpt_get_min_rec_lsn \in Nat
           /\ \A i \in Taken : queue[i] \in Pages /\ recLsn[queue[i]] # InvalidXLogRecPtr
           /\ ckpt_get_min_rec_lsn = InvalidXLogRecPtr => Taken = {}
           /\ ckpt_get_min_rec_lsn # InvalidXLogRecPtr =>
                 /\ \E i \in Taken : ckpt_get_min_rec_lsn = recLsn[queue[i]]
                 /\ \A i \in Taken : ckpt_get_min_rec_lsn <= recLsn[queue[i]]
<1>1. DOMAIN queue = 1 .. Len(queue) /\ Len(queue) \in Nat
      /\ \A i \in DOMAIN queue : queue[i] \in Pages \cup {NoPage}
    OBVIOUS
<1>2. Taken \in SUBSET Nat /\ Taken \subseteq DOMAIN queue
    BY <1>1 DEF Taken
<1>3. ASSUME NEW i \in Taken
      PROVE  queue[i] \in Pages /\ recLsn[queue[i]] # InvalidXLogRecPtr
    BY <1>1, <1>2 DEF Taken, InOrder
<1>4. CASE Taken = {}
    BY <1>4, <1>3 DEF ckpt_get_min_rec_lsn, InvalidXLogRecPtr
<1>5. CASE Taken # {}
    <2> DEFINE m == Min(Taken)
    <2>1. m \in Taken /\ \A i \in Taken : m <= i
        BY <1>2, <1>5, MinIsLeast
    <2>2. ckpt_get_min_rec_lsn = recLsn[queue[m]]
        BY <1>5 DEF ckpt_get_min_rec_lsn
    <2> HIDE DEF m
    <2>3. ASSUME NEW i \in Taken PROVE recLsn[queue[m]] <= recLsn[queue[i]]
        <3>1. CASE i = m
            BY <3>1, <1>3, <2>1
        <3>2. CASE i # m
            <4>1. m \in Nat /\ i \in Nat /\ m < i
                BY <3>2, <2>1, <1>2
            <4> QED
                BY <4>1, <2>1, <1>2 DEF InOrder, Taken
        <3> QED
            BY <3>1, <3>2
    <2> QED
        BY <1>3, <2>1, <2>2, <2>3
<1> QED
    BY <1>4, <1>5

\* What a crash leaves.
LEMMA CrashFacts ==
    ASSUME TypeOK, Crash
    PROVE  /\ \E end \in flushed .. curInsert : wal' = SubSeq(wal, 1, end - 1) /\ flushed' = end
           /\ disk' \in [Pages -> PageImages] /\ written' = disk' /\ buf' = disk'
           /\ \A p \in Pages : disk'[p] \in {disk[p], written[p]}
<1>1. PICK lost \in SUBSET {p \in Pages : written[p] # disk[p]} :
          disk' = [p \in Pages |-> IF p \in lost THEN disk[p] ELSE written[p]]
    BY DEF Crash
<1>2. \A p \in Pages : disk'[p] \in {disk[p], written[p]}
    BY <1>1
<1> QED
    BY <1>1, <1>2 DEF Crash, TypeOK, PageType

\* Recovery's rounding of a position.
LEMMA RecoveryRounds ==
    ASSUME control.redo \in Nat, NEW m \in Nat, NEW n \in Nat, control.redo <= m, m <= n
    PROVE  /\ ReplayedUpTo(m) \in control.redo .. m
           /\ ReplayedUpTo(m) <= ReplayedUpTo(n)
<1> DEFINE b == UpdateStep + 1
           k == m - control.redo
           l == n - control.redo
<1>1. b \in Nat /\ b > 0 /\ k \in Nat /\ l \in Nat /\ k <= l
    BY RecoveryAssumption
<1>2. /\ k % b \in Nat /\ l % b \in Nat
      /\ k - (k % b) \in 0 .. k /\ k - (k % b) <= l - (l % b)
    <2> HIDE DEF b, k, l
    <2> QED
        BY <1>1, RoundDown
<1>3. ReplayedUpTo(m) = m - (k % b) /\ ReplayedUpTo(n) = n - (l % b)
    BY DEF ReplayedUpTo
<1>4. m = control.redo + k /\ n = control.redo + l
    OBVIOUS
<1> HIDE DEF b, k, l
<1> QED
    BY <1>1, <1>2, <1>3, <1>4

\* The records of a page that are replayed.
LEMMA ToRedoFacts ==
    ASSUME wal \in Seq(Records), control.redo \in Nat \ {0}, NEW p \in Pages, disk[p].lsn \in Nat
    PROVE  /\ ToRedo(p) = {i \in Rows(p) : control.redo <= i /\ disk[p].lsn < EndOf(i)}
           /\ ToRedo(p) # {} => /\ Min(ToRedo(p)) \in ToRedo(p) /\ Max(ToRedo(p)) \in ToRedo(p)
                                /\ \A i \in ToRedo(p) : Min(ToRedo(p)) <= i /\ i <= Max(ToRedo(p))
<1>1. Len(wal) \in Nat /\ DOMAIN wal = 1 .. Len(wal)
    OBVIOUS
<1>2. ToRedo(p) = {i \in Rows(p) : control.redo <= i /\ disk[p].lsn < EndOf(i)}
    BY <1>1 DEF ToRedo, Replayed, Rows
<1>3. ToRedo(p) \in SUBSET Nat /\ \A i \in ToRedo(p) : i <= Len(wal)
    BY <1>1, <1>2 DEF Rows
<1> QED
    BY <1>1, <1>2, <1>3, MinIsLeast, MaxIsLargest

\* What recovery makes of the pages and of the queue.
LEMMA RedoFacts ==
    ASSUME TypeOK, control.redo # 0, StartupXLOG
    PROVE  /\ \A p \in Pages : ToRedo(p) = {} =>
                 buf'[p] = disk[p] /\ recLsn'[p] = InvalidXLogRecPtr
           /\ \A p \in Pages : ToRedo(p) # {} =>
                 /\ buf'[p] \in PageImages
                 /\ buf'[p].rows = disk[p].rows \cup {wal[i].xid : i \in ToRedo(p)}
                 /\ buf'[p].hints = disk[p].hints
                 /\ buf'[p].lsn = EndOf(Max(ToRedo(p)))
                 /\ recLsn'[p] = ReplayedUpTo(Larger(control.redo, Min(ToRedo(p)) - 1))
           /\ buf' \in [Pages -> PageImages] /\ recLsn' \in [Pages -> Nat]
           /\ queue' \in Seq(Pages)
           /\ \A p \in Pages : ToRedo(p) # {} <=> \E i \in DOMAIN queue' : queue'[i] = p
           /\ \A i, j \in DOMAIN queue' :
                 i < j => Min(ToRedo(queue'[i])) < Min(ToRedo(queue'[j]))
<1> DEFINE dirty == {p \in Pages : ToRedo(p) # {}}
           lsn(p) == ReplayedUpTo(Larger(control.redo, Min(ToRedo(p)) - 1))
           page(p) == [disk[p] EXCEPT !.rows = @ \cup {wal[i].xid : i \in ToRedo(p)},
                                      !.lsn = EndOf(Max(ToRedo(p)))]
<1>1. /\ buf' = [p \in Pages |-> IF p \notin dirty THEN disk[p] ELSE page(p)]
      /\ recLsn' = [p \in Pages |-> IF p \notin dirty THEN InvalidXLogRecPtr ELSE lsn(p)]
    BY DEF StartupXLOG
<1>2. PICK order \in [1 .. Cardinality(dirty) -> dirty] :
          /\ queue' = order
          /\ \A p \in dirty : \E i \in DOMAIN order : order[i] = p
          /\ \A i, j \in DOMAIN order : i < j => Min(ToRedo(order[i])) < Min(ToRedo(order[j]))
    BY DEF StartupXLOG
<1>3. ASSUME NEW p \in Pages
      PROVE  /\ disk[p] \in PageImages /\ disk[p].lsn \in Nat
             /\ control.redo \in Nat \ {0} /\ wal \in Seq(Records)
    BY DEF TypeOK, PageType, PageImages, ServerType, LogType
<1>4. ASSUME NEW p \in Pages, ToRedo(p) # {}
      PROVE  /\ {wal[i].xid : i \in ToRedo(p)} \subseteq Xids
             /\ EndOf(Max(ToRedo(p))) \in Nat
             /\ Min(ToRedo(p)) \in Nat /\ Min(ToRedo(p)) > 0
    <2>1. \A i \in ToRedo(p) : i \in 1 .. Len(wal) /\ wal[i].xid \in Xids
        BY <1>3, LogTypes, ToRedoFacts
    <2>2. Min(ToRedo(p)) \in ToRedo(p) /\ Max(ToRedo(p)) \in ToRedo(p)
        BY <1>3, <1>4, ToRedoFacts
    <2>3. Len(wal) \in Nat
        BY <1>3
    <2> QED
        BY <2>1, <2>2, <2>3 DEF EndOf
<1>5. ASSUME NEW p \in Pages, ToRedo(p) # {}
      PROVE  /\ page(p) \in PageImages
             /\ page(p).rows = disk[p].rows \cup {wal[i].xid : i \in ToRedo(p)}
             /\ page(p).hints = disk[p].hints
             /\ page(p).lsn = EndOf(Max(ToRedo(p)))
    <2> DEFINE xs == {wal[i].xid : i \in ToRedo(p)}
               e == EndOf(Max(ToRedo(p)))
    <2>1. xs \subseteq Xids /\ e \in Nat
        BY <1>4, <1>5
    <2> HIDE DEF xs, e
    <2>2. /\ [disk[p] EXCEPT !.rows = @ \cup xs, !.lsn = e] \in PageImages
          /\ [disk[p] EXCEPT !.rows = @ \cup xs, !.lsn = e].rows = disk[p].rows \cup xs
          /\ [disk[p] EXCEPT !.rows = @ \cup xs, !.lsn = e].hints = disk[p].hints
          /\ [disk[p] EXCEPT !.rows = @ \cup xs, !.lsn = e].lsn = e
        BY <1>3, <2>1 DEF PageImages
    <2> QED
        BY <2>2 DEF xs, e
<1>6. ASSUME NEW p \in Pages, ToRedo(p) # {}
      PROVE  lsn(p) \in Nat
    <2> DEFINE m == Larger(control.redo, Min(ToRedo(p)) - 1)
    <2>1. m \in Nat /\ control.redo <= m /\ control.redo \in Nat
        BY <1>3, <1>4, <1>6 DEF Larger
    <2> HIDE DEF m
    <2>2. ReplayedUpTo(m) \in control.redo .. m
        BY <2>1, RecoveryRounds
    <2>3. ReplayedUpTo(m) \in Nat
        BY <2>1, <2>2
    <2> QED
        BY <2>3 DEF m
<1> HIDE DEF lsn, page
<1>7. buf' \in [Pages -> PageImages] /\ recLsn' \in [Pages -> Nat]
    BY <1>1, <1>3, <1>5, <1>6 DEF InvalidXLogRecPtr
<1>8. queue' \in Seq(Pages)
    <2>1. IsFiniteSet(dirty)
        BY RecoveryAssumption, FS_Subset
    <2>2. Cardinality(dirty) \in Nat
        BY <2>1, FS_CardinalityType
    <2> DEFINE n == Cardinality(dirty)
    <2>3. order \in [1 .. n -> Pages]
        BY <1>2
    <2> HIDE DEF n
    <2>4. n \in Nat
        BY <2>2 DEF n
    <2> QED
        BY <1>2, <2>3, <2>4
<1>9. \A p \in Pages : ToRedo(p) # {} <=> \E i \in DOMAIN queue' : queue'[i] = p
    BY <1>2
<1> QED
    BY <1>1, <1>2, <1>5, <1>7, <1>8, <1>9 DEF lsn
-----------------------------------------------------------------------------
(* Types                                                                   *)

\* The types of variables that stay as they are.
LEMMA TypeFrame ==
    /\ LogType /\ UNCHANGED walVars => LogType'
    /\ PageType /\ UNCHANGED pageVars => PageType'
    /\ QueueType /\ UNCHANGED <<queueVars, wal>> => QueueType'
    /\ ClogType /\ UNCHANGED <<clogVars, wal>> => ClogType'
    /\ XactType /\ UNCHANGED <<xactVars, wal>> => XactType'
    /\ CkptType /\ UNCHANGED ckpt => CkptType'
    /\ ServerType /\ UNCHANGED serverVars => ServerType'
<1>1. LogType /\ UNCHANGED walVars => LogType'
    BY DEF LogType, walVars, curInsert
<1>2. PageType /\ UNCHANGED pageVars => PageType'
    BY DEF PageType, pageVars
<1>3. QueueType /\ UNCHANGED <<queueVars, wal>> => QueueType'
    BY DEF QueueType, queueVars, curInsert
<1>4. ClogType /\ UNCHANGED <<clogVars, wal>> => ClogType'
    BY DEF ClogType, clogVars, curInsert
<1>5. XactType /\ UNCHANGED <<xactVars, wal>> => XactType'
    BY DEF XactType, xactVars
<1>6. CkptType /\ UNCHANGED ckpt => CkptType'
    BY DEF CkptType
<1>7. ServerType /\ UNCHANGED serverVars => ServerType'
    BY DEF ServerType, serverVars
<1> QED
    BY <1>1, <1>2, <1>3, <1>4, <1>5, <1>6, <1>7

\* The log keeps its type ...
LEMMA LogTypeStep ==
    ASSUME IInv, [Next]_vars
    PROVE  LogType'
<1> USE DEF IInv, TypeOK
<1>1. ASSUME NEW x \in Xids, InsertRow(x) PROVE LogType'
    BY RecoveryAssumption, <1>1 DEF LogType, Records, curInsert, InsertRow, queueVars,
       clogVars, serverVars
<1>2. ASSUME NEW x \in Xids, InsertCommit(x) PROVE LogType'
    BY RecoveryAssumption, <1>2 DEF LogType, Records, curInsert, InsertCommit, pageVars,
       queueVars, clogVars, serverVars
<1>3. CASE FlushWal
    BY <1>3 DEF LogType, Records, curInsert, FlushWal, pageVars, queueVars, clogVars, xactVars,
       serverVars
<1>4. CASE StartSuspendWalInsert
    BY <1>4 DEF LogType, Records, curInsert, StartSuspendWalInsert, pageVars, queueVars,
       clogVars, xactVars
<1>5. CASE FullRedo
    BY <1>5 DEF LogType, Records, curInsert, FullRedo, Resume, StopSuspendWalInsert, pageVars,
       queueVars, clogVars, xactVars, serverVars
<1>6. CASE FirstRecLsn
    BY <1>6 DEF LogType, Records, curInsert, FirstRecLsn, Proceed, Resume,
       StopSuspendWalInsert, CkptGoto, walVars, pageVars, queueVars, clogVars, xactVars,
       serverVars
<1>7. CASE Recheck
    BY <1>7 DEF LogType, Records, curInsert, Recheck, Proceed, Resume, StopSuspendWalInsert,
       pageVars, queueVars, clogVars, xactVars, serverVars
<1>8. CASE InsertCheckpoint
    BY RecoveryAssumption, <1>8 DEF LogType, Records, curInsert, InsertCheckpoint,
       update_dirty_page_queue_rec_lsn, pageVars, clogVars, xactVars, serverVars
<1>9. CASE Crash
    <2>1. PICK end \in flushed .. curInsert : wal' = SubSeq(wal, 1, end - 1) /\ flushed' = end
        BY <1>9, CrashFacts
    <2>2. wal \in Seq(Records) /\ end \in 1 .. curInsert
        BY DEF LogType, curInsert
    <2>3. wal' \in Seq(Records) /\ Len(wal') = end - 1
        BY <2>1, <2>2, LogCut
    <2>4. flushed' \in 1 .. curInsert'
        BY <2>1, <2>2, <2>3 DEF curInsert
    <2>5. suspended' = FALSE
        BY <1>9 DEF Crash
    <2> QED
        BY <2>3, <2>4, <2>5 DEF LogType
<1>10. CASE UNCHANGED <<walVars>>
    BY <1>10, TypeFrame
<1> QED
    BY <1>1, <1>2, <1>3, <1>4, <1>5, <1>6, <1>7, <1>8, <1>9, <1>10
    DEF Next, Session, PageWriter, Checkpointer, vars, walVars, pageVars, queueVars, clogVars,
       xactVars, serverVars, MarkBufferDirty, RowDone, update_dirty_page_queue_rec_lsn,
       StartCommit, CommitLogged, SetClog, EndCommit, SetHintBits, FlushBuffer,
       TerminateBufferIO, ckpt_move_queue_head_after_flush, RaiseQueueRecLsn, CkptGoto,
       ReadQueueRecLsn, FindDelaying, GetVirtualXIDsDelayingChkpt, WaitForDelaying,
       CheckPointCLOG, EndClogWrite, CheckPointBuffers, UpdateControlFile, StartupXLOG,
       CheckForRestartPoint

\* ... and so do the pages,
LEMMA PageTypeStep ==
    ASSUME IInv, [Next]_vars
    PROVE  PageType'
<1> USE DEF IInv, TypeOK
<1>1. ASSUME NEW x \in Xids, MarkBufferDirty(x) PROVE PageType'
    BY RecoveryAssumption, <1>1 DEF PageType, PageImages, EndOf, curInsert, NoRows,
       MarkBufferDirty, walVars, clogVars, serverVars
<1>2. ASSUME NEW x \in Xids, InsertRow(x) PROVE PageType'
    <2> DEFINE image == [buf[PageOf[x]] EXCEPT !.rows = @ \cup {x}, !.lsn = EndOf(curInsert)]
    <2>1. PageOf[x] \in Pages /\ EndOf(curInsert) \in Nat
        BY RecoveryAssumption DEF LogType, curInsert, EndOf
    <2>2. buf' = [buf EXCEPT ![PageOf[x]] = image]
        BY <1>2 DEF InsertRow
    <2>3. buf[PageOf[x]] \in PageImages
        BY <2>1 DEF PageType
    <2>4. image \in PageImages
        BY <2>1, <2>3 DEF PageImages
    <2> HIDE DEF image
    <2>5. buf' \in [Pages -> PageImages]
        BY <2>1, <2>2, <2>4 DEF PageType
    <2> QED
        BY <1>2, <2>5 DEF PageType, InsertRow
<1>3. ASSUME NEW x \in Xids, RowDone(x) PROVE PageType'
    BY RecoveryAssumption, <1>3 DEF PageType, PageImages, EndOf, curInsert, NoRows, RowDone,
       update_dirty_page_queue_rec_lsn, walVars, clogVars, serverVars
<1>4. ASSUME NEW x \in Xids, SetHintBits(x) PROVE PageType'
    <2> DEFINE image == [buf[PageOf[x]] EXCEPT !.hints = @ \cup {x}]
    <2>1. PageOf[x] \in Pages
        BY RecoveryAssumption
    <2>2. buf' = [buf EXCEPT ![PageOf[x]] = image]
        BY <1>4 DEF SetHintBits
    <2>3. image \in PageImages
        BY <2>1, ZenonT(60) DEF PageType, PageImages
    <2> HIDE DEF image
    <2>4. buf' \in [Pages -> PageImages]
        BY <2>1, <2>2, <2>3 DEF PageType
    <2> QED
        BY <1>4, <2>4 DEF PageType, SetHintBits
<1>5. ASSUME NEW p \in Pages, FlushBuffer(p) PROVE PageType'
    BY <1>5 DEF PageType, PageImages, EndOf, curInsert, NoRows, FlushBuffer, walVars, clogVars,
       xactVars, serverVars
<1>6. ASSUME NEW p \in Pages, TerminateBufferIO(p) PROVE PageType'
    BY <1>6 DEF PageType, PageImages, EndOf, curInsert, NoRows, TerminateBufferIO, walVars,
       clogVars, xactVars, serverVars
<1>7. CASE CheckPointBuffers
    BY <1>7 DEF PageType, PageImages, EndOf, curInsert, NoRows, CheckPointBuffers, CkptGoto,
       walVars, queueVars, clogVars, xactVars, serverVars
<1>8. CASE Crash
    BY RecoveryAssumption, <1>8 DEF PageType, PageImages, EndOf, curInsert, NoRows, Crash
<1>9. CASE StartupXLOG
    <2>1. control.redo # 0
        BY DEF ControlInv
    <2> QED
        BY <1>9, <2>1, RedoFacts DEF PageType, StartupXLOG
<1>10. CASE UNCHANGED <<pageVars>>
    BY <1>10, TypeFrame
<1> QED
    BY <1>1, <1>2, <1>3, <1>4, <1>5, <1>6, <1>7, <1>8, <1>9, <1>10
    DEF Next, Session, PageWriter, Checkpointer, vars, walVars, pageVars, queueVars, clogVars,
       xactVars, serverVars, StartCommit, InsertCommit, CommitLogged,
       update_dirty_page_queue_rec_lsn, SetClog, EndCommit, ckpt_move_queue_head_after_flush,
       FlushWal, StartSuspendWalInsert, RaiseQueueRecLsn, CkptGoto, FullRedo, Resume,
       StopSuspendWalInsert, FirstRecLsn, Proceed, ReadQueueRecLsn, Recheck,
       FindDelaying, GetVirtualXIDsDelayingChkpt, WaitForDelaying, CheckPointCLOG,
       EndClogWrite, InsertCheckpoint, UpdateControlFile, CheckForRestartPoint

\* A page is marked dirty, or its write ends: what becomes of the queue.
LEMMA DirtyStep ==
    ASSUME IInv, NEW p \in Pages,
           \/ Up /\ push_pending_flush_queue(p, queue, recLsn)
           \/ TerminateBufferIO(p)
    PROVE  /\ queue' \in Seq(Pages \cup {NoPage}) /\ recLsn' \in [Pages -> Nat]
           /\ InOrder(queue', recLsn')
           /\ \A o \in Pages : o # p => recLsn'[o] = recLsn[o]
           /\ recLsn'[p] \in {recLsn[p], queueRecLsn, InvalidXLogRecPtr}
           /\ ~TerminateBufferIO(p) =>
                 /\ recLsn'[p] # InvalidXLogRecPtr
                 /\ recLsn[p] # InvalidXLogRecPtr => recLsn'[p] = recLsn[p]
           /\ \A i \in Taken' :
                 \/ /\ i \in Taken /\ queue'[i] = queue[i]
                    /\ recLsn'[queue'[i]] = recLsn[queue[i]]
                 \/ recLsn'[queue'[i]] = queueRecLsn
<1>1. /\ queue \in Seq(Pages \cup {NoPage}) /\ recLsn \in [Pages -> Nat]
      /\ InOrder(queue, recLsn) /\ \A o \in Pages : recLsn[o] <= queueRecLsn
    BY DEF IInv, TypeOK, QueueType, QueueInv
<1>2. TerminateBufferIO(p) => Up
    BY DEF IInv, DownInv, Up, TerminateBufferIO
<1>3. queueRecLsn \in Nat \ {0}
    BY <1>2 DEF IInv, TypeOK, LogType, QueueType, QueueInv, ControlInv, curInsert
<1>4. CASE push_pending_flush_queue(p, queue, recLsn)
    <2>1. /\ queue' \in Seq(Pages \cup {NoPage}) /\ recLsn' \in [Pages -> Nat]
          /\ InOrder(queue', recLsn')
          /\ \A o \in Pages : recLsn'[o] = IF o = p /\ recLsn[p] = InvalidXLogRecPtr
                                           THEN queueRecLsn ELSE recLsn[o]
          /\ \A i \in DOMAIN queue' :
                \/ i \in DOMAIN queue /\ queue'[i] = queue[i]
                \/ recLsn[p] = InvalidXLogRecPtr /\ queue'[i] = p
        BY <1>1, <1>3, <1>4, Pushed
    <2>2. \A o \in Pages : o # p => recLsn'[o] = recLsn[o]
        BY <2>1
    <2>3. /\ recLsn'[p] \in {recLsn[p], queueRecLsn} /\ recLsn'[p] # InvalidXLogRecPtr
          /\ recLsn[p] # InvalidXLogRecPtr => recLsn'[p] = recLsn[p]
        BY <2>1, <1>3 DEF InvalidXLogRecPtr
    <2>4. ASSUME NEW i \in Taken'
          PROVE  \/ /\ i \in Taken /\ queue'[i] = queue[i]
                    /\ recLsn'[queue'[i]] = recLsn[queue[i]]
                 \/ recLsn'[queue'[i]] = queueRecLsn
        <3>1. i \in DOMAIN queue' /\ queue'[i] # NoPage
            BY DEF Taken
        <3>2. CASE i \in DOMAIN queue /\ queue'[i] = queue[i]
            <4>1. i \in Taken /\ queue[i] \in Pages
                BY <3>1, <3>2, <1>1 DEF Taken
            <4> QED
                BY <3>2, <4>1, <2>1
        <3>3. CASE recLsn[p] = InvalidXLogRecPtr /\ queue'[i] = p
            BY <3>3, <2>1
        <3> QED
            BY <2>1, <3>1, <3>2, <3>3
    <2> QED
        BY <2>1, <2>2, <2>3, <2>4
<1>5. CASE TerminateBufferIO(p)
    <2> DEFINE q == remove_dirty_page_from_queue(p)[1]
               rec == remove_dirty_page_from_queue(p)[2]
    <2>1. <<q, rec>> = remove_dirty_page_from_queue(p)
        BY DEF remove_dirty_page_from_queue
    <2>2. \/ push_pending_flush_queue(p, q, rec)
          \/ queue' = q /\ recLsn' = rec
        BY <1>5 DEF TerminateBufferIO
    <2> HIDE DEF q, rec
    <2>3. /\ q \in Seq(Pages \cup {NoPage}) /\ DOMAIN q = DOMAIN queue
          /\ rec \in [Pages -> Nat] /\ rec[p] = InvalidXLogRecPtr
          /\ InOrder(q, rec)
          /\ \A o \in Pages : o # p => rec[o] = recLsn[o]
          /\ \A i \in DOMAIN queue : q[i] # NoPage => q[i] = queue[i] /\ q[i] # p
        BY <1>1, <2>1, Removed
    <2>4. ASSUME NEW o \in Pages PROVE rec[o] <= queueRecLsn
        <3>1. CASE o = p
            BY <1>3, <2>3, <3>1 DEF InvalidXLogRecPtr
        <3>2. CASE o # p
            BY <1>1, <2>3, <3>2
        <3> QED
            BY <3>1, <3>2
    <2>5. /\ queue' \in Seq(Pages \cup {NoPage}) /\ recLsn' \in [Pages -> Nat]
          /\ InOrder(queue', recLsn')
          /\ \A o \in Pages : o # p => recLsn'[o] = rec[o]
          /\ recLsn'[p] \in {queueRecLsn, InvalidXLogRecPtr}
          /\ \A i \in DOMAIN queue' :
                \/ i \in DOMAIN q /\ queue'[i] = q[i]
                \/ recLsn'[p] = queueRecLsn /\ queue'[i] = p
        <3>1. CASE push_pending_flush_queue(p, q, rec)
            <4>1. /\ queue' \in Seq(Pages \cup {NoPage}) /\ recLsn' \in [Pages -> Nat]
                  /\ InOrder(queue', recLsn')
                  /\ \A o \in Pages : recLsn'[o] = IF o = p /\ rec[p] = InvalidXLogRecPtr
                                                   THEN queueRecLsn ELSE rec[o]
                  /\ \A i \in DOMAIN queue' :
                        \/ i \in DOMAIN q /\ queue'[i] = q[i]
                        \/ rec[p] = InvalidXLogRecPtr /\ queue'[i] = p
                BY <1>3, <2>3, <2>4, <3>1, Pushed
            <4> QED
                BY <4>1, <2>3
        <3>2. CASE queue' = q /\ recLsn' = rec
            BY <3>2, <2>3
        <3> QED
            BY <2>2, <3>1, <3>2
    <2>6. ASSUME NEW i \in Taken'
          PROVE  \/ /\ i \in Taken /\ queue'[i] = queue[i]
                    /\ recLsn'[queue'[i]] = recLsn[queue[i]]
                 \/ recLsn'[queue'[i]] = queueRecLsn
        <3>1. i \in DOMAIN queue' /\ queue'[i] # NoPage
            BY DEF Taken
        <3>2. CASE i \in DOMAIN q /\ queue'[i] = q[i]
            <4>1. i \in Taken /\ queue[i] \in Pages \ {p} /\ q[i] = queue[i]
                BY <3>1, <3>2, <1>1, <2>3 DEF Taken
            <4> QED
                BY <3>2, <4>1, <2>3, <2>5
        <3>3. CASE recLsn'[p] = queueRecLsn /\ queue'[i] = p
            BY <3>3
        <3> QED
            BY <2>5, <3>1, <3>2, <3>3
    <2> QED
        BY <1>5, <2>3, <2>5, <2>6
<1> QED
    BY <1>4, <1>5

\* ... the dirty page queue,
LEMMA QueueTypeStep ==
    ASSUME IInv, [Next]_vars
    PROVE  QueueType'
<1> USE DEF IInv, TypeOK
<1>1. ASSUME NEW x \in Xids, MarkBufferDirty(x) PROVE QueueType'
    <2>1. PageOf[x] \in Pages /\ Up /\ push_pending_flush_queue(PageOf[x], queue, recLsn)
        BY <1>1, RecoveryAssumption DEF MarkBufferDirty, InFirstRun, Up
    <2>2. queue' \in Seq(Pages \cup {NoPage}) /\ recLsn' \in [Pages -> Nat]
        BY <2>1, DirtyStep
    <2> QED
        BY <1>1, <2>1, <2>2 DEF QueueType, curInsert, MarkBufferDirty, walVars
<1>2. ASSUME NEW x \in Xids, InsertRow(x) PROVE QueueType'
    BY RecoveryAssumption, <1>2 DEF QueueType, curInsert, Larger, InvalidXLogRecPtr, InsertRow,
       queueVars, clogVars, serverVars
<1>3. ASSUME NEW x \in Xids, RowDone(x) PROVE QueueType'
    BY <1>3 DEF QueueType, LogType, XactType, curInsert, RowDone,
       update_dirty_page_queue_rec_lsn, walVars
<1>4. ASSUME NEW x \in Xids, InsertCommit(x) PROVE QueueType'
    BY RecoveryAssumption, <1>4 DEF QueueType, curInsert, Larger, InvalidXLogRecPtr,
       InsertCommit, pageVars, queueVars, clogVars, serverVars
<1>5. ASSUME NEW x \in Xids, CommitLogged(x) PROVE QueueType'
    BY <1>5 DEF QueueType, LogType, XactType, curInsert, CommitLogged,
       update_dirty_page_queue_rec_lsn, walVars
<1>6. ASSUME NEW x \in Xids, SetHintBits(x) PROVE QueueType'
    <2>1. PageOf[x] \in Pages /\ Up /\ push_pending_flush_queue(PageOf[x], queue, recLsn)
        BY <1>6, RecoveryAssumption DEF SetHintBits, InFirstRun, Up
    <2>2. queue' \in Seq(Pages \cup {NoPage}) /\ recLsn' \in [Pages -> Nat]
        BY <2>1, DirtyStep
    <2> QED
        BY <1>6, <2>1, <2>2 DEF QueueType, curInsert, SetHintBits, walVars
<1>7. ASSUME NEW p \in Pages, FlushBuffer(p) PROVE QueueType'
    BY <1>7 DEF QueueType, curInsert, Larger, InvalidXLogRecPtr, FlushBuffer, walVars,
       clogVars, xactVars, serverVars
<1>8. ASSUME NEW p \in Pages, TerminateBufferIO(p) PROVE QueueType'
    <2>1. queue' \in Seq(Pages \cup {NoPage}) /\ recLsn' \in [Pages -> Nat]
        BY <1>8, DirtyStep
    <2> QED
        BY <1>8, <2>1 DEF QueueType, curInsert, TerminateBufferIO, walVars
<1>9. CASE ckpt_move_queue_head_after_flush
    BY <1>9 DEF QueueType, curInsert, Larger, InvalidXLogRecPtr,
       ckpt_move_queue_head_after_flush, walVars, pageVars, clogVars, xactVars, serverVars
<1>10. CASE RaiseQueueRecLsn
    BY <1>10 DEF QueueType, curInsert, Larger, InvalidXLogRecPtr, RaiseQueueRecLsn, CkptGoto,
       walVars, pageVars, clogVars, xactVars, serverVars
<1>11. CASE InsertCheckpoint
    BY RecoveryAssumption, <1>11 DEF QueueType, curInsert, Larger, InvalidXLogRecPtr,
       InsertCheckpoint, update_dirty_page_queue_rec_lsn, pageVars, clogVars, xactVars,
       serverVars
<1>12. CASE Crash
    BY RecoveryAssumption, <1>12 DEF QueueType, curInsert, Larger, InvalidXLogRecPtr, Crash
<1>13. CASE StartupXLOG
    <2>1. queue' \in Seq(Pages) /\ recLsn' \in [Pages -> Nat]
        BY <1>13, RedoFacts DEF ControlInv
    <2>2. queueRecLsn' \in 0 .. curInsert
        <3> DEFINE m == Larger(control.redo, Len(wal))
        <3>1. /\ m \in Nat /\ control.redo \in Nat /\ control.redo <= m
              /\ m <= curInsert /\ curInsert \in Nat
            BY DEF ControlInv, LogType, curInsert, Larger
        <3> HIDE DEF m
        <3>2. ReplayedUpTo(m) \in control.redo .. m
            BY <3>1, RecoveryRounds
        <3>3. queueRecLsn' = ReplayedUpTo(m)
            BY <1>13 DEF StartupXLOG, m
        <3> QED
            BY <3>1, <3>2, <3>3
    <2>3. justDirtied' \subseteq Pages /\ curInsert' = curInsert
        BY <1>13 DEF StartupXLOG, curInsert, walVars
    <2>4. queue' \in Seq(Pages \cup {NoPage})
        BY <2>1
    <2> QED
        BY <2>1, <2>2, <2>3, <2>4 DEF QueueType
<1>14. CASE UNCHANGED <<queueVars, wal>>
    BY <1>14, TypeFrame
<1> QED
    BY <1>1, <1>2, <1>3, <1>4, <1>5, <1>6, <1>7, <1>8, <1>9, <1>10, <1>11, <1>12, <1>13, <1>14
    DEF Next, Session, PageWriter, Checkpointer, vars, walVars, pageVars, queueVars, clogVars,
       xactVars, serverVars, StartCommit, SetClog, EndCommit, FlushWal, StartSuspendWalInsert,
       FullRedo, Resume, StopSuspendWalInsert, FirstRecLsn, Proceed, CkptGoto,
       ReadQueueRecLsn, Recheck, FindDelaying, GetVirtualXIDsDelayingChkpt, WaitForDelaying,
       CheckPointCLOG, EndClogWrite, CheckPointBuffers, UpdateControlFile, CheckForRestartPoint

\* ... the commit log,
LEMMA ClogTypeStep ==
    ASSUME IInv, [Next]_vars
    PROVE  ClogType'
<1> USE DEF IInv, TypeOK
<1>1. ASSUME NEW x \in Xids, InsertRow(x) PROVE ClogType'
    BY RecoveryAssumption, <1>1 DEF ClogType, curInsert, Larger, EndOf, InvalidXLogRecPtr,
       NoWrite, InsertRow, queueVars, clogVars, serverVars
<1>2. ASSUME NEW x \in Xids, InsertCommit(x) PROVE ClogType'
    BY RecoveryAssumption, <1>2 DEF ClogType, curInsert, Larger, EndOf, InvalidXLogRecPtr,
       NoWrite, InsertCommit, pageVars, queueVars, clogVars, serverVars
<1>3. ASSUME NEW x \in Xids, SetClog(x) PROVE ClogType'
    <2>1. start[x] \in 0 .. Len(wal) /\ Len(wal) \in Nat
        BY DEF XactType, LogType
    <2> QED
        BY <1>3, <2>1 DEF ClogType, curInsert, Larger, EndOf, SetClog, walVars
<1>4. CASE CheckPointCLOG
    <2>1. clogWrite' \in [on : BOOLEAN, image : SUBSET Xids] /\ clogDirty' \in BOOLEAN
        <3>1. CASE clogDirty
            <4>1. clogWrite' = [on |-> TRUE, image |-> clog] /\ clogDirty' = FALSE
                BY <1>4, <3>1 DEF CheckPointCLOG
            <4> QED
                BY <4>1 DEF ClogType
        <3>2. CASE ~clogDirty
            BY <1>4, <3>2 DEF ClogType, CheckPointCLOG
        <3> QED
            BY <3>1, <3>2
    <2> QED
        BY <1>4, <2>1 DEF ClogType, curInsert, CheckPointCLOG, walVars
<1>5. CASE EndClogWrite
    BY <1>5 DEF ClogType, curInsert, Larger, EndOf, InvalidXLogRecPtr, NoWrite, EndClogWrite,
       CkptGoto, walVars, pageVars, queueVars, xactVars, serverVars
<1>6. CASE InsertCheckpoint
    BY RecoveryAssumption, <1>6 DEF ClogType, curInsert, Larger, EndOf, InvalidXLogRecPtr,
       NoWrite, InsertCheckpoint, update_dirty_page_queue_rec_lsn, pageVars, clogVars,
       xactVars, serverVars
<1>7. CASE Crash
    <2>1. LogType'
        BY LogTypeStep
    <2>2. curInsert' \in Nat
        BY <2>1 DEF LogType, curInsert
    <2>3. 0 \in 0 .. curInsert'
        BY <2>2
    <2> QED
        BY <1>7, <2>3 DEF ClogType, InvalidXLogRecPtr, NoWrite, Crash
<1>8. CASE StartupXLOG
    <2>1. {wal[i].xid : i \in Replayed("commit")} \subseteq Xids
        BY LogTypes DEF LogType, ControlInv, Replayed, Records
    <2> QED
        BY <1>8, <2>1 DEF ClogType, curInsert, StartupXLOG, walVars
<1>9. CASE UNCHANGED <<clogVars, wal>>
    BY <1>9, TypeFrame
<1> QED
    BY <1>1, <1>2, <1>3, <1>4, <1>5, <1>6, <1>7, <1>8, <1>9
    DEF Next, Session, PageWriter, Checkpointer, vars, walVars, pageVars, queueVars, clogVars,
       xactVars, serverVars, MarkBufferDirty, RowDone, update_dirty_page_queue_rec_lsn,
       StartCommit, CommitLogged, EndCommit, SetHintBits, FlushBuffer, TerminateBufferIO,
       ckpt_move_queue_head_after_flush, FlushWal, StartSuspendWalInsert, RaiseQueueRecLsn,
       CkptGoto, FullRedo, Resume, StopSuspendWalInsert, FirstRecLsn, Proceed,
       ReadQueueRecLsn, Recheck, FindDelaying, GetVirtualXIDsDelayingChkpt, WaitForDelaying,
       CheckPointBuffers, UpdateControlFile, CheckForRestartPoint

\* ... the transactions,
LEMMA XactTypeStep ==
    ASSUME IInv, [Next]_vars
    PROVE  XactType'
<1> USE DEF IInv, TypeOK
<1>1. ASSUME NEW x \in Xids, MarkBufferDirty(x) PROVE XactType'
    BY RecoveryAssumption, <1>1 DEF XactType, curInsert, Labels, Goto, InvalidXLogRecPtr,
       MarkBufferDirty, walVars, clogVars, serverVars
<1>2. ASSUME NEW x \in Xids, InsertRow(x) PROVE XactType'
    BY RecoveryAssumption, <1>2 DEF XactType, curInsert, Labels, Goto, InvalidXLogRecPtr,
       InsertRow, queueVars, clogVars, serverVars
<1>3. ASSUME NEW x \in Xids, RowDone(x) PROVE XactType'
    BY RecoveryAssumption, <1>3 DEF XactType, curInsert, Labels, Goto, InvalidXLogRecPtr,
       RowDone, update_dirty_page_queue_rec_lsn, walVars, clogVars, serverVars
<1>4. ASSUME NEW x \in Xids, StartCommit(x) PROVE XactType'
    BY RecoveryAssumption, <1>4 DEF XactType, curInsert, Labels, Goto, InvalidXLogRecPtr,
       StartCommit, walVars, pageVars, queueVars, clogVars, serverVars
<1>5. ASSUME NEW x \in Xids, InsertCommit(x) PROVE XactType'
    BY RecoveryAssumption, <1>5 DEF XactType, curInsert, Labels, Goto, InvalidXLogRecPtr,
       InsertCommit, pageVars, queueVars, clogVars, serverVars
<1>6. ASSUME NEW x \in Xids, CommitLogged(x) PROVE XactType'
    BY RecoveryAssumption, <1>6 DEF XactType, curInsert, Labels, Goto, InvalidXLogRecPtr,
       CommitLogged, update_dirty_page_queue_rec_lsn, walVars, pageVars, clogVars, serverVars
<1>7. ASSUME NEW x \in Xids, SetClog(x) PROVE XactType'
    BY RecoveryAssumption, <1>7 DEF XactType, curInsert, Labels, Goto, InvalidXLogRecPtr,
       SetClog, walVars, pageVars, queueVars, serverVars
<1>8. ASSUME NEW x \in Xids, EndCommit(x) PROVE XactType'
    BY RecoveryAssumption, <1>8 DEF XactType, curInsert, Labels, Goto, InvalidXLogRecPtr,
       EndCommit, walVars, pageVars, queueVars, clogVars, serverVars
<1>9. CASE InsertCheckpoint
    BY RecoveryAssumption, <1>9 DEF XactType, curInsert, Labels, Goto, InvalidXLogRecPtr,
       InsertCheckpoint, update_dirty_page_queue_rec_lsn, pageVars, clogVars, xactVars,
       serverVars
<1>10. CASE Crash
    BY RecoveryAssumption, <1>10 DEF XactType, curInsert, Labels, Goto, InvalidXLogRecPtr, Crash
<1>11. CASE UNCHANGED <<xactVars, wal>>
    BY <1>11, TypeFrame
<1> QED
    BY <1>1, <1>2, <1>3, <1>4, <1>5, <1>6, <1>7, <1>8, <1>9, <1>10, <1>11
    DEF Next, Session, PageWriter, Checkpointer, vars, walVars, pageVars, queueVars, clogVars,
       xactVars, serverVars, SetHintBits, FlushBuffer, TerminateBufferIO,
       ckpt_move_queue_head_after_flush, FlushWal, StartSuspendWalInsert, RaiseQueueRecLsn,
       CkptGoto, FullRedo, Resume, StopSuspendWalInsert, FirstRecLsn, Proceed,
       ReadQueueRecLsn, Recheck, FindDelaying, GetVirtualXIDsDelayingChkpt, WaitForDelaying,
       CheckPointCLOG, EndClogWrite, CheckPointBuffers, UpdateControlFile, StartupXLOG,
       CheckForRestartPoint

\* A redo point is found, or not needed.
LEMMA ProceedFacts ==
    ASSUME CkptType, control.redo \in Nat, NEW redo \in Nat, Proceed(redo)
    PROVE  /\ CkptType'
           /\ redo = control.redo => ckpt' = NoCkpt
           /\ control.redo < redo =>
                 /\ ckpt'.at = "delaying" /\ ckpt'.redo = redo /\ ckpt'.kind = ckpt.kind
                 /\ ckpt'.toFlush = ckpt.toFlush
           /\ UNCHANGED <<wal, flushed, pageVars, queueVars, clogVars, xactVars, serverVars>>
           /\ suspended' = FALSE
<1>1. CASE redo = control.redo
    <2>1. ckpt' = NoCkpt
        BY <1>1 DEF Proceed, Resume
    <2> QED
        BY <1>1, <2>1 DEF CkptType, NoCkpt, InvalidXLogRecPtr, Proceed, Resume,
           StopSuspendWalInsert
<1>2. CASE redo < control.redo
    <2>1. ckpt' = [ckpt EXCEPT !.at = "panic"]
        BY <1>2 DEF Proceed, Resume
    <2> QED
        BY <1>2, <2>1 DEF CkptType, Proceed, Resume, StopSuspendWalInsert
<1>3. CASE control.redo < redo
    <2>1. ckpt' = [ckpt EXCEPT !.at = "delaying", !.redo = redo]
        BY <1>3 DEF Proceed, Resume
    <2> QED
        BY <1>3, <2>1 DEF CkptType, Found, Syncing, Proceed, Resume, StopSuspendWalInsert
<1>4. redo = control.redo \/ redo < control.redo \/ control.redo < redo
    OBVIOUS
<1>5. redo < control.redo => redo # control.redo /\ ~(control.redo < redo)
    OBVIOUS
<1>6. control.redo < redo => redo # control.redo
    OBVIOUS
<1> QED
    BY <1>1, <1>2, <1>3, <1>4, <1>5, <1>6, Zenon

\* ... the checkpointer
LEMMA CkptTypeStep ==
    ASSUME IInv, [Next]_vars
    PROVE  CkptType'
<1> USE DEF IInv, TypeOK
<1>1. CASE ckpt_move_queue_head_after_flush
    BY <1>1 DEF CkptType, Searching, Syncing, Found, Kinds, NoCkpt, Larger, curInsert,
       InvalidXLogRecPtr, ckpt_move_queue_head_after_flush, walVars, pageVars, clogVars,
       xactVars, serverVars
<1>2. CASE StartSuspendWalInsert
    <2>1. Head(requests) \in Kinds
        BY <1>2 DEF StartSuspendWalInsert, ServerType
    <2> QED
        BY <1>2, <2>1 DEF CkptType, Searching, StartSuspendWalInsert
<1>3. CASE RaiseQueueRecLsn
    BY <1>3 DEF CkptType, Searching, Syncing, Found, Kinds, NoCkpt, Larger, curInsert,
       InvalidXLogRecPtr, RaiseQueueRecLsn, CkptGoto, walVars, pageVars, clogVars, xactVars,
       serverVars
<1>4. CASE FullRedo
    <2>1. curInsert \in Nat /\ Len(queue) \in Nat
        BY DEF LogType, QueueType, curInsert
    <2> QED
        BY <1>4, <2>1 DEF CkptType, Found, Syncing, FullRedo, Resume
<1>5. CASE FirstRecLsn
    <2>1. ckpt_get_min_rec_lsn \in Nat
        BY MinRecLsn DEF QueueType, QueueInv
    <2>2. CASE ckpt_get_min_rec_lsn # InvalidXLogRecPtr
        BY <1>5, <2>1, <2>2, ProceedFacts DEF FirstRecLsn, ServerType
    <2>3. CASE ckpt_get_min_rec_lsn = InvalidXLogRecPtr
        BY <1>5, <2>3 DEF FirstRecLsn, CkptType, Searching, CkptGoto
    <2> QED
        BY <2>2, <2>3
<1>6. CASE ReadQueueRecLsn
    <2>1. queueRecLsn \in Nat
        BY DEF QueueType, LogType, curInsert
    <2> QED
        BY <1>6, <2>1 DEF CkptType, Searching, ReadQueueRecLsn
<1>7. CASE Recheck
    <2>1. ckpt_get_min_rec_lsn \in Nat /\ ckpt.redo \in Nat
        BY MinRecLsn DEF QueueType, QueueInv, CkptType
    <2>2. Rechecked(ckpt.redo, ckpt_get_min_rec_lsn) \in Nat
        BY <2>1 DEF Rechecked
    <2> QED
        BY <1>7, <2>2, ProceedFacts DEF Recheck, ServerType
<1>8. CASE FindDelaying
    BY <1>8 DEF CkptType, XactType, Found, Syncing, FindDelaying, GetVirtualXIDsDelayingChkpt
<1>9. CASE WaitForDelaying
    BY <1>9 DEF CkptType, Searching, Syncing, Found, Kinds, NoCkpt, Larger, curInsert,
       InvalidXLogRecPtr, WaitForDelaying, walVars, pageVars, queueVars, clogVars, xactVars,
       serverVars
<1>10. CASE CheckPointCLOG
    BY <1>10 DEF CkptType, Searching, Syncing, Found, Kinds, NoCkpt, Larger, curInsert,
       InvalidXLogRecPtr, CheckPointCLOG, CkptGoto, walVars, pageVars, queueVars, xactVars,
       serverVars
<1>11. CASE EndClogWrite
    BY <1>11 DEF CkptType, Searching, Syncing, Found, Kinds, NoCkpt, Larger, curInsert,
       InvalidXLogRecPtr, EndClogWrite, CkptGoto, walVars, pageVars, queueVars, xactVars,
       serverVars
<1>12. CASE CheckPointBuffers
    BY <1>12 DEF CkptType, Searching, Syncing, Found, Kinds, NoCkpt, Larger, curInsert,
       InvalidXLogRecPtr, CheckPointBuffers, CkptGoto, walVars, queueVars, clogVars, xactVars,
       serverVars
<1>13. CASE InsertCheckpoint
    <2>1. curInsert \in Nat
        BY DEF LogType, curInsert
    <2> QED
        BY <1>13, <2>1 DEF CkptType, Found, InsertCheckpoint
<1>14. CASE UpdateControlFile
    BY <1>14 DEF CkptType, Searching, Syncing, Found, Kinds, NoCkpt, Larger, curInsert,
       InvalidXLogRecPtr, UpdateControlFile, CkptGoto, walVars, pageVars, queueVars, clogVars,
       xactVars
<1>15. CASE Crash
    BY RecoveryAssumption, <1>15 DEF CkptType, Searching, Syncing, Found, Kinds, NoCkpt,
       Larger, curInsert, InvalidXLogRecPtr, Crash
<1>16. CASE UNCHANGED <<ckpt>>
    BY <1>16, TypeFrame
<1> QED
    BY <1>1, <1>2, <1>3, <1>4, <1>5, <1>6, <1>7, <1>8, <1>9, <1>10, <1>11, <1>12, <1>13,
       <1>14, <1>15, <1>16
    DEF Next, Session, PageWriter, Checkpointer, vars, walVars, pageVars, queueVars, clogVars,
       xactVars, serverVars, MarkBufferDirty, InsertRow, RowDone,
       update_dirty_page_queue_rec_lsn, StartCommit, InsertCommit, CommitLogged, SetClog,
       EndCommit, SetHintBits, FlushBuffer, TerminateBufferIO, FlushWal, StartupXLOG,
       CheckForRestartPoint

\* ... and the server.
LEMMA ServerTypeStep ==
    ASSUME IInv, [Next]_vars
    PROVE  ServerType'
<1> USE DEF IInv, TypeOK
<1>1. CASE StartSuspendWalInsert
    BY <1>1 DEF ServerType, Kinds, StartSuspendWalInsert, pageVars, queueVars, clogVars,
       xactVars
<1>2. CASE UpdateControlFile
    BY <1>2 DEF ServerType, CkptType, UpdateControlFile
<1>3. CASE Crash
    BY RecoveryAssumption, <1>3 DEF ServerType, Kinds, Crash
<1>4. CASE StartupXLOG
    BY <1>4 DEF ServerType, Kinds, StartupXLOG, walVars, xactVars
<1>5. CASE CheckForRestartPoint
    <2>1. <<"full">> \o requests \in Seq(Kinds)
        <3>1. <<"full">> \in Seq(Kinds) /\ requests \in Seq(Kinds)
            BY DEF ServerType, Kinds
        <3> QED
            BY <3>1
    <2> QED
        BY <1>5, <2>1 DEF ServerType, CheckForRestartPoint
<1>6. CASE UNCHANGED <<serverVars>>
    BY <1>6, TypeFrame
<1> QED
    BY <1>1, <1>2, <1>3, <1>4, <1>5, <1>6
    DEF Next, Session, PageWriter, Checkpointer, vars, walVars, pageVars, queueVars, clogVars,
       xactVars, serverVars, MarkBufferDirty, InsertRow, RowDone,
       update_dirty_page_queue_rec_lsn, StartCommit, InsertCommit, CommitLogged, SetClog,
       EndCommit, SetHintBits, FlushBuffer, TerminateBufferIO,
       ckpt_move_queue_head_after_flush, FlushWal, RaiseQueueRecLsn, CkptGoto, FullRedo,
       Resume, StopSuspendWalInsert, FirstRecLsn, Proceed, ReadQueueRecLsn, Recheck,
       FindDelaying, GetVirtualXIDsDelayingChkpt, WaitForDelaying, CheckPointCLOG,
       EndClogWrite, CheckPointBuffers, InsertCheckpoint

LEMMA TypeStep ==
    ASSUME IInv, [Next]_vars
    PROVE  TypeOK'
BY LogTypeStep, PageTypeStep, QueueTypeStep, ClogTypeStep, XactTypeStep, CkptTypeStep,
   ServerTypeStep DEF TypeOK

-----------------------------------------------------------------------------
(* Pages                                                                   *)

\* A page that the step leaves alone.
LEMMA PageKept ==
    ASSUME TypeOK, TypeOK', NEW p \in Pages, PageOK(p),
           Rows(p)' = Rows(p), \A i \in Rows(p) : wal'[i] = wal[i],
           \A x \in Xids : Commits(x) \subseteq Commits(x)',
           flushed <= flushed', clog \subseteq clog', Up' => Up,
           disk'[p] = disk[p], written'[p] = written[p], buf'[p] = buf[p],
           io'[p] = "written" => io[p] = "written" /\ lock'[p] = NoXid
    PROVE  PageOK(p)'
<1>1. /\ disk[p] \in PageImages /\ written[p] \in PageImages /\ buf[p] \in PageImages
      /\ flushed \in Nat /\ flushed' \in Nat
      /\ \A x \in Xids : Commits(x) \subseteq Nat
    BY LogTypes DEF TypeOK, PageType, LogType, curInsert
<1>2. /\ disk[p].lsn \in Nat /\ written[p].lsn \in Nat /\ buf[p].lsn \in Nat
      /\ disk[p].hints \subseteq Xids /\ written[p].hints \subseteq Xids
      /\ buf[p].hints \subseteq Xids
    BY <1>1 DEF PageImages
<1>3. /\ RowsBy(p, disk[p].lsn)' = RowsBy(p, disk[p].lsn)
      /\ RowsBy(p, written[p].lsn)' = RowsBy(p, written[p].lsn)
      /\ RowsBy(p, buf[p].lsn)' = RowsBy(p, buf[p].lsn)
    BY DEF RowsBy
<1>4. ASSUME NEW x \in disk[p].hints \cup written[p].hints
      PROVE  CommittedBy(x, flushed)'
    BY <1>1, <1>2 DEF PageOK, CommittedBy, EndOf
<1>5. ASSUME Up, NEW x \in buf[p].hints
      PROVE  CommittedBy(x, Larger(flushed, buf[p].lsn))'
    BY <1>1, <1>2, <1>5 DEF PageOK, CommittedBy, Larger, EndOf
<1>6. disk[p].lsn <= written[p].lsn /\ written[p].lsn <= flushed'
    BY <1>1, <1>2 DEF PageOK
<1> QED
    BY <1>3, <1>4, <1>5, <1>6 DEF PageOK


\* Who leaves a page alone.
LEMMA PageFrame ==
    ASSUME IInv, [Next]_vars, NEW p \in Pages, ~Crash, ~StartupXLOG, ~CheckPointBuffers,
           ~FlushBuffer(p),
           \A x \in Xids : PageOf[x] = p => ~InsertRow(x) /\ ~SetHintBits(x)
    PROVE  /\ disk'[p] = disk[p] /\ written'[p] = written[p] /\ buf'[p] = buf[p]
           /\ clog \subseteq clog' /\ (Up' => Up)
           /\ io'[p] = "written" => io[p] = "written" /\ lock'[p] = NoXid
<1> DEFINE Goal == /\ disk'[p] = disk[p] /\ written'[p] = written[p] /\ buf'[p] = buf[p]
                   /\ clog \subseteq clog' /\ (Up' => Up)
                   /\ io'[p] = "written" => io[p] = "written" /\ lock'[p] = NoXid
<1>1. /\ PageType /\ PageOK(p)
      /\ io[p] = "written" => lock[p] = NoXid
    BY DEF IInv, TypeOK, PageInv, PageOK
<1>2. ASSUME NEW x \in Xids, MarkBufferDirty(x) PROVE Goal
    BY <1>1, <1>2 DEF PageType, MarkBufferDirty, Up, clogVars, serverVars
<1>3. ASSUME NEW x \in Xids, InsertRow(x), PageOf[x] # p PROVE Goal
    BY <1>1, <1>3 DEF PageType, InsertRow, Up, clogVars, serverVars
<1>4. ASSUME NEW x \in Xids, RowDone(x) PROVE Goal
    BY <1>1, <1>4 DEF PageType, RowDone, Up, clogVars, serverVars
<1>5. ASSUME NEW x \in Xids, SetHintBits(x), PageOf[x] # p PROVE Goal
    BY <1>1, <1>5 DEF PageType, SetHintBits, Up, clogVars, serverVars
<1>6. ASSUME NEW o \in Pages, FlushBuffer(o), o # p PROVE Goal
    BY <1>1, <1>6 DEF PageType, FlushBuffer, Up, clogVars, serverVars
<1>7. ASSUME NEW o \in Pages, TerminateBufferIO(o) PROVE Goal
    BY <1>1, <1>7 DEF PageType, TerminateBufferIO, Up, clogVars, serverVars
<1>8. ASSUME UNCHANGED pageVars, clog \subseteq clog', server' # "down" => server # "down" PROVE Goal
    BY <1>1, <1>8 DEF pageVars, Up
<1>9. ASSUME CheckForRestartPoint PROVE Goal
    BY <1>1, <1>9 DEF CheckForRestartPoint, pageVars, clogVars, Up
<1> HIDE DEF Goal
<1>10. Goal
    BY <1>2, <1>3, <1>4, <1>5, <1>6, <1>7, <1>8, <1>9
    DEF Next, Session, PageWriter, Checkpointer, vars, clogVars, serverVars,
        StartCommit, InsertCommit, CommitLogged, SetClog, EndCommit,
        ckpt_move_queue_head_after_flush, FlushWal, StartSuspendWalInsert,
        RaiseQueueRecLsn, FullRedo, FirstRecLsn, Proceed, Resume, ReadQueueRecLsn,
        Recheck, FindDelaying, WaitForDelaying, CheckPointCLOG, EndClogWrite,
        InsertCheckpoint, UpdateControlFile
<1> QED
    BY <1>10 DEF Goal

\* The commit log that recovery restores.
LEMMA ClogRestored ==
    ASSUME IInv, StartupXLOG
    PROVE  \A x \in Xids : x \in clog' <=> Commits(x) # {}
<1>1. clog = clogDisk /\ clog' = clog \cup {wal[i].xid : i \in Replayed("commit")}
    BY DEF StartupXLOG, IInv, DownInv
<1>2. /\ wal \in Seq(Records) /\ control.redo \in Nat \ {0}
      /\ CommitsIn(control.redo, clogDisk)
      /\ \A x \in clogDisk : CommittedBy(x, flushed)
    BY DEF IInv, TypeOK, LogType, ControlInv, ClogInv
<1>3. ASSUME NEW x \in Xids, NEW i \in Commits(x) PROVE x \in clog'
    <2>1. i \in 1 .. Len(wal) /\ Len(wal) \in Nat /\ wal[i].type = "commit" /\ wal[i].xid = x
        BY <1>2 DEF Commits
    <2>2. CASE i < control.redo
        BY <1>1, <1>2, <2>2 DEF CommitsIn
    <2>3. CASE control.redo <= i
        <3>1. i \in Replayed("commit")
            BY <1>2, <2>1, <2>3 DEF Replayed
        <3> QED
            BY <1>1, <2>1, <3>1
    <2> QED
        BY <1>2, <2>1, <2>2, <2>3
<1>4. ASSUME NEW x \in Xids, x \in clog' PROVE Commits(x) # {}
    <2>1. CASE x \in clogDisk
        BY <1>2, <2>1 DEF CommittedBy
    <2>2. ASSUME NEW i \in Replayed("commit"), x = wal[i].xid PROVE Commits(x) # {}
        <3>1. i \in 1 .. Len(wal) /\ wal[i].type = "commit"
            BY <1>2 DEF Replayed
        <3> QED
            BY <1>2, <2>2, <3>1 DEF Commits
    <2> QED
        BY <1>1, <1>4, <2>1, <2>2
<1> QED
    BY <1>3, <1>4


\* The row goes into the log and onto the page.
LEMMA InsertRowPage ==
    ASSUME IInv, TypeOK', NEW x \in Xids, InsertRow(x)
    PROVE  PageOK(PageOf[x])'
<1> DEFINE p == PageOf[x]
           r == [type |-> "row", xid |-> x]
           image == [buf[p] EXCEPT !.rows = @ \cup {x}, !.lsn = EndOf(curInsert)]
<1>1. p \in Pages
    BY RecoveryAssumption
<1>2. /\ wal \in Seq(Records) /\ Len(wal) \in Nat /\ curInsert = Len(wal) + 1
      /\ flushed \in Nat /\ flushed <= curInsert /\ buf \in [Pages -> PageImages]
      /\ disk[p] \in PageImages /\ written[p] \in PageImages /\ buf[p] \in PageImages
    BY <1>1 DEF IInv, TypeOK, LogType, PageType, curInsert
<1>3. /\ disk[p].lsn \in Nat /\ written[p].lsn \in Nat /\ buf[p].lsn \in Nat
      /\ disk[p].hints \subseteq Xids /\ written[p].hints \subseteq Xids
      /\ buf[p].hints \subseteq Xids
    BY <1>2 DEF PageImages
<1>4. buf' = [buf EXCEPT ![p] = image]
    BY DEF InsertRow
<1>5. image.rows = buf[p].rows \cup {x} /\ image.hints = buf[p].hints
      /\ image.lsn = EndOf(curInsert)
    BY <1>2 DEF PageImages
<1>6. r \in Records /\ wal' = Append(wal, r) /\ r.type = "row" /\ r.xid = x
    BY Inserted
<1>7. PageOK(p) /\ Up
    BY <1>1 DEF IInv, PageInv, XactInv, XactOK, InsertRow, Up
<1>8. UNCHANGED <<flushed, disk, written, lock, io, clog, server>> /\ pc[x] = "insert" /\ lock[p] = x
    BY DEF InsertRow, clogVars, serverVars, IInv, XactInv, XactOK
<1> HIDE DEF image, r, p
<1>9. buf'[p].rows = buf[p].rows \cup {x} /\ buf'[p].hints = buf[p].hints
      /\ buf'[p].lsn = EndOf(curInsert)
    BY <1>1, <1>2, <1>4, <1>5
<1>10. /\ Rows(p)' = Rows(p) \cup {curInsert} /\ \A y \in Xids : Commits(y)' = Commits(y)
       /\ \A i \in Rows(p) : i \in 1 .. Len(wal) /\ wal'[i] = wal[i]
       /\ wal'[curInsert] = r
    <2>1. \A i \in Rows(p) : i \in 1 .. Len(wal)
        BY <1>1, <1>2, LogTypes
    <2>2. PageOf[r.xid] = p
        BY <1>6 DEF p
    <2>3. Rows(p)' = Rows(p) \cup {curInsert}
        BY <1>1, <1>2, <1>6, <2>2, LogAppend
    <2>4. ASSUME NEW y \in Xids PROVE Commits(y)' = Commits(y)
        <3>1. Commits(y)' = Commits(y) \cup {i \in {curInsert} : r.type = "commit" /\ r.xid = y}
            BY <1>2, <1>6, LogAppend
        <3> QED
            BY <1>6, <3>1
    <2> QED
        BY <1>2, <1>6, <2>1, <2>3, <2>4, LogAppend
<1>11. /\ RowsBy(p, disk[p].lsn)' = RowsBy(p, disk[p].lsn)
       /\ RowsBy(p, written[p].lsn)' = RowsBy(p, written[p].lsn)
    <2>1. disk[p].lsn <= curInsert /\ written[p].lsn <= curInsert
        BY <1>2, <1>3, <1>7 DEF PageOK
    <2> QED
        BY <1>2, <1>3, <1>8, <1>10, <2>1, SMTT(30) DEF RowsBy, EndOf
<1>12. RowsBy(p, buf[p].lsn)' = RowsBy(p, buf[p].lsn) \cup {x}
    <2>1. \A i \in Rows(p) : EndOf(i) <= buf[p].lsn /\ EndOf(i) <= EndOf(curInsert)
        BY <1>2, <1>7, <1>10 DEF PageOK, EndOf
    <2>2. {j \in Rows(p)' : EndOf(j) <= EndOf(curInsert)} = Rows(p) \cup {curInsert}
        BY <1>2, <1>10, <2>1 DEF EndOf
    <2>3. {j \in Rows(p) : EndOf(j) <= buf[p].lsn} = Rows(p)
        BY <2>1
    <2>4. RowsBy(p, buf[p].lsn) = {wal[i].xid : i \in Rows(p)}
        BY <2>3 DEF RowsBy
    <2>5. RowsBy(p, buf[p].lsn)' = {wal'[i].xid : i \in Rows(p) \cup {curInsert}}
        BY <1>9, <2>2 DEF RowsBy
    <2>6. {wal'[i].xid : i \in Rows(p)} = {wal[i].xid : i \in Rows(p)}
        BY <1>10
    <2> QED
        BY <1>6, <1>10, <2>4, <2>5, <2>6, ZenonT(60)
<1>13. ASSUME NEW y \in disk[p].hints \cup written[p].hints
       PROVE  CommittedBy(y, flushed)'
    BY <1>3, <1>7, <1>8, <1>10 DEF PageOK, CommittedBy
<1>14. ASSUME NEW y \in buf[p].hints
       PROVE  CommittedBy(y, Larger(flushed, buf[p].lsn))'
    <2>1. PICK i \in Commits(y) : EndOf(i) <= Larger(flushed, buf[p].lsn)
        BY <1>7 DEF PageOK, CommittedBy
    <2>2. i \in 1 .. Len(wal) /\ i \in Commits(y)'
        BY <1>2, <1>3, <1>10, LogTypes
    <2>3. EndOf(i) <= Larger(flushed, EndOf(curInsert))
        BY <1>2, <2>2 DEF EndOf, Larger
    <2> QED
        BY <1>8, <1>9, <2>2, <2>3 DEF CommittedBy
<1>15. \A i \in Rows(p)' : EndOf(i) <= buf'[p].lsn
    BY <1>2, <1>9, <1>10 DEF EndOf
<1>16. written[p].lsn <= buf'[p].lsn
    BY <1>2, <1>3, <1>7, <1>9 DEF PageOK, EndOf
<1>17. io[p] # "written"
    BY <1>7, <1>8, RecoveryAssumption DEF PageOK
<1> QED
    BY <1>7, <1>8, <1>9, <1>11, <1>12, <1>13, <1>14, <1>15, <1>16, <1>17 DEF PageOK, p

\* A hint bit is set.
LEMMA SetHintPage ==
    ASSUME IInv, TypeOK', NEW x \in Xids, SetHintBits(x)
    PROVE  PageOK(PageOf[x])'
<1> DEFINE p == PageOf[x]
           image == [buf[p] EXCEPT !.hints = @ \cup {x}]
<1>1. p \in Pages
    BY RecoveryAssumption
<1>2. /\ wal \in Seq(Records) /\ flushed \in Nat /\ clogLsn \in Nat
      /\ buf \in [Pages -> PageImages] /\ buf[p] \in PageImages
    BY <1>1 DEF IInv, TypeOK, LogType, PageType, ClogType, curInsert
<1>3. buf' = [buf EXCEPT ![p] = image]
    BY DEF SetHintBits
<1>4. image.rows = buf[p].rows /\ image.hints = buf[p].hints \cup {x} /\ image.lsn = buf[p].lsn
      /\ buf[p].lsn \in Nat
    BY <1>2 DEF PageImages
<1>5. /\ UNCHANGED <<wal, flushed, disk, written, lock, io, clog, server>>
      /\ x \in clog /\ HintAllowed(p) /\ Up
    BY DEF SetHintBits, walVars, clogVars, serverVars, InFirstRun, Up
<1>6. PageOK(p)
    BY <1>1 DEF IInv, PageInv
<1> HIDE DEF image, p
<1>7. buf'[p].rows = buf[p].rows /\ buf'[p].hints = buf[p].hints \cup {x}
      /\ buf'[p].lsn = buf[p].lsn
    BY <1>1, <1>2, <1>3, <1>4
<1>8. CommittedBy(x, Larger(flushed, buf[p].lsn))
    <2>1. PICK i \in Commits(x) : EndOf(i) <= Larger(flushed, clogLsn)
        BY <1>5 DEF IInv, ClogInv, CommittedBy
    <2>2. i \in Nat
        BY <1>2, LogTypes
    <2>3. EndOf(i) <= Larger(flushed, buf[p].lsn)
        BY <1>2, <1>4, <1>5, <2>1, <2>2 DEF HintAllowed, Larger, EndOf
    <2> QED
        BY <2>3 DEF CommittedBy
<1>9. /\ \A q, l : RowsBy(q, l)' = RowsBy(q, l)
      /\ \A y : Commits(y)' = Commits(y)
      /\ Rows(p)' = Rows(p)
    BY <1>5 DEF RowsBy, Rows, Commits
<1>10. /\ RowsBy(p, disk[p].lsn)' = RowsBy(p, disk[p].lsn)
       /\ RowsBy(p, written[p].lsn)' = RowsBy(p, written[p].lsn)
       /\ RowsBy(p, buf[p].lsn)' = RowsBy(p, buf[p].lsn)
    BY <1>5, <1>7 DEF RowsBy, Rows
<1>11. ASSUME NEW y \in disk[p].hints \cup written[p].hints
       PROVE  CommittedBy(y, flushed)'
    BY <1>5, <1>6, <1>9 DEF PageOK, CommittedBy
<1>12. ASSUME NEW y \in buf'[p].hints
       PROVE  CommittedBy(y, Larger(flushed, buf[p].lsn))'
    BY <1>5, <1>6, <1>7, <1>8, <1>9 DEF PageOK, CommittedBy
<1> QED
    BY <1>5, <1>6, <1>7, <1>9, <1>10, <1>11, <1>12 DEF PageOK, p

\* A page is written.
LEMMA FlushBufferPage ==
    ASSUME IInv, NEW p \in Pages, FlushBuffer(p)
    PROVE  PageOK(p)'
<1>1. /\ written'[p] = buf[p] /\ lock[p] = NoXid /\ buf[p].lsn <= flushed
      /\ UNCHANGED <<wal, flushed, disk, buf, lock, clog, server>>
    BY DEF FlushBuffer, walVars, clogVars, serverVars, IInv, TypeOK, PageType
<1>2. PageOK(p) /\ Up
    BY DEF IInv, PageInv, DownInv, QueueInv, InOrder, FlushBuffer, Up
<1>3. /\ flushed \in Nat /\ disk[p].lsn \in Nat /\ written[p].lsn \in Nat /\ buf[p].lsn \in Nat
      /\ buf[p].hints \subseteq Xids
    BY DEF IInv, TypeOK, LogType, PageType, PageImages, curInsert
<1>4. /\ RowsBy(p, disk[p].lsn)' = RowsBy(p, disk[p].lsn)
      /\ RowsBy(p, written[p].lsn)' = RowsBy(p, buf[p].lsn)
      /\ RowsBy(p, buf[p].lsn)' = RowsBy(p, buf[p].lsn)
      /\ Rows(p)' = Rows(p) /\ \A y : Commits(y)' = Commits(y)
    BY <1>1 DEF RowsBy, Rows, Commits
<1>5. Larger(flushed, buf[p].lsn) = flushed
    BY <1>1, <1>3 DEF Larger
<1>6. ASSUME NEW y \in disk[p].hints \cup buf[p].hints
      PROVE  CommittedBy(y, flushed)'
    BY <1>1, <1>2, <1>4, <1>5 DEF PageOK, CommittedBy
<1>7. ASSUME NEW y \in buf[p].hints
      PROVE  CommittedBy(y, Larger(flushed, buf[p].lsn))'
    BY <1>1, <1>2, <1>4 DEF PageOK, CommittedBy
<1>8. disk[p].lsn <= buf[p].lsn /\ buf[p].lsn <= buf[p].lsn
    BY <1>2, <1>3 DEF PageOK
<1> QED
    BY <1>1, <1>2, <1>4, <1>6, <1>7, <1>8 DEF PageOK

\* The written pages are synced.
LEMMA CheckPointBuffersPage ==
    ASSUME IInv, NEW p \in Pages, CheckPointBuffers
    PROVE  PageOK(p)'
<1>1. disk' = written /\ UNCHANGED <<wal, flushed, written, buf, lock, io, clog, server>>
    BY DEF CheckPointBuffers, walVars, clogVars, serverVars
<1>2. PageOK(p) /\ written[p].lsn \in Nat
    BY DEF IInv, TypeOK, PageType, PageImages, PageInv
<1>3. /\ RowsBy(p, disk[p].lsn)' = RowsBy(p, written[p].lsn)
      /\ RowsBy(p, written[p].lsn)' = RowsBy(p, written[p].lsn)
      /\ RowsBy(p, buf[p].lsn)' = RowsBy(p, buf[p].lsn)
      /\ Rows(p)' = Rows(p) /\ \A y : Commits(y)' = Commits(y)
    BY <1>1 DEF RowsBy, Rows, Commits
<1>4. ASSUME NEW y \in written[p].hints PROVE CommittedBy(y, flushed)'
    BY <1>1, <1>2, <1>3 DEF PageOK, CommittedBy
<1>5. ASSUME Up, NEW y \in buf[p].hints
      PROVE  CommittedBy(y, Larger(flushed, buf[p].lsn))'
    BY <1>1, <1>2, <1>3, <1>5 DEF PageOK, CommittedBy
<1> QED
    BY <1>1, <1>2, <1>3, <1>4, <1>5 DEF PageOK, Up

\* What was in the log on disk is still there after a crash.
LEMMA CrashKeeps ==
    ASSUME IInv, Crash
    PROVE  /\ flushed <= flushed' /\ flushed' = curInsert' /\ flushed' \in Nat
           /\ \A i \in DOMAIN wal' : i \in DOMAIN wal /\ wal'[i] = wal[i]
           /\ \A i \in DOMAIN wal : i < flushed => i \in DOMAIN wal'
           /\ \A p \in Pages : Rows(p)' = {i \in Rows(p) : i < flushed'}
           /\ \A x \in Xids : Commits(x)' = {i \in Commits(x) : i < flushed'}
           /\ \A x \in Xids : CommittedBy(x, flushed) => CommittedBy(x, flushed)'
           /\ \A p \in Pages, l \in Nat : l <= flushed => RowsBy(p, l)' = RowsBy(p, l)
<1>1. PICK end \in flushed .. curInsert : wal' = SubSeq(wal, 1, end - 1) /\ flushed' = end
    BY CrashFacts DEF IInv
<1>2. /\ wal \in Seq(Records) /\ end \in 1 .. curInsert /\ Len(wal) \in Nat /\ flushed \in Nat
      /\ DOMAIN wal = 1 .. Len(wal) /\ flushed <= end /\ end \in Nat
    BY DEF IInv, TypeOK, LogType, curInsert
<1>3. /\ wal' \in Seq(Records) /\ Len(wal') = end - 1
      /\ \A i \in 1 .. end - 1 : wal'[i] = wal[i]
      /\ \A p \in Pages : Rows(p)' = {i \in Rows(p) : i < end}
      /\ \A x \in Xids : Commits(x)' = {i \in Commits(x) : i < end}
    BY <1>1, <1>2, LogCut
<1>4. DOMAIN wal' = 1 .. end - 1 /\ end - 1 <= Len(wal) /\ curInsert' = end
    BY <1>2, <1>3 DEF curInsert
<1>5. ASSUME NEW x \in Xids, CommittedBy(x, flushed) PROVE CommittedBy(x, flushed)'
    <2>1. PICK i \in Commits(x) : EndOf(i) <= flushed
        BY <1>5 DEF CommittedBy
    <2>2. i \in Nat
        BY <1>2, LogTypes
    <2>3. i \in Commits(x)' /\ EndOf(i) <= flushed'
        BY <1>1, <1>2, <1>3, <2>1, <2>2 DEF EndOf
    <2> QED
        BY <2>3 DEF CommittedBy
<1>6. ASSUME NEW p \in Pages, NEW l \in Nat, l <= flushed PROVE RowsBy(p, l)' = RowsBy(p, l)
    <2>1. \A i \in Rows(p) : i \in 1 .. Len(wal)
        BY <1>2, LogTypes
    <2>2. {j \in Rows(p)' : EndOf(j) <= l} = {j \in Rows(p) : EndOf(j) <= l}
        BY <1>2, <1>3, <1>6, <2>1 DEF EndOf
    <2>3. \A j \in {j \in Rows(p) : EndOf(j) <= l} : wal'[j] = wal[j]
        BY <1>2, <1>3, <1>6, <2>1 DEF EndOf
    <2> QED
        BY <2>2, <2>3 DEF RowsBy
<1> QED
    BY <1>1, <1>2, <1>3, <1>4, <1>5, <1>6

LEMMA CrashPage ==
    ASSUME IInv, NEW p \in Pages, Crash
    PROVE  PageOK(p)'
<1>1. /\ written' = disk' /\ buf' = disk' /\ disk'[p] \in {disk[p], written[p]}
      /\ ~Up' /\ io'[p] # "written"
    BY CrashFacts DEF IInv, Crash, Up
<1>2. PageOK(p) /\ flushed \in Nat /\ disk[p] \in PageImages /\ written[p] \in PageImages
    BY DEF IInv, TypeOK, LogType, PageType, PageInv, curInsert
<1>3. /\ disk'[p].lsn \in Nat /\ disk'[p].lsn <= flushed /\ disk'[p].hints \subseteq Xids
      /\ disk'[p].rows = RowsBy(p, disk[p].lsn) \/ disk'[p].rows = RowsBy(p, written[p].lsn)
      /\ \A x \in disk'[p].hints : CommittedBy(x, flushed)
    BY <1>1, <1>2 DEF PageOK, PageImages
<1>4. disk'[p].lsn <= flushed'
    BY <1>2, <1>3, CrashKeeps
<1>5. disk'[p].rows = RowsBy(p, disk[p].lsn)'
    <2>1. PICK image \in {disk[p], written[p]} : image = disk'[p]
        BY <1>1
    <2>2. image.rows = RowsBy(p, image.lsn) /\ image.lsn \in Nat /\ image.lsn <= flushed
        BY <1>2, <1>3, <2>1 DEF PageOK
    <2>3. RowsBy(p, image.lsn)' = RowsBy(p, image.lsn)
        BY <2>2, CrashKeeps DEF RowsBy
    <2> QED
        BY <2>1, <2>2, <2>3 DEF RowsBy
<1>6. \A x \in disk'[p].hints : CommittedBy(x, flushed)'
    BY <1>3, CrashKeeps
<1>7. RowsBy(p, written[p].lsn)' = RowsBy(p, disk[p].lsn)'
    BY <1>1 DEF RowsBy
<1> QED
    BY <1>1, <1>3, <1>4, <1>5, <1>6, <1>7 DEF PageOK

\* Recovery brings a page up to date.
LEMMA StartupPage ==
    ASSUME IInv, NEW p \in Pages, StartupXLOG
    PROVE  PageOK(p)'
<1>1. /\ UNCHANGED <<wal, flushed, written, disk, lock, io>> /\ written = disk
      /\ server = "down" /\ io[p] = "none"
    BY DEF StartupXLOG, walVars, IInv, DownInv
<1>2. /\ PageOK(p) /\ flushed \in Nat /\ disk[p] \in PageImages /\ wal \in Seq(Records)
      /\ disk[p].lsn \in Nat /\ disk[p].hints \subseteq Xids
      /\ control.redo \in Nat \ {0} /\ RowsOnDisk(control.redo)
    BY DEF IInv, TypeOK, LogType, PageType, PageInv, PageImages, curInsert, ControlInv
<1>3. ToRedo(p) = {i \in Rows(p) : control.redo <= i /\ disk[p].lsn < EndOf(i)}
    BY <1>2, ToRedoFacts
<1>4. /\ Rows(p)' = Rows(p) /\ \A y : Commits(y)' = Commits(y)
      /\ \A i \in Rows(p) : i \in 1 .. Len(wal)
    BY <1>1, <1>2, LogTypes DEF Rows, Commits
<1>5. ASSUME NEW i \in Rows(p), i \notin ToRedo(p) PROVE EndOf(i) <= disk[p].lsn
    <2>1. i \in Nat /\ EndOf(i) \in Nat
        BY <1>2, <1>4 DEF EndOf
    <2> QED
        BY <1>2, <1>3, <1>5, <2>1 DEF RowsOnDisk
<1>6. /\ buf'[p].hints = disk[p].hints /\ buf'[p].lsn \in Nat /\ disk[p].lsn <= buf'[p].lsn
      /\ \A i \in Rows(p) : EndOf(i) <= buf'[p].lsn
      /\ buf'[p].rows = RowsBy(p, disk[p].lsn) \cup {wal[i].xid : i \in ToRedo(p)}
    <2>1. CASE ToRedo(p) = {}
        <3>1. buf'[p] = disk[p]
            BY <1>2, <2>1, RedoFacts DEF IInv
        <3> QED
            BY <1>2, <1>5, <2>1, <3>1 DEF PageOK
    <2>2. CASE ToRedo(p) # {}
        <3>1. /\ buf'[p].rows = disk[p].rows \cup {wal[i].xid : i \in ToRedo(p)}
              /\ buf'[p].hints = disk[p].hints /\ buf'[p].lsn = EndOf(Max(ToRedo(p)))
            BY <1>2, <2>2, RedoFacts DEF IInv
        <3>2. Max(ToRedo(p)) \in ToRedo(p) /\ \A i \in ToRedo(p) : i <= Max(ToRedo(p))
            BY <1>2, <2>2, ToRedoFacts
        <3>3. Max(ToRedo(p)) \in Nat /\ disk[p].lsn < EndOf(Max(ToRedo(p)))
            <4>1. Max(ToRedo(p)) \in Rows(p) /\ disk[p].lsn < EndOf(Max(ToRedo(p)))
                BY <1>3, <3>2, Zenon
            <4>2. Rows(p) \subseteq Nat
                BY <1>2, LogTypes
            <4> QED
                BY <4>1, <4>2, Zenon
        <3>4. ASSUME NEW i \in Rows(p) PROVE EndOf(i) <= EndOf(Max(ToRedo(p)))
            <4>1. i \in Nat
                BY <1>4
            <4>2. CASE i \in ToRedo(p)
                BY <3>2, <3>3, <4>1, <4>2 DEF EndOf
            <4>3. CASE i \notin ToRedo(p)
                BY <1>2, <1>5, <3>3, <4>1, <4>3 DEF EndOf
            <4> QED
                BY <4>2, <4>3
        <3> QED
            BY <1>2, <3>1, <3>3, <3>4 DEF PageOK, EndOf
    <2> QED
        BY <2>1, <2>2
<1>7. buf'[p].rows = RowsBy(p, buf[p].lsn)'
    <2>1. {j \in Rows(p) : EndOf(j) <= buf'[p].lsn} =
             {j \in Rows(p) : EndOf(j) <= disk[p].lsn} \cup ToRedo(p)
        BY <1>3, <1>5, <1>6
    <2>2. RowsBy(p, buf[p].lsn)' = {wal[i].xid : i \in {j \in Rows(p) : EndOf(j) <= buf'[p].lsn}}
        BY <1>1, <1>4 DEF RowsBy
    <2> QED
        BY <1>6, <2>1, <2>2 DEF RowsBy
<1>8. ASSUME NEW y \in disk[p].hints
      PROVE  /\ y \in clog' /\ CommittedBy(y, flushed)'
             /\ CommittedBy(y, Larger(flushed, buf[p].lsn))'
    <2>1. PICK i \in Commits(y) : EndOf(i) <= flushed
        BY <1>2 DEF PageOK, CommittedBy
    <2>2. i \in Nat
        BY <1>2, LogTypes
    <2>3. EndOf(i) <= Larger(flushed', buf'[p].lsn)
        BY <1>1, <1>2, <1>6, <2>1, <2>2 DEF EndOf, Larger
    <2> QED
        BY <1>1, <1>2, <1>4, <2>1, <2>3, ClogRestored DEF CommittedBy
<1>9. /\ RowsBy(p, disk[p].lsn)' = RowsBy(p, disk[p].lsn)
      /\ RowsBy(p, written[p].lsn)' = RowsBy(p, written[p].lsn)
    BY <1>1, <1>4 DEF RowsBy
<1> QED
    BY <1>1, <1>2, <1>4, <1>6, <1>7, <1>8, <1>9 DEF PageOK

LEMMA PageStep ==
    ASSUME IInv, [Next]_vars
    PROVE  PageInv'
<1>1. SUFFICES ASSUME NEW p \in Pages PROVE PageOK(p)'
    BY DEF PageInv
<1>2. TypeOK /\ TypeOK' /\ PageOK(p)
    BY TypeStep DEF IInv, PageInv
<1>3. CASE ~Crash /\ ~StartupXLOG /\ ~CheckPointBuffers /\ ~FlushBuffer(p)
           /\ \A x \in Xids : PageOf[x] = p => ~InsertRow(x) /\ ~SetHintBits(x)
    <2>1. /\ Rows(p)' = Rows(p) /\ flushed <= flushed'
          /\ \A i \in DOMAIN wal : wal'[i] = wal[i]
          /\ \A x \in Xids : Commits(x) \subseteq Commits(x)'
        BY <1>2, <1>3, LogGrows
    <2>2. \A i \in Rows(p) : wal'[i] = wal[i]
        BY <2>1 DEF Rows
    <2>3. /\ disk'[p] = disk[p] /\ written'[p] = written[p] /\ buf'[p] = buf[p]
          /\ clog \subseteq clog' /\ (Up' => Up)
          /\ io'[p] = "written" => io[p] = "written" /\ lock'[p] = NoXid
        BY <1>3, PageFrame
    <2> QED
        BY <1>2, <2>1, <2>2, <2>3, PageKept
<1> QED
    BY <1>2, <1>3, CrashPage, StartupPage, CheckPointBuffersPage, FlushBufferPage,
       InsertRowPage, SetHintPage

-----------------------------------------------------------------------------
(* The queue                                                               *)

\* A step that leaves the queue alone.
LEMMA QueueKept ==
    ASSUME IInv, TypeOK', UNCHANGED <<queue, recLsn, written, control>>,
           queueRecLsn <= queueRecLsn', Up' => Up,
           \A p \in Pages : Rows(p)' = Rows(p)
    PROVE  QueueInv'
<1>1. /\ queueRecLsn \in Nat /\ queueRecLsn' \in Nat /\ recLsn \in [Pages -> Nat]
      /\ control.redo \in Nat
    BY DEF IInv, TypeOK, LogType, QueueType, ServerType, curInsert
<1>2. InOrder(queue', recLsn')
    BY DEF IInv, QueueInv
<1>3. ASSUME NEW p \in Pages PROVE recLsn[p] <= queueRecLsn'
    BY <1>1 DEF IInv, QueueInv
<1>4. ASSUME Up' PROVE control.redo <= queueRecLsn'
    BY <1>1, <1>4 DEF IInv, QueueInv
<1>5. ASSUME Up', NEW p \in Pages
      PROVE  /\ recLsn[p] # InvalidXLogRecPtr => control.redo <= recLsn[p]
             /\ \A i \in Rows(p)' : written[p].lsn < EndOf(i) => recLsn[p] \in 1 .. i
    BY <1>5 DEF IInv, QueueInv
<1> QED
    BY <1>2, <1>3, <1>4, <1>5 DEF QueueInv

\* A page is marked dirty, or its write ends.
LEMMA QueueDirty ==
    ASSUME IInv, TypeOK', NEW p \in Pages,
           \/ Up /\ push_pending_flush_queue(p, queue, recLsn)
           \/ TerminateBufferIO(p),
           UNCHANGED <<wal, written, control, queueRecLsn, server>>
    PROVE  QueueInv'
<1>1. /\ queueRecLsn \in Nat /\ recLsn \in [Pages -> Nat] /\ recLsn' \in [Pages -> Nat]
      /\ control.redo \in Nat /\ written[p].lsn \in Nat
      /\ InvalidXLogRecPtr = 0
    <2>1. /\ queueRecLsn \in 0 .. curInsert /\ recLsn \in [Pages -> Nat]
          /\ recLsn' \in [Pages -> Nat] /\ wal \in Seq(Records)
          /\ control \in [redo : Nat, record : Nat] /\ written[p] \in PageImages
        BY DEF IInv, TypeOK, LogType, PageType, QueueType, ServerType
    <2> QED
        BY <2>1 DEF PageImages, curInsert, InvalidXLogRecPtr
<1>2. Up
    BY DEF IInv, DownInv, Up, TerminateBufferIO
<1>3. /\ \A o \in Pages : recLsn[o] <= queueRecLsn
      /\ control.redo <= queueRecLsn
      /\ \A o \in Pages :
            /\ recLsn[o] # InvalidXLogRecPtr => control.redo <= recLsn[o]
            /\ \A i \in Rows(o) : written[o].lsn < EndOf(i) => recLsn[o] \in 1 .. i
    BY <1>2 DEF IInv, QueueInv
<1>4. /\ InOrder(queue', recLsn')
      /\ \A o \in Pages : o # p => recLsn'[o] = recLsn[o]
      /\ recLsn'[p] \in {recLsn[p], queueRecLsn, InvalidXLogRecPtr}
      /\ ~TerminateBufferIO(p) => (recLsn[p] # InvalidXLogRecPtr => recLsn'[p] = recLsn[p])
    BY DirtyStep
<1>5. \A o \in Pages : Rows(o)' = Rows(o)
    BY DEF Rows
<1>6. ASSUME NEW o \in Pages
      PROVE  /\ recLsn'[o] <= queueRecLsn
             /\ recLsn'[o] # InvalidXLogRecPtr => control.redo <= recLsn'[o]
    BY <1>1, <1>3, <1>4
<1>7. ASSUME NEW o \in Pages, NEW i \in Rows(o), written[o].lsn < EndOf(i)
      PROVE  recLsn'[o] \in 1 .. i
    <2>1. recLsn[o] \in 1 .. i
        BY <1>3, <1>7
    <2>2. CASE o # p
        BY <1>4, <2>1, <2>2
    <2>3. CASE o = p /\ TerminateBufferIO(p)
        <3>1. PageOK(p) /\ io[p] = "written"
            BY <2>3 DEF IInv, PageInv, TerminateBufferIO
        <3>2. EndOf(i) <= written[p].lsn
            BY <1>2, <1>7, <2>3, <3>1 DEF PageOK
        <3>3. EndOf(i) \in Nat
            BY <1>7, <2>3, LogTypes DEF IInv, TypeOK, LogType, EndOf
        <3> QED
            BY <1>1, <1>7, <2>3, <3>2, <3>3
    <2>4. CASE o = p /\ ~TerminateBufferIO(p)
        BY <1>1, <1>4, <2>1, <2>4
    <2> QED
        BY <2>2, <2>3, <2>4
<1> QED
    BY <1>3, <1>4, <1>5, <1>6, <1>7 DEF QueueInv

\* A row is logged while its page is in the queue.
LEMMA QueueInsert ==
    ASSUME IInv, [Next]_vars, TypeOK', NEW x \in Xids, InsertRow(x)
    PROVE  QueueInv'
<1>1. /\ UNCHANGED <<queue, recLsn, queueRecLsn, written, control, server>>
      /\ pc[x] = "insert"
    BY DEF InsertRow, queueVars, serverVars
<1>2. /\ queueRecLsn \in Nat /\ queueRecLsn <= curInsert /\ recLsn \in [Pages -> Nat]
      /\ curInsert \in Nat
    BY DEF IInv, TypeOK, LogType, QueueType, curInsert
<1>3. recLsn[PageOf[x]] # 0 /\ PageOf[x] \in Pages
    BY <1>1, RecoveryAssumption DEF IInv, XactInv, XactOK, InvalidXLogRecPtr
<1>4. ASSUME NEW p \in Pages, NEW i \in Rows(p)', Up, written[p].lsn < EndOf(i)
      PROVE  recLsn[p] \in 1 .. i
    <2>1. CASE i \in Rows(p)
        BY <1>4, <2>1 DEF IInv, QueueInv
    <2>2. CASE i \notin Rows(p)
        <3>1. ~Crash
            BY <1>1, RecoveryAssumption DEF IInv, TypeOK, XactType, Crash, InsertRow, serverVars,
               ServerType
        <3>2. i = curInsert
            BY <2>2, <3>1, LogGrows DEF IInv
        <3>3. p = PageOf[x]
            <4>1. (\A y \in Xids : InsertRow(y) => PageOf[y] # p) => i \in Rows(p)
                BY <3>1, LogGrows DEF IInv
            <4>2. PICK y \in Xids : InsertRow(y) /\ PageOf[y] = p
                BY <2>2, <4>1
            <4>3. wal' = Append(wal, [type |-> "row", xid |-> x])
                  /\ wal' = Append(wal, [type |-> "row", xid |-> y]) /\ wal \in Seq(Records)
                BY <4>2, Inserted DEF IInv, TypeOK, LogType
            <4>4. [type |-> "row", xid |-> x] = [type |-> "row", xid |-> y]
                BY <4>3, Inserted, LogAppend
            <4> QED
                BY <4>2, <4>4
        <3>4. recLsn[p] <= queueRecLsn
            BY DEF IInv, QueueInv
        <3> QED
            BY <1>2, <1>3, <3>2, <3>3, <3>4
    <2> QED
        BY <2>1, <2>2
<1> QED
    BY <1>1, <1>4 DEF IInv, QueueInv, Up

\* A page is written.
LEMMA QueueFlush ==
    ASSUME IInv, NEW p \in Pages, FlushBuffer(p)
    PROVE  QueueInv'
<1>1. /\ UNCHANGED <<wal, queue, recLsn, queueRecLsn, control, server>>
      /\ written'[p] = buf[p] /\ \A o \in Pages : o # p => written'[o] = written[o]
    BY DEF FlushBuffer, walVars, serverVars, IInv, TypeOK, PageType
<1>2. \A o \in Pages : Rows(o)' = Rows(o)
    BY <1>1 DEF Rows
<1>3. ASSUME NEW o \in Pages, NEW i \in Rows(o), Up, written'[o].lsn < EndOf(i)
      PROVE  recLsn[o] \in 1 .. i
    <2>1. CASE o # p
        BY <1>1, <1>3, <2>1 DEF IInv, QueueInv
    <2>2. CASE o = p
        <3>1. EndOf(i) <= buf[p].lsn
            BY <1>3, <2>2 DEF IInv, PageInv, PageOK
        <3>2. EndOf(i) \in Nat /\ buf[p].lsn \in Nat
            BY <1>3, LogTypes DEF IInv, TypeOK, LogType, PageType, PageImages, EndOf
        <3> QED
            BY <1>1, <1>3, <2>2, <3>1, <3>2
    <2> QED
        BY <2>1, <2>2
<1> QED
    BY <1>1, <1>2, <1>3 DEF IInv, QueueInv, Up

\* The head of the queue moves.
LEMMA QueueHead ==
    ASSUME IInv, ckpt_move_queue_head_after_flush
    PROVE  /\ QueueInv'
           /\ \A i \in Taken' : i + 1 \in Taken /\ queue'[i] = queue[i + 1]
<1>1. /\ UNCHANGED <<wal, written, recLsn, queueRecLsn, control, server>>
      /\ queue # <<>> /\ Head(queue) = NoPage /\ queue' = Tail(queue)
    BY DEF ckpt_move_queue_head_after_flush, walVars, pageVars, serverVars
<1>2. queue \in Seq(Pages \cup {NoPage}) /\ recLsn \in [Pages -> Nat] /\ InOrder(queue, recLsn)
      /\ NoPage \notin Pages
    BY RecoveryAssumption DEF IInv, TypeOK, QueueType, QueueInv
<1>3. /\ Len(queue) \in Nat \ {0} /\ DOMAIN queue = 1 .. Len(queue) /\ queue[1] = NoPage
      /\ DOMAIN queue' = 1 .. Len(queue) - 1
      /\ \A i \in DOMAIN queue' : i + 1 \in DOMAIN queue /\ queue'[i] = queue[i + 1]
    BY <1>1, <1>2
<1>4. ASSUME NEW p \in Pages
      PROVE  recLsn[p] # InvalidXLogRecPtr <=> \E i \in DOMAIN queue' : queue'[i] = p
    <2>1. recLsn[p] # InvalidXLogRecPtr <=> \E i \in DOMAIN queue : queue[i] = p
        BY <1>2 DEF InOrder
    <2>2. ASSUME NEW i \in DOMAIN queue, queue[i] = p PROVE \E j \in DOMAIN queue' : queue'[j] = p
        <3>1. i - 1 \in DOMAIN queue' /\ (i - 1) + 1 = i
            BY <1>2, <1>3, <2>2
        <3> QED
            BY <1>3, <2>2, <3>1
    <2> QED
        BY <1>3, <2>1, <2>2
<1>5. ASSUME NEW i \in DOMAIN queue', NEW j \in DOMAIN queue', i < j,
             queue'[i] # NoPage, queue'[j] # NoPage
      PROVE  queue'[i] # queue'[j] /\ recLsn[queue'[i]] <= recLsn[queue'[j]]
    <2>1. i + 1 \in DOMAIN queue /\ j + 1 \in DOMAIN queue /\ i + 1 < j + 1
        BY <1>3, <1>5
    <2> QED
        BY <1>2, <1>3, <1>5, <2>1 DEF InOrder
<1>6. InOrder(queue', recLsn')
    BY <1>1, <1>4, <1>5 DEF InOrder
<1>7. \A o \in Pages : Rows(o)' = Rows(o)
    BY <1>1 DEF Rows
<1>8. \A i \in Taken' : i + 1 \in Taken /\ queue'[i] = queue[i + 1]
    BY <1>3 DEF Taken
<1> QED
    BY <1>1, <1>6, <1>7, <1>8 DEF IInv, QueueInv, Up


\* The control file gets a new redo point.
LEMMA QueueControl ==
    ASSUME IInv, UpdateControlFile
    PROVE  QueueInv'
<1>1. /\ UNCHANGED <<wal, written, queue, recLsn, queueRecLsn, server>> /\ ckpt.at = "flush"
      /\ control' = control \/ control' = [redo |-> ckpt.redo, record |-> ckpt.record]
    BY DEF UpdateControlFile, walVars, pageVars, queueVars
<1>2. \A o \in Pages : Rows(o)' = Rows(o)
    BY <1>1 DEF Rows
<1>3. PagesBehind(ckpt.redo) /\ ckpt.redo <= queueRecLsn
    BY <1>1 DEF IInv, CkptInv, Found
<1>4. ASSUME NEW p \in Pages, recLsn[p] # InvalidXLogRecPtr PROVE ckpt.redo <= recLsn[p]
    <2>1. PICK i \in DOMAIN queue : queue[i] = p
        BY <1>4 DEF IInv, QueueInv, InOrder
    <2>2. i \in Taken
        BY <2>1, RecoveryAssumption DEF Taken
    <2> QED
        BY <1>1, <1>3, <2>1, <2>2 DEF PagesBehind, Syncing
<1>5. Up => /\ control'.redo <= queueRecLsn
            /\ \A p \in Pages : recLsn[p] # InvalidXLogRecPtr => control'.redo <= recLsn[p]
    BY <1>1, <1>3, <1>4 DEF IInv, QueueInv
<1> QED
    BY <1>1, <1>2, <1>5 DEF IInv, QueueInv, Up

\* Recovery fills the queue.
LEMMA QueueStartup ==
    ASSUME IInv, StartupXLOG
    PROVE  QueueInv'
<1> DEFINE first(p) == Min(ToRedo(p))
           from(p) == Larger(control.redo, first(p) - 1)
           end == Larger(control.redo, Len(wal))
<1>1. /\ UNCHANGED <<wal, written, control>> /\ written = disk /\ queueRecLsn' = ReplayedUpTo(end)
    BY DEF StartupXLOG, walVars, IInv, DownInv
<1>2. /\ wal \in Seq(Records) /\ Len(wal) \in Nat /\ control.redo \in Nat \ {0}
      /\ RowsOnDisk(control.redo)
    BY DEF IInv, TypeOK, LogType, ControlInv
<1>3. /\ \A p \in Pages : ToRedo(p) = {} => recLsn'[p] = InvalidXLogRecPtr
      /\ \A p \in Pages : ToRedo(p) # {} => recLsn'[p] = ReplayedUpTo(from(p))
      /\ queue' \in Seq(Pages)
      /\ \A p \in Pages : ToRedo(p) # {} <=> \E i \in DOMAIN queue' : queue'[i] = p
      /\ \A i, j \in DOMAIN queue' : i < j => first(queue'[i]) < first(queue'[j])
    BY <1>2, RedoFacts DEF IInv
<1>4. \A p \in Pages : disk[p].lsn \in Nat
    BY DEF IInv, TypeOK, PageType, PageImages
<1>5. ASSUME NEW p \in Pages
      PROVE  /\ \A i \in Rows(p) : i \in 1 .. Len(wal)
             /\ ToRedo(p) = {i \in Rows(p) : control.redo <= i /\ disk[p].lsn < EndOf(i)}
             /\ ToRedo(p) # {} => first(p) \in ToRedo(p) /\ \A i \in ToRedo(p) : first(p) <= i
    BY <1>2, <1>4, LogTypes, ToRedoFacts
<1>6. ASSUME NEW p \in Pages, ToRedo(p) # {}
      PROVE  /\ first(p) \in control.redo .. Len(wal)
             /\ from(p) \in Nat /\ control.redo <= from(p) /\ from(p) <= end
             /\ from(p) <= first(p)
    <2>1. first(p) \in 1 .. Len(wal) /\ control.redo <= first(p)
        BY <1>5, <1>6
    <2> HIDE DEF first
    <2> QED
        BY <1>2, <2>1 DEF Larger
<1>7. end \in Nat /\ control.redo <= end
    BY <1>2 DEF Larger
<1> HIDE DEF end, from, first
<1>8. ReplayedUpTo(end) \in control.redo .. end
    BY <1>2, <1>7, RecoveryRounds
<1>9. ASSUME NEW p \in Pages, ToRedo(p) # {}
      PROVE  /\ recLsn'[p] \in control.redo .. from(p)
             /\ recLsn'[p] <= queueRecLsn'
    BY <1>1, <1>2, <1>3, <1>6, <1>7, <1>9, RecoveryRounds
<1>10. ASSUME NEW p \in Pages
       PROVE  recLsn'[p] # InvalidXLogRecPtr <=> ToRedo(p) # {}
    BY <1>2, <1>3, <1>6, <1>9 DEF InvalidXLogRecPtr
<1>11. ASSUME NEW i \in DOMAIN queue', NEW j \in DOMAIN queue', i < j
       PROVE  queue'[i] # queue'[j] /\ recLsn'[queue'[i]] <= recLsn'[queue'[j]]
    <2> DEFINE p == queue'[i]
               o == queue'[j]
    <2>1. p \in Pages /\ o \in Pages /\ first(p) < first(o)
        BY <1>3, <1>11
    <2> HIDE DEF p, o
    <2>2. ToRedo(p) # {} /\ ToRedo(o) # {}
        BY <1>3, <2>1 DEF p, o
    <2>3. first(p) \in Nat /\ first(o) \in Nat
        BY <1>2, <1>6, <2>1, <2>2
    <2>4. from(p) <= from(o)
        BY <1>2, <2>1, <2>3 DEF from, Larger
    <2>5. ReplayedUpTo(from(p)) <= ReplayedUpTo(from(o))
        BY <1>2, <1>6, <2>1, <2>2, <2>4, RecoveryRounds
    <2>6. recLsn'[p] <= recLsn'[o] /\ p # o
        BY <1>3, <2>1, <2>2, <2>3, <2>5
    <2> QED
        BY <2>6 DEF p, o
<1>12. InOrder(queue', recLsn')
    BY <1>3, <1>10, <1>11 DEF InOrder
<1>13. \A p \in Pages : recLsn'[p] <= queueRecLsn'
    BY <1>1, <1>2, <1>3, <1>7, <1>8, <1>9 DEF InvalidXLogRecPtr
<1>14. ASSUME NEW p \in Pages, recLsn'[p] # InvalidXLogRecPtr PROVE control.redo <= recLsn'[p]
    BY <1>2, <1>6, <1>9, <1>10, <1>14
<1>15. ASSUME NEW p \in Pages, NEW i \in Rows(p), disk[p].lsn < EndOf(i)
       PROVE  recLsn'[p] \in 1 .. i
    <2>1. i \in Nat /\ EndOf(i) \in Nat
        BY <1>2, <1>5 DEF EndOf
    <2>2. control.redo <= i
        BY <1>2, <1>4, <1>15, <2>1 DEF RowsOnDisk
    <2>3. i \in ToRedo(p)
        BY <1>5, <1>15, <2>2
    <2>4. first(p) <= i /\ recLsn'[p] \in control.redo .. from(p) /\ from(p) <= first(p)
          /\ first(p) \in Nat /\ from(p) \in Nat
        BY <1>2, <1>5, <1>6, <1>9, <2>3
    <2> QED
        BY <1>2, <2>1, <2>4
<1>16. \A p \in Pages : Rows(p)' = Rows(p)
    BY <1>1 DEF Rows
<1>17. control.redo <= queueRecLsn'
    BY <1>1, <1>2, <1>7, <1>8
<1> QED
    BY <1>1, <1>12, <1>13, <1>14, <1>15, <1>16, <1>17 DEF QueueInv

LEMMA QueueStep ==
    ASSUME IInv, [Next]_vars
    PROVE  QueueInv'
<1>1. TypeOK'
    BY TypeStep
<1>2. ASSUME NEW x \in Xids, MarkBufferDirty(x) \/ SetHintBits(x) PROVE QueueInv'
    <2>1. /\ Up /\ push_pending_flush_queue(PageOf[x], queue, recLsn) /\ PageOf[x] \in Pages
          /\ UNCHANGED <<wal, written, control, queueRecLsn, server>>
        BY <1>2, RecoveryAssumption DEF MarkBufferDirty, SetHintBits, InFirstRun, Up, walVars,
           serverVars
    <2> QED
        BY <1>1, <2>1, QueueDirty
<1>3. ASSUME NEW p \in Pages, TerminateBufferIO(p) PROVE QueueInv'
    <2>1. UNCHANGED <<wal, written, control, queueRecLsn, server>>
        BY <1>3 DEF TerminateBufferIO, walVars, serverVars
    <2> QED
        BY <1>1, <1>3, <2>1, QueueDirty
<1>4. ASSUME Crash PROVE QueueInv'
    <2>1. /\ recLsn' = [p \in Pages |-> 0] /\ queue' = <<>> /\ queueRecLsn' = 0 /\ ~Up'
        BY <1>4 DEF Crash, Up, InvalidXLogRecPtr
    <2>2. DOMAIN queue' = {} /\ \A p \in Pages : recLsn'[p] = 0
        BY <2>1
    <2>3. InOrder(queue', recLsn')
        BY <2>2 DEF InOrder, InvalidXLogRecPtr
    <2> QED
        BY <2>1, <2>2, <2>3 DEF QueueInv
<1>5. ASSUME ~Crash, \A x \in Xids : ~InsertRow(x),
             UNCHANGED <<queue, recLsn, written, control>>, Up' => Up,
             \/ queueRecLsn' = queueRecLsn
             \/ \E x \in Xids : RowDone(x) \/ CommitLogged(x)
             \/ InsertCheckpoint \/ RaiseQueueRecLsn
      PROVE  QueueInv'
    <2>1. \A p \in Pages : Rows(p)' = Rows(p)
        BY <1>5, LogGrows DEF IInv
    <2>2. queueRecLsn \in Nat /\ curInsert \in Nat /\ start \in [Xids -> Nat]
        BY DEF IInv, TypeOK, LogType, QueueType, XactType, curInsert
    <2>3. UpdateStep \in Nat
        BY RecoveryAssumption
    <2>4. queueRecLsn <= queueRecLsn'
        BY <1>5, <2>2, <2>3 DEF update_dirty_page_queue_rec_lsn, RowDone, CommitLogged,
           InsertCheckpoint, RaiseQueueRecLsn, Larger
    <2> QED
        BY <1>1, <1>5, <2>1, <2>4, QueueKept
<1>6. \/ \E x \in Xids : MarkBufferDirty(x) \/ SetHintBits(x) \/ InsertRow(x)
      \/ \E p \in Pages : FlushBuffer(p) \/ TerminateBufferIO(p)
      \/ ckpt_move_queue_head_after_flush \/ UpdateControlFile \/ Crash \/ StartupXLOG
      \/ /\ UNCHANGED <<queue, recLsn, written, control>> /\ (Up' => Up)
         /\ \/ queueRecLsn' = queueRecLsn
            \/ \E x \in Xids : RowDone(x) \/ CommitLogged(x)
            \/ InsertCheckpoint \/ RaiseQueueRecLsn
    BY DEF Next, Session, PageWriter, Checkpointer, vars, pageVars, queueVars, serverVars, Up,
       RowDone, StartCommit, InsertCommit, CommitLogged, SetClog, EndCommit, FlushWal,
       StartSuspendWalInsert, RaiseQueueRecLsn, FullRedo, FirstRecLsn, Proceed,
       Resume, ReadQueueRecLsn, Recheck, FindDelaying, WaitForDelaying, CheckPointCLOG,
       EndClogWrite, CheckPointBuffers, InsertCheckpoint, CheckForRestartPoint
<1> QED
    BY <1>1, <1>2, <1>3, <1>4, <1>5, <1>6, QueueInsert, QueueFlush, QueueHead, QueueControl,
       QueueStartup

-----------------------------------------------------------------------------
(* Transactions                                                            *)

\* What only a crash takes back.
LEMMA ClogGrows ==
    ASSUME IInv, [Next]_vars, ~Crash
    PROVE  /\ clog \subseteq clog' /\ clogDisk \subseteq clogDisk' /\ crashes' = crashes
           /\ Up => Up'
           /\ ~StartupXLOG => (Up' => Up)
           /\ server' # "running" => server # "running"
<1>1. clogDisk \subseteq clogDisk' \/ EndClogWrite
    BY DEF Next, Session, PageWriter, Checkpointer, vars, clogVars,
       MarkBufferDirty, InsertRow, RowDone, StartCommit, InsertCommit, CommitLogged, SetClog,
       EndCommit, SetHintBits, FlushBuffer, TerminateBufferIO,
       ckpt_move_queue_head_after_flush, FlushWal, StartSuspendWalInsert,
       RaiseQueueRecLsn, FullRedo, FirstRecLsn, Proceed, Resume, ReadQueueRecLsn,
       Recheck, FindDelaying, WaitForDelaying, CheckPointCLOG,
       CheckPointBuffers, InsertCheckpoint, UpdateControlFile, StartupXLOG, CheckForRestartPoint
<1>2. EndClogWrite => clogDisk \subseteq clogDisk'
    BY DEF EndClogWrite, IInv, ClogInv
<1>3. clog \subseteq clog' /\ crashes' = crashes
    BY DEF Next, Session, PageWriter, Checkpointer, vars, clogVars, serverVars,
       MarkBufferDirty, InsertRow, RowDone, StartCommit, InsertCommit, CommitLogged, SetClog,
       EndCommit, SetHintBits, FlushBuffer, TerminateBufferIO,
       ckpt_move_queue_head_after_flush, FlushWal, StartSuspendWalInsert,
       RaiseQueueRecLsn, FullRedo, FirstRecLsn, Proceed, Resume, ReadQueueRecLsn,
       Recheck, FindDelaying, WaitForDelaying, CheckPointCLOG, EndClogWrite,
       CheckPointBuffers, InsertCheckpoint, UpdateControlFile, StartupXLOG, CheckForRestartPoint
<1>4. \/ server' = server
      \/ StartupXLOG /\ server = "down" /\ server' = "recovery"
      \/ server = "recovery" /\ server' = "running"
    BY ZenonT(60) DEF Next, Session, PageWriter, Checkpointer, vars, serverVars,
       MarkBufferDirty, InsertRow, RowDone, StartCommit, InsertCommit, CommitLogged, SetClog,
       EndCommit, SetHintBits, FlushBuffer, TerminateBufferIO,
       ckpt_move_queue_head_after_flush, FlushWal, StartSuspendWalInsert,
       RaiseQueueRecLsn, FullRedo, FirstRecLsn, Proceed, Resume, ReadQueueRecLsn,
       Recheck, FindDelaying, WaitForDelaying, CheckPointCLOG, EndClogWrite,
       CheckPointBuffers, InsertCheckpoint, UpdateControlFile, StartupXLOG, CheckForRestartPoint
<1> QED
    BY <1>1, <1>2, <1>3, <1>4 DEF Up

\* A commit comes after the row.
LEMMA LogOrder ==
    ASSUME IInv, [Next]_vars, NEW i \in DOMAIN wal', wal'[i].type = "commit"
    PROVE  \E j \in 1 .. i - 1 : wal'[j].type = "row" /\ wal'[j].xid = wal'[i].xid
<1>1. /\ wal \in Seq(Records) /\ Len(wal) \in Nat /\ DOMAIN wal = 1 .. Len(wal)
      /\ curInsert = Len(wal) + 1
    BY DEF IInv, TypeOK, LogType, curInsert
<1>2. wal' \in Seq(Records) /\ wal'[i] \in Records /\ i \in Nat
    BY LogTypeStep DEF LogType
<1>3. ASSUME NEW k \in DOMAIN wal, wal[k].type = "commit"
      PROVE  \E j \in 1 .. k - 1 : wal[j].type = "row" /\ wal[j].xid = wal[k].xid
    BY <1>3 DEF IInv, XactInv
<1>4. CASE Crash
    <2>1. i \in DOMAIN wal /\ wal'[i] = wal[i]
        BY <1>4, CrashKeeps
    <2>2. PICK j \in 1 .. i - 1 : wal[j].type = "row" /\ wal[j].xid = wal[i].xid
        BY <2>1, <1>3
    <2>3. j \in DOMAIN wal' /\ wal'[j] = wal[j]
        <3>1. DOMAIN wal' = 1 .. Len(wal') /\ Len(wal') \in Nat
            BY <1>2
        <3>2. j \in DOMAIN wal'
            BY <1>1, <2>1, <3>1
        <3> QED
            BY <1>4, <3>2, CrashKeeps
    <2> QED
        BY <2>1, <2>2, <2>3
<1>5. CASE ~Crash
    <2>1. \A k \in DOMAIN wal : wal'[k] = wal[k]
        BY <1>5, LogGrows DEF IInv
    <2>0. PICK x \in Xids : x = wal'[i].xid
        BY <1>2 DEF Records
    <2>2. i \in Commits(x)'
        BY <2>0 DEF Commits
    <2>3. CASE i \in Commits(x)
        <3>1. i \in DOMAIN wal /\ wal[i].type = "commit"
            BY <2>3 DEF Commits
        <3>2. PICK j \in 1 .. i - 1 : wal[j].type = "row" /\ wal[j].xid = wal[i].xid
            BY <3>1, <1>3
        <3>3. wal'[j] = wal[j] /\ wal'[i] = wal[i]
            BY <1>1, <2>1, <3>1
        <3> QED
            BY <3>2, <3>3
    <2>4. CASE i \notin Commits(x)
        <3>1. i = curInsert /\ InsertCommit(x)
            BY <1>5, <2>2, <2>4, LogGrows DEF IInv
        <3>2. PICK j \in DOMAIN wal : wal[j].type = "row" /\ wal[j].xid = x
            BY <2>2, <3>1 DEF InsertCommit, IInv, XactInv, XactOK
        <3>3. j \in 1 .. i - 1 /\ wal'[j] = wal[j]
            BY <1>1, <2>1, <3>1
        <3> QED
            BY <2>0, <3>2, <3>3
    <2> QED
        BY <2>3, <2>4
<1> QED
    BY <1>4, <1>5

\* What has been acknowledged stays committed.
LEMMA AckedStep ==
    ASSUME IInv, [Next]_vars, NEW x \in acked'
    PROVE  CommittedBy(x, flushed)' /\ (Up' => x \in clog')
<1>1. /\ acked \subseteq Xids /\ x \in Xids /\ flushed \in Nat /\ flushed' \in Nat
      /\ wal \in Seq(Records) /\ wal' \in Seq(Records)
    BY LogTypeStep, XactTypeStep DEF IInv, TypeOK, LogType, XactType, curInsert
<1>2. x \in acked => CommittedBy(x, flushed) /\ (Up => x \in clog)
    BY DEF IInv, XactInv
<1>3. CASE Crash
    BY <1>1, <1>2, <1>3, CrashKeeps DEF Crash, Up
<1>4. CASE ~Crash
    <2>0. acked' = acked \/ \E y \in Xids : EndCommit(y)
        BY <1>4 DEF Next, Session, PageWriter, Checkpointer, vars, xactVars,
           MarkBufferDirty, InsertRow, RowDone, StartCommit, InsertCommit, CommitLogged, SetClog,
           SetHintBits, FlushBuffer, TerminateBufferIO,
           ckpt_move_queue_head_after_flush, FlushWal, StartSuspendWalInsert,
           RaiseQueueRecLsn, FullRedo, FirstRecLsn, Proceed, Resume, ReadQueueRecLsn,
           Recheck, FindDelaying, WaitForDelaying, CheckPointCLOG, EndClogWrite,
           CheckPointBuffers, InsertCheckpoint, UpdateControlFile, StartupXLOG,
           CheckForRestartPoint
    <2>1. x \in acked \/ (EndCommit(x) /\ x \in SyncCommit)
        BY <2>0 DEF EndCommit
    <2>2. EndCommit(x) /\ x \in SyncCommit => CommittedBy(x, flushed) /\ x \in clog
        BY <1>1 DEF EndCommit, IInv, XactInv, XactOK, CommittedBy
    <2>3. PICK i \in Commits(x) : EndOf(i) <= flushed
        BY <1>2, <2>1, <2>2 DEF CommittedBy
    <2>4. i \in Nat /\ i \in Commits(x)' /\ flushed <= flushed'
        BY <1>1, <1>4, LogTypes, LogGrows DEF IInv
    <2>5. EndOf(i) <= flushed'
        BY <1>1, <2>3, <2>4 DEF EndOf
    <2>6. CommittedBy(x, flushed)'
        BY <2>4, <2>5 DEF CommittedBy
    <2>7. Up' => x \in clog'
        <3>1. CASE StartupXLOG
            BY <1>1, <2>3, <3>1, ClogRestored
        <3>2. CASE ~StartupXLOG
            BY <1>2, <1>4, <2>1, <2>2, <3>2, ClogGrows
        <3> QED
            BY <3>1, <3>2
    <2> QED
        BY <2>6, <2>7
<1> QED
    BY <1>3, <1>4


\* A transaction that does not move.
LEMMA XactKept ==
    ASSUME IInv, [Next]_vars, ~Crash, NEW x \in Xids, pc'[x] = pc[x]
    PROVE  XactOK(x)'
<1> DEFINE p == PageOf[x]
           holds == pc[x] \in {"insert", "inserted"}
<1>1. /\ TypeOK /\ TypeOK' /\ XactOK(x) /\ p \in Pages /\ x # NoXid
      /\ \A y \in Xids : XactOK(y)
    BY TypeStep, RecoveryAssumption DEF IInv, XactInv
<1>2. lock \in [Pages -> Xids \cup {NoXid}] /\ pc \in [Xids -> Labels]
      /\ start \in [Xids -> Nat] /\ start' \in [Xids -> Nat]
    BY <1>1 DEF TypeOK, PageType, XactType, LogType
<1>3. holds => lock[p] = x /\ recLsn[p] # InvalidXLogRecPtr
    BY <1>1 DEF XactOK
<1>4. ASSUME holds PROVE ~StartupXLOG
    BY <1>1, <1>4 DEF XactOK, StartupXLOG, IInv, XactInv
<1>5. ASSUME holds PROVE lock'[p] = x
    <2>1. ASSUME NEW y \in Xids, MarkBufferDirty(y) PROVE lock'[p] = x
        BY <1>1, <1>2, <1>3, <1>5, <2>1 DEF MarkBufferDirty
    <2>2. ASSUME NEW y \in Xids, RowDone(y) PROVE lock'[p] = x
        <3>1. y # x
            BY <1>2, <1>5, <2>2 DEF RowDone, Goto
        <3>2. PageOf[y] # p
            BY <1>1, <1>3, <1>5, <2>2, <3>1 DEF RowDone, XactOK
        <3> QED
            BY <1>1, <1>2, <1>3, <1>5, <2>2, <3>2 DEF RowDone
    <2>3. lock' = lock \/ \E y \in Xids : MarkBufferDirty(y) \/ RowDone(y)
        BY <1>4, <1>5 DEF Next, Session, PageWriter, Checkpointer, vars, pageVars,
           InsertRow, StartCommit, InsertCommit, CommitLogged, SetClog,
           EndCommit, SetHintBits, FlushBuffer, TerminateBufferIO,
           ckpt_move_queue_head_after_flush, FlushWal, StartSuspendWalInsert,
           RaiseQueueRecLsn, FullRedo, FirstRecLsn, Proceed, Resume, ReadQueueRecLsn,
           Recheck, FindDelaying, WaitForDelaying, CheckPointCLOG, EndClogWrite,
           CheckPointBuffers, InsertCheckpoint, UpdateControlFile, CheckForRestartPoint
    <2> QED
        BY <1>3, <1>5, <2>1, <2>2, <2>3
<1>6. ASSUME holds PROVE recLsn'[p] # InvalidXLogRecPtr
    <2>1. ASSUME NEW y \in Xids, MarkBufferDirty(y) \/ SetHintBits(y)
          PROVE  recLsn'[p] # InvalidXLogRecPtr
        <3>1. Up /\ push_pending_flush_queue(PageOf[y], queue, recLsn) /\ PageOf[y] \in Pages
            BY <2>1, RecoveryAssumption DEF MarkBufferDirty, SetHintBits, InFirstRun, Up
        <3>2. ~TerminateBufferIO(PageOf[y])
            <4>1. io \in [Pages -> {"none", "written"}]
                BY <1>1 DEF TypeOK, PageType
            <4>2. io' = io
                BY <2>1 DEF MarkBufferDirty, SetHintBits
            <4> QED
                BY <3>1, <4>1, <4>2 DEF TerminateBufferIO
        <3>3. /\ \A o \in Pages : o # PageOf[y] => recLsn'[o] = recLsn[o]
              /\ recLsn'[PageOf[y]] # InvalidXLogRecPtr
            BY <3>1, <3>2, DirtyStep
        <3> QED
            BY <1>1, <1>3, <1>6, <3>3
    <2>2. ASSUME NEW o \in Pages, TerminateBufferIO(o) PROVE recLsn'[p] # InvalidXLogRecPtr
        <3>1. lock[o] = NoXid
            BY <2>2 DEF TerminateBufferIO, IInv, PageInv, PageOK
        <3>2. o # p
            BY <1>1, <1>3, <1>6, <3>1
        <3>3. recLsn'[p] = recLsn[p]
            BY <1>1, <2>2, <3>2, DirtyStep
        <3> QED
            BY <1>3, <1>6, <3>3
    <2>3. \/ recLsn' = recLsn
          \/ \E y \in Xids : MarkBufferDirty(y) \/ SetHintBits(y)
          \/ \E o \in Pages : TerminateBufferIO(o)
        BY <1>4, <1>6 DEF Next, Session, PageWriter, Checkpointer, vars, queueVars,
           InsertRow, RowDone, StartCommit, InsertCommit, CommitLogged, SetClog,
           EndCommit, FlushBuffer,
           ckpt_move_queue_head_after_flush, FlushWal, StartSuspendWalInsert,
           RaiseQueueRecLsn, FullRedo, FirstRecLsn, Proceed, Resume, ReadQueueRecLsn,
           Recheck, FindDelaying, WaitForDelaying, CheckPointCLOG, EndClogWrite,
           CheckPointBuffers, InsertCheckpoint, UpdateControlFile, CheckForRestartPoint
    <2> QED
        BY <1>3, <1>6, <2>1, <2>2, <2>3
<1>7. start'[x] = start[x]
    <2>1. ASSUME NEW y \in Xids, InsertRow(y) \/ InsertCommit(y) PROVE start'[x] = start[x]
        BY <1>2, <2>1 DEF InsertRow, InsertCommit, Goto
    <2>2. start' = start \/ \E y \in Xids : InsertRow(y) \/ InsertCommit(y)
        BY DEF Next, Session, PageWriter, Checkpointer, vars, xactVars,
           MarkBufferDirty, RowDone, StartCommit, CommitLogged, SetClog,
           EndCommit, SetHintBits, FlushBuffer, TerminateBufferIO,
           ckpt_move_queue_head_after_flush, FlushWal, StartSuspendWalInsert,
           RaiseQueueRecLsn, FullRedo, FirstRecLsn, Proceed, Resume, ReadQueueRecLsn,
           Recheck, FindDelaying, WaitForDelaying, CheckPointCLOG, EndClogWrite,
           CheckPointBuffers, InsertCheckpoint, UpdateControlFile, StartupXLOG,
           CheckForRestartPoint
    <2> QED
        BY <2>1, <2>2
<1>8. /\ flushed <= flushed' /\ clog \subseteq clog' /\ crashes' = crashes
      /\ \A i \in DOMAIN wal : i \in DOMAIN wal' /\ wal'[i] = wal[i]
      /\ Commits(x) \subseteq Commits(x)'
      /\ flushed \in Nat /\ flushed' \in Nat
    BY <1>1, LogGrows, ClogGrows DEF TypeOK, LogType, curInsert
<1>9. ASSUME \E i \in DOMAIN wal : wal[i].type = "row" /\ wal[i].xid = x
      PROVE  \E i \in DOMAIN wal' : wal'[i].type = "row" /\ wal'[i].xid = x
    BY <1>8, <1>9
<1>10. EndOf(start[x]) <= flushed => EndOf(start'[x]) <= flushed'
    BY <1>2, <1>7, <1>8 DEF EndOf
<1>11. holds => lock'[p] = x /\ recLsn'[p] # InvalidXLogRecPtr
    BY <1>5, <1>6
<1> QED
    BY <1>1, <1>7, <1>8, <1>9, <1>10, <1>11 DEF XactOK

\* A transaction takes a step.
LEMMA XactMoves ==
    ASSUME IInv, [Next]_vars, NEW x \in Xids, MarkBufferDirty(x) \/ Session(x)
    PROVE  XactOK(x)'
<1> DEFINE p == PageOf[x]
<1>1. /\ TypeOK /\ TypeOK' /\ XactOK(x) /\ p \in Pages
    BY TypeStep, RecoveryAssumption DEF IInv, XactInv
<1>2. /\ pc \in [Xids -> Labels] /\ start \in [Xids -> Nat] /\ lock \in [Pages -> Xids \cup {NoXid}]
      /\ wal \in Seq(Records) /\ Len(wal) \in Nat /\ curInsert = Len(wal) + 1
    BY <1>1 DEF TypeOK, PageType, XactType, LogType, curInsert
<1>3. CASE MarkBufferDirty(x)
    <2>1. /\ Up /\ push_pending_flush_queue(p, queue, recLsn) /\ crashes' = 0
          /\ pc'[x] = "insert" /\ lock'[p] = x /\ io[p] = "none"
        BY <1>1, <1>2, <1>3 DEF MarkBufferDirty, InFirstRun, Up, Goto, serverVars
    <2>2. recLsn'[p] # InvalidXLogRecPtr
        BY <1>1, <2>1, DirtyStep DEF TerminateBufferIO
    <2> QED
        BY <2>1, <2>2 DEF XactOK
<1>4. CASE InsertRow(x)
    <2>1. /\ pc[x] = "insert" /\ pc'[x] = "inserted" /\ UNCHANGED <<lock, recLsn, crashes>>
        BY <1>2, <1>4 DEF InsertRow, Goto, queueVars, serverVars
    <2> DEFINE r == [type |-> "row", xid |-> x]
    <2>2. r \in Records /\ wal' = Append(wal, r) /\ r.type = "row" /\ r.xid = x
        BY <1>4, Inserted
    <2> HIDE DEF r
    <2>3. curInsert \in DOMAIN wal' /\ wal'[curInsert] = r
        <3>1. wal' \in Seq(Records) /\ Len(wal') = Len(wal) + 1 /\ wal'[curInsert] = r
            BY <1>2, <2>2, LogAppend
        <3> QED
            BY <1>2, <3>1
    <2> QED
        BY <1>1, <2>1, <2>2, <2>3 DEF XactOK
<1>5. CASE RowDone(x)
    BY <1>1, <1>2, <1>5 DEF RowDone, Goto, walVars, serverVars, XactOK
<1>6. CASE StartCommit(x)
    BY <1>1, <1>2, <1>6 DEF StartCommit, Goto, walVars, serverVars, XactOK
<1>7. CASE InsertCommit(x)
    <2>1. /\ pc[x] = "commit" /\ pc'[x] = "logged" /\ UNCHANGED crashes /\ start'[x] = curInsert
        BY <1>2, <1>7 DEF InsertCommit, Goto, serverVars
    <2> DEFINE r == [type |-> "commit", xid |-> x]
    <2>2. r \in Records /\ wal' = Append(wal, r) /\ r.type = "commit" /\ r.xid = x
        BY <1>7, Inserted
    <2> HIDE DEF r
    <2>3. /\ Commits(x)' = Commits(x) \cup {i \in {curInsert} : r.type = "commit" /\ r.xid = x}
          /\ \A i \in 1 .. Len(wal) : wal'[i] = wal[i]
          /\ wal' \in Seq(Records) /\ Len(wal') = Len(wal) + 1
        BY <1>2, <2>2, LogAppend
    <2>4. start'[x] \in Commits(x)'
        BY <2>1, <2>2, <2>3
    <2>5. PICK i \in DOMAIN wal : wal[i].type = "row" /\ wal[i].xid = x
        BY <1>1, <2>1 DEF XactOK
    <2>6. i \in DOMAIN wal' /\ wal'[i] = wal[i]
        BY <1>2, <2>3
    <2> QED
        BY <1>1, <2>1, <2>4, <2>5, <2>6 DEF XactOK
<1>8. CASE CommitLogged(x)
    <2>1. /\ pc[x] = "logged" /\ pc'[x] = "flush" /\ UNCHANGED <<wal, start, crashes>>
        BY <1>2, <1>8 DEF CommitLogged, Goto, walVars, serverVars
    <2> QED
        BY <1>1, <2>1 DEF XactOK, Commits
<1>9. CASE SetClog(x)
    <2>1. /\ pc[x] = "flush" /\ pc'[x] = "set" /\ UNCHANGED <<wal, flushed, start, crashes>>
          /\ x \in clog' /\ (x \in SyncCommit => flushed >= EndOf(start[x]))
        BY <1>2, <1>9 DEF SetClog, Goto, walVars, serverVars
    <2>2. flushed \in Nat /\ EndOf(start[x]) \in Nat
        BY <1>1, <1>2 DEF TypeOK, LogType, curInsert, EndOf
    <2>3. x \in SyncCommit => EndOf(start[x]) <= flushed
        BY <2>1, <2>2
    <2> QED
        BY <1>1, <2>1, <2>3 DEF XactOK, Commits
<1>10. CASE EndCommit(x)
    <2>1. pc'[x] = "done"
        BY <1>2, <1>10 DEF EndCommit, Goto
    <2> QED
        BY <2>1 DEF XactOK
<1> QED
    BY <1>3, <1>4, <1>5, <1>6, <1>7, <1>8, <1>9, <1>10 DEF Session

LEMMA XactStep ==
    ASSUME IInv, [Next]_vars
    PROVE  XactInv'
<1>1. /\ pc \in [Xids -> Labels] /\ pc' \in [Xids -> Labels] /\ crashes \in Nat
      /\ delayChkpt = {x \in Xids : pc[x] \in {"commit", "logged", "flush", "set"}}
      /\ server # "running" => crashes # 0
    BY TypeStep DEF IInv, TypeOK, XactType, ServerType, XactInv
<1>2. ASSUME ~Crash
      PROVE  \/ UNCHANGED <<pc, delayChkpt>>
             \/ \E x \in Xids : (MarkBufferDirty(x) \/ Session(x))
    BY <1>2 DEF Next, PageWriter, Checkpointer, vars, xactVars,
       SetHintBits, FlushBuffer, TerminateBufferIO,
       ckpt_move_queue_head_after_flush, FlushWal, StartSuspendWalInsert,
       RaiseQueueRecLsn, FullRedo, FirstRecLsn, Proceed, Resume, ReadQueueRecLsn,
       Recheck, FindDelaying, WaitForDelaying, CheckPointCLOG, EndClogWrite,
       CheckPointBuffers, InsertCheckpoint, UpdateControlFile, StartupXLOG, CheckForRestartPoint
<1>3. ASSUME NEW x \in Xids, MarkBufferDirty(x) \/ Session(x)
      PROVE  /\ \A y \in Xids : y # x => pc'[y] = pc[y]
             /\ delayChkpt' = {y \in Xids : pc'[y] \in {"commit", "logged", "flush", "set"}}
    <2>1. \E l \in Labels : pc' = [pc EXCEPT ![x] = l]
        BY <1>3 DEF MarkBufferDirty, Session, InsertRow, RowDone, StartCommit, InsertCommit,
           CommitLogged, SetClog, EndCommit, Goto, Labels
    <2>2. \A y \in Xids : y # x => pc'[y] = pc[y]
        BY <1>1, <2>1
    <2>3. /\ x \in delayChkpt' <=> pc'[x] \in {"commit", "logged", "flush", "set"}
          /\ \A y : y # x => (y \in delayChkpt' <=> y \in delayChkpt)
        BY <1>1, <1>3 DEF MarkBufferDirty, Session, InsertRow, RowDone, StartCommit,
           InsertCommit, CommitLogged, SetClog, EndCommit, Goto, xactVars
    <2> QED
        BY <1>1, <2>2, <2>3
<1>4. delayChkpt' = {x \in Xids : pc'[x] \in {"commit", "logged", "flush", "set"}}
    <2>1. CASE Crash
        BY <2>1 DEF Crash
    <2> QED
        BY <1>1, <1>2, <1>3, <2>1
<1>5. ASSUME NEW x \in Xids PROVE XactOK(x)'
    <2>1. CASE Crash
        <3>1. pc'[x] \in {"idle", "done", "lost"}
            BY <2>1 DEF Crash
        <3> QED
            BY <3>1 DEF XactOK
    <2>2. CASE ~Crash
        <3>1. pc'[x] = pc[x] \/ MarkBufferDirty(x) \/ Session(x)
            BY <1>2, <1>3, <2>2
        <3> QED
            BY <2>2, <3>1, XactKept, XactMoves
    <2> QED
        BY <2>1, <2>2
<1>6. server' # "running" => crashes' # 0
    <2>1. CASE Crash
        BY <1>1, <2>1 DEF Crash
    <2> QED
        BY <1>1, <2>1, ClogGrows
<1> QED
    BY <1>4, <1>5, <1>6, LogOrder, AckedStep DEF XactInv

-----------------------------------------------------------------------------
(* The commit log                                                          *)

\* A commit that is in the log is in the commit log, or will be.
LEMMA LoggedIsSet ==
    ASSUME IInv, [Next]_vars, Up', NEW x \in Xids, Commits(x)' # {}
    PROVE  x \in clog' \/ pc'[x] \in {"logged", "flush"}
<1>1. ~Crash /\ pc \in [Xids -> Labels]
    BY DEF Crash, Up, IInv, TypeOK, XactType
<1>2. CASE StartupXLOG
    <2>1. Commits(x)' = Commits(x)
        BY <1>2 DEF StartupXLOG, walVars, Commits
    <2> QED
        BY <1>2, <2>1, ClogRestored
<1>3. CASE InsertCommit(x)
    BY <1>1, <1>3 DEF InsertCommit, Goto
<1>4. CASE ~StartupXLOG /\ ~InsertCommit(x)
    <2>1. Commits(x) # {} /\ Up
        BY <1>1, <1>4, LogGrows, ClogGrows DEF IInv
    <2>2. x \in clog \/ pc[x] \in {"logged", "flush"}
        BY <2>1 DEF IInv, ClogInv
    <2>3. ASSUME pc[x] \in {"logged", "flush"}
          PROVE  x \in clog' \/ pc'[x] \in {"logged", "flush"}
        <3>1. pc'[x] = pc[x] \/ MarkBufferDirty(x) \/ Session(x)
            <4>1. ASSUME NEW y \in Xids, y # x, MarkBufferDirty(y) \/ Session(y)
                  PROVE  pc'[x] = pc[x]
                BY <1>1, <4>1 DEF MarkBufferDirty, Session, InsertRow, RowDone, StartCommit,
                   InsertCommit, CommitLogged, SetClog, EndCommit, Goto
            <4>2. UNCHANGED pc \/ \E y \in Xids : (MarkBufferDirty(y) \/ Session(y))
                BY <1>1 DEF Next, PageWriter, Checkpointer, vars, xactVars,
                   SetHintBits, FlushBuffer, TerminateBufferIO,
                   ckpt_move_queue_head_after_flush, FlushWal, StartSuspendWalInsert,
                   RaiseQueueRecLsn, FullRedo, FirstRecLsn, Proceed, Resume,
                   ReadQueueRecLsn, Recheck, FindDelaying, WaitForDelaying, CheckPointCLOG,
                   EndClogWrite, CheckPointBuffers, InsertCheckpoint, UpdateControlFile,
                   StartupXLOG, CheckForRestartPoint
            <4> QED
                BY <4>1, <4>2
        <3>2. MarkBufferDirty(x) \/ Session(x) => CommitLogged(x) \/ SetClog(x)
            BY <2>3 DEF MarkBufferDirty, Session, InsertRow, RowDone, StartCommit,
               InsertCommit, EndCommit
        <3> QED
            BY <1>1, <2>3, <3>1, <3>2 DEF CommitLogged, SetClog, Goto
    <2> QED
        BY <1>1, <2>2, <2>3, ClogGrows
<1> QED
    BY <1>2, <1>3, <1>4

\* What is written of a commit log whose page is as it was.
LEMMA ClogKept ==
    ASSUME IInv, [Next]_vars, ~Crash, UNCHANGED clogVars, Up' => Up,
           ckpt'.at = "clogwrite" <=> ckpt.at = "clogwrite"
    PROVE  ClogInv'
<1>1. /\ flushed \in Nat /\ flushed' \in Nat /\ flushed <= flushed' /\ clogLsn \in Nat
      /\ \A x \in Xids : Commits(x) \subseteq Commits(x)' /\ Commits(x) \subseteq Nat
      /\ clog \subseteq Xids /\ clogDisk \subseteq Xids
    BY TypeStep, LogGrows, LogTypes DEF IInv, TypeOK, LogType, ClogType, curInsert
<1>2. UNCHANGED <<clog, clogLsn, clogDirty, clogWrite, clogDisk>>
    BY DEF clogVars
<1>3. ASSUME NEW x \in clogDisk PROVE CommittedBy(x, flushed)'
    BY <1>1 DEF IInv, ClogInv, CommittedBy, EndOf
<1>4. ASSUME NEW x \in clog PROVE CommittedBy(x, Larger(flushed, clogLsn))'
    BY <1>1, <1>2 DEF IInv, ClogInv, CommittedBy, EndOf, Larger
<1> QED
    BY <1>2, <1>3, <1>4, LoggedIsSet DEF IInv, ClogInv

LEMMA ClogStep ==
    ASSUME IInv, [Next]_vars
    PROVE  ClogInv'
<1>1. /\ TypeOK /\ TypeOK' /\ flushed \in Nat /\ flushed' \in Nat /\ clogLsn \in Nat
      /\ \A x \in Xids : Commits(x) \subseteq Nat
      /\ clog \subseteq Xids /\ clogDisk \subseteq Xids /\ clog' \subseteq Xids
      /\ ClogInv /\ wal \in Seq(Records)
      /\ clogWrite \in [on : BOOLEAN, image : SUBSET Xids] /\ clogDirty \in BOOLEAN
    BY TypeStep, LogTypes DEF IInv, TypeOK, LogType, ClogType, curInsert
<1>2. ASSUME NEW x \in Xids, SetClog(x) PROVE ClogInv'
    <2>1. /\ UNCHANGED <<wal, flushed, clogWrite, clogDisk, ckpt>> /\ clog' = clog \cup {x}
          /\ clogDirty' /\ pc[x] = "flush"
          /\ \/ x \in SyncCommit /\ flushed >= EndOf(start[x]) /\ clogLsn' = clogLsn
             \/ clogLsn' = Larger(clogLsn, EndOf(start[x]))
        BY <1>2 DEF SetClog, walVars
    <2>2. start[x] \in Commits(x) /\ EndOf(start[x]) \in Nat
        BY <1>1, <2>1 DEF IInv, XactInv, XactOK, EndOf
    <2>3. \A y : Commits(y)' = Commits(y)
        BY <2>1 DEF Commits
    <2>4. /\ clogLsn' \in Nat /\ clogLsn <= clogLsn'
          /\ EndOf(start[x]) <= Larger(flushed, clogLsn')
        BY <1>1, <2>1, <2>2 DEF Larger
    <2>5. ASSUME NEW y \in clog' PROVE CommittedBy(y, Larger(flushed, clogLsn))'
        <3>1. CASE y \in clog
            <4>1. PICK i \in Commits(y) : EndOf(i) <= Larger(flushed, clogLsn)
                BY <1>1, <3>1 DEF ClogInv, CommittedBy
            <4>2. EndOf(i) <= Larger(flushed, clogLsn')
                BY <1>1, <2>4, <3>1, <4>1 DEF Larger, EndOf
            <4> QED
                BY <2>1, <2>3, <4>2 DEF CommittedBy
        <3>2. CASE y = x
            BY <2>1, <2>2, <2>3, <2>4, <3>2 DEF CommittedBy
        <3> QED
            BY <2>1, <3>1, <3>2
    <2>6. ASSUME NEW y \in clogDisk PROVE CommittedBy(y, flushed)'
        BY <1>1, <2>1, <2>3 DEF ClogInv, CommittedBy
    <2>7. /\ clogDisk \subseteq clog'
          /\ clogWrite.on <=> ckpt.at = "clogwrite"
          /\ clogWrite.on => clogDisk \subseteq clogWrite.image /\ clogWrite.image \subseteq clog'
        BY <1>1, <2>1 DEF ClogInv
    <2> QED
        BY <2>1, <2>5, <2>6, <2>7, LoggedIsSet DEF ClogInv
<1>3. ASSUME CheckPointCLOG PROVE ClogInv'
    <2>1. /\ UNCHANGED <<wal, flushed, clog, clogLsn, clogDisk, server>> /\ ckpt.at = "clog"
          /\ \/ /\ clogWrite' = [on |-> TRUE, image |-> clog] /\ ~clogDirty'
                /\ ckpt'.at = "clogwrite"
             \/ /\ ~clogDirty /\ ckpt'.at = "buffers" /\ UNCHANGED <<clogWrite, clogDirty>>
        BY <1>1, <1>3 DEF CheckPointCLOG, CkptGoto, walVars, serverVars, TypeOK, CkptType
    <2>2. \A y : Commits(y)' = Commits(y)
        BY <2>1 DEF Commits
    <2>3. ASSUME NEW y \in clogDisk PROVE CommittedBy(y, flushed)'
        BY <1>1, <2>1, <2>2 DEF ClogInv, CommittedBy
    <2>4. ASSUME NEW y \in clog PROVE CommittedBy(y, Larger(flushed, clogLsn))'
        BY <1>1, <2>1, <2>2 DEF ClogInv, CommittedBy
    <2> QED
        BY <1>1, <2>1, <2>3, <2>4, LoggedIsSet DEF ClogInv
<1>4. ASSUME EndClogWrite PROVE ClogInv'
    <2>1. /\ UNCHANGED <<wal, flushed, clog, clogLsn, clogDirty, server>>
          /\ flushed >= clogLsn /\ clogWrite' = NoWrite /\ ckpt'.at = "buffers"
          /\ clogWrite.image \subseteq clogDisk' /\ clogDisk' \subseteq clog /\ clogWrite.on
        BY <1>1, <1>4 DEF EndClogWrite, ClogMayBeWritten, CkptGoto, walVars, serverVars, TypeOK,
           CkptType, ClogInv
    <2>2. \A y : Commits(y)' = Commits(y)
        BY <2>1 DEF Commits
    <2>3. Larger(flushed, clogLsn) = flushed /\ Larger(flushed', clogLsn') = flushed'
        BY <1>1, <2>1 DEF Larger
    <2>4. ASSUME NEW y \in clog PROVE CommittedBy(y, flushed)'
        BY <1>1, <2>1, <2>2, <2>3 DEF ClogInv, CommittedBy
    <2>5. ASSUME NEW y \in clog PROVE CommittedBy(y, Larger(flushed, clogLsn))'
        BY <2>3, <2>4 DEF CommittedBy
    <2>6. ~NoWrite.on
        BY DEF NoWrite
    <2>7. ~clogDirty => clog \subseteq clogDisk'
        BY <1>1, <2>1 DEF ClogInv
    <2> QED
        BY <2>1, <2>4, <2>5, <2>6, <2>7, LoggedIsSet DEF ClogInv
<1>5. ASSUME Crash PROVE ClogInv'
    <2>1. /\ clog' = clogDisk /\ clogDisk' = clogDisk /\ clogLsn' = 0 /\ clogWrite' = NoWrite
          /\ ckpt' = NoCkpt /\ ~Up'
        BY <1>5 DEF Crash, Up, InvalidXLogRecPtr
    <2>2. ~NoWrite.on /\ NoCkpt.at = "idle"
        BY DEF NoWrite, NoCkpt
    <2>3. ASSUME NEW y \in clogDisk PROVE CommittedBy(y, flushed)'
        BY <1>1, <1>5, CrashKeeps DEF ClogInv
    <2>4. Larger(flushed', clogLsn') = flushed'
        BY <1>1, <2>1 DEF Larger
    <2>5. ASSUME NEW y \in clogDisk PROVE CommittedBy(y, Larger(flushed, clogLsn))'
        BY <2>3, <2>4 DEF CommittedBy
    <2> QED
        BY <2>1, <2>2, <2>3, <2>5 DEF ClogInv
<1>6. ASSUME StartupXLOG PROVE ClogInv'
    <2>1. /\ UNCHANGED <<wal, flushed, clogLsn, clogWrite, clogDisk, ckpt>> /\ clog = clogDisk
          /\ ckpt.at = "idle" /\ flushed = curInsert /\ clog \subseteq clog'
          /\ ~clogDirty' => clog' = clog
        <3>1. /\ UNCHANGED <<wal, flushed, clogLsn, clogWrite, clogDisk, ckpt>>
              /\ clog \subseteq clog' /\ server = "down"
            BY <1>6 DEF StartupXLOG, walVars
        <3>2. ~clogDirty' => clog' = clog
            BY <1>6, Zenon DEF StartupXLOG
        <3>3. clog = clogDisk /\ ckpt = NoCkpt /\ flushed = curInsert
            BY <3>1 DEF IInv, DownInv
        <3> QED
            BY <3>1, <3>2, <3>3 DEF NoCkpt
    <2>2. ~clogWrite.on
        BY <1>1, <2>1 DEF ClogInv
    <2>3. \A y : Commits(y)' = Commits(y)
        BY <2>1 DEF Commits
    <2>4. ASSUME NEW y \in clogDisk PROVE CommittedBy(y, flushed)'
        BY <1>1, <2>1, <2>3 DEF ClogInv, CommittedBy
    <2>5. ASSUME NEW y \in clog' PROVE CommittedBy(y, Larger(flushed, clogLsn))'
        <3>1. PICK i \in Commits(y) : TRUE
            BY <1>1, <1>6, ClogRestored
        <3>2. i \in 1 .. Len(wal) /\ Len(wal) \in Nat
            BY <1>1, LogTypes
        <3>3. EndOf(i) <= Larger(flushed', clogLsn')
            BY <1>1, <2>1, <3>2 DEF EndOf, Larger, curInsert
        <3> QED
            BY <2>3, <3>3 DEF CommittedBy
    <2> QED
        BY <2>1, <2>2, <2>4, <2>5, LoggedIsSet DEF ClogInv
<1>7. ASSUME ~Crash, UNCHANGED clogVars, ~StartupXLOG,
             ckpt'.at = "clogwrite" <=> ckpt.at = "clogwrite"
      PROVE  ClogInv'
    BY <1>7, ClogKept, ClogGrows
<1>8. \/ \E x \in Xids : SetClog(x)
      \/ CheckPointCLOG \/ EndClogWrite \/ Crash \/ StartupXLOG
      \/ UNCHANGED clogVars
    BY ZenonT(60) DEF Next, Session, PageWriter, Checkpointer, vars, clogVars,
       MarkBufferDirty, InsertRow, RowDone, StartCommit, InsertCommit, CommitLogged,
       EndCommit, SetHintBits, FlushBuffer, TerminateBufferIO,
       ckpt_move_queue_head_after_flush, FlushWal, StartSuspendWalInsert,
       RaiseQueueRecLsn, FullRedo, FirstRecLsn, Proceed, Resume, ReadQueueRecLsn,
       Recheck, FindDelaying, WaitForDelaying,
       CheckPointBuffers, InsertCheckpoint, UpdateControlFile, CheckForRestartPoint
<1>9. \/ CheckPointCLOG \/ EndClogWrite \/ Crash
      \/ ckpt'.at = "clogwrite" <=> ckpt.at = "clogwrite"
    <2> DEFINE Goal == ckpt'.at = "clogwrite" <=> ckpt.at = "clogwrite"
    <2>1. ckpt \in [at : {"idle", "panic"} \cup Searching \cup Found, kind : Kinds \cup {"none"},
              redo : Nat, toFlush : Nat, wait : SUBSET Xids, record : Nat]
        BY <1>1 DEF TypeOK, CkptType
    <2>2. RaiseQueueRecLsn => Goal
        BY <2>1 DEF RaiseQueueRecLsn, CkptGoto
    <2>3. FullRedo => Goal
        BY <2>1 DEF FullRedo, Resume
    <2>4. \A redo : Proceed(redo) => ckpt'.at # "clogwrite"
        BY <2>1 DEF Proceed, Resume, NoCkpt
    <2>5. FirstRecLsn => Goal
        BY <2>1, <2>4 DEF FirstRecLsn, CkptGoto
    <2>6. ReadQueueRecLsn => Goal
        BY <2>1 DEF ReadQueueRecLsn
    <2>7. Recheck => Goal
        BY <2>4 DEF Recheck
    <2>8. FindDelaying => Goal
        BY <2>1 DEF FindDelaying
    <2>9. WaitForDelaying => Goal
        BY <2>1 DEF WaitForDelaying
    <2>10. CheckPointBuffers => Goal
        BY <2>1 DEF CheckPointBuffers, CkptGoto
    <2>11. InsertCheckpoint => Goal
        BY <2>1 DEF InsertCheckpoint
    <2>12. UpdateControlFile => Goal
        BY <2>1 DEF UpdateControlFile, CkptGoto, NoCkpt
    <2>13. ckpt_move_queue_head_after_flush => Goal
        BY <2>1 DEF ckpt_move_queue_head_after_flush
    <2>14. StartSuspendWalInsert => Goal
        BY <2>1 DEF StartSuspendWalInsert
    <2>15. ckpt' = ckpt => Goal
        OBVIOUS
    <2> HIDE DEF Goal
    <2>16. CheckPointCLOG \/ EndClogWrite \/ Crash \/ Goal
        BY <2>2, <2>3, <2>5, <2>6, <2>7, <2>8, <2>9, <2>10, <2>11, <2>12, <2>13, <2>14,
           <2>15
        DEF Next, Session, PageWriter, Checkpointer, vars,
           MarkBufferDirty, InsertRow, RowDone, StartCommit, InsertCommit, CommitLogged, SetClog,
           EndCommit, SetHintBits, FlushBuffer, TerminateBufferIO, FlushWal, StartupXLOG,
           CheckForRestartPoint
    <2> QED
        BY <2>16 DEF Goal
<1> QED
    BY <1>2, <1>3, <1>4, <1>5, <1>6, <1>7, <1>8, <1>9

-----------------------------------------------------------------------------
(* Checkpoints                                                             *)

\* What a record that is added later does not disturb.
LEMMA BeforeRedo ==
    ASSUME IInv, [Next]_vars, ~Crash, NEW redo \in Nat, redo <= curInsert
    PROVE  /\ \A x \in Xids : \A i \in Commits(x)' : i < redo => i \in Commits(x)
           /\ \A p \in Pages : \A i \in Rows(p)' : i < redo => i \in Rows(p)
<1>1. curInsert \in Nat
    BY DEF IInv, TypeOK, LogType, curInsert
<1>2. /\ \A p \in Pages : \A i \in Rows(p)' \ Rows(p) : i = curInsert
      /\ \A x \in Xids : \A i \in Commits(x)' \ Commits(x) : i = curInsert
    BY LogGrows DEF IInv
<1> QED
    BY <1>1, <1>2

\* Where the checkpointer is while a checkpoint is under way.
LEMMA CkptFacts ==
    ASSUME IInv, ckpt.at # "idle"
    PROVE  /\ Up /\ control.redo <= queueRecLsn /\ queueRecLsn <= curInsert
           /\ {control.redo, queueRecLsn, curInsert, ckpt.redo, ckpt.record, ckpt.toFlush}
                 \subseteq Nat
<1>1. Up
    BY DEF IInv, DownInv, NoCkpt, Up
<1>2. /\ queueRecLsn \in 0 .. curInsert /\ wal \in Seq(Records)
      /\ control \in [redo : Nat, record : Nat] /\ CkptType
    BY DEF IInv, TypeOK, LogType, QueueType, ServerType
<1>3. curInsert \in Nat
    BY <1>2 DEF curInsert
<1>4. ckpt.redo \in Nat /\ ckpt.record \in Nat /\ ckpt.toFlush \in Nat
    BY <1>2 DEF CkptType
<1> QED
    BY <1>1, <1>2, <1>3, <1>4 DEF IInv, QueueInv

\* No checkpoint is under way.
LEMMA CkptIdle ==
    ASSUME ckpt'.at = "idle", ~suspended'
    PROVE  CkptInv'
BY DEF CkptInv, Searching, Found, Syncing

\* A step of somebody else.
LEMMA CkptKept ==
    ASSUME IInv, [Next]_vars, ~Crash, ckpt.at # "idle",
           ckpt'.at = ckpt.at, ckpt'.kind = ckpt.kind, ckpt'.redo = ckpt.redo,
           ckpt'.wait = ckpt.wait, ckpt'.record = ckpt.record,
           UNCHANGED <<suspended, control, clogWrite, disk>>,
           suspended => wal' = wal, queueRecLsn <= queueRecLsn',
           clog \cup (ckpt.wait \cap delayChkpt) \subseteq clog' \cup (ckpt.wait \cap delayChkpt'),
           ckpt.at \in Found => PagesBehind(ckpt.redo)'
    PROVE  CkptInv'
<1>1. /\ control.redo <= queueRecLsn /\ queueRecLsn <= curInsert
      /\ {control.redo, queueRecLsn, curInsert, ckpt.redo, ckpt.record} \subseteq Nat
      /\ queueRecLsn' \in Nat
    BY CkptFacts, TypeStep DEF IInv, TypeOK, LogType, QueueType, curInsert
<1>2. CkptInv
    BY DEF IInv
<1>3. ckpt.at \in {"recheck"} \cup Found =>
         control.redo <= ckpt.redo /\ ckpt.redo <= queueRecLsn' /\ ckpt.redo <= curInsert
    BY <1>1, <1>2 DEF CkptInv
<1>4. ASSUME ckpt.at \in Found, NEW S, NEW T, S \subseteq T, CommitsIn(ckpt.redo, S)
      PROVE  \A x \in Xids : \A i \in Commits(x)' : i < ckpt.redo => x \in T
    BY <1>1, <1>3, <1>4, BeforeRedo DEF CommitsIn
<1>5. ASSUME ckpt.at \in Found, RowsOnDisk(ckpt.redo) PROVE RowsOnDisk(ckpt.redo)'
    BY <1>1, <1>3, <1>5, BeforeRedo DEF RowsOnDisk
<1>6. ckpt.at = "redo" /\ ckpt.kind = "full" => curInsert' <= queueRecLsn'
    BY <1>1, <1>2 DEF CkptInv, Searching, curInsert
<1>7. ckpt.at = "wait" => CommitsIn(ckpt.redo, clog \cup (ckpt.wait \cap delayChkpt))'
    <2> DEFINE S == clog \cup (ckpt.wait \cap delayChkpt)
               T == clog' \cup (ckpt.wait \cap delayChkpt')
    <2>1. S \subseteq T /\ (ckpt.at = "wait" => CommitsIn(ckpt.redo, S) /\ ckpt.at \in Found)
        BY <1>2 DEF CkptInv, Found, Syncing
    <2> HIDE DEF S, T
    <2>2. ckpt.at = "wait" => \A x \in Xids : \A i \in Commits(x)' : i < ckpt.redo => x \in T
        BY <1>4, <2>1
    <2> QED
        BY <2>2 DEF CommitsIn, T
<1>8. ckpt.at = "clog" => CommitsIn(ckpt.redo, clog)'
    <2>1. clog \subseteq clog'
        BY ClogGrows
    <2> QED
        BY <1>2, <1>4, <2>1 DEF CkptInv, CommitsIn, Found, Syncing
<1>9. ckpt.at = "clogwrite" => CommitsIn(ckpt.redo, clogWrite.image)'
    BY <1>2, <1>4 DEF CkptInv, CommitsIn, Found, Syncing
<1>10. ckpt.at \in {"buffers", "record", "flush"} => CommitsIn(ckpt.redo, clogDisk)'
    <2>1. clogDisk \subseteq clogDisk'
        BY ClogGrows
    <2> QED
        BY <1>2, <1>4, <2>1 DEF CkptInv, CommitsIn, Found, Syncing
<1>11. ckpt.at \in {"record", "flush"} => RowsOnDisk(ckpt.redo)'
    BY <1>2, <1>5 DEF CkptInv, Found
<1> QED
    BY <1>2, <1>3, <1>6, <1>7, <1>8, <1>9, <1>10, <1>11 DEF CkptInv

\* A page is marked dirty, or its write ends, or the queue is left alone.
LEMMA BehindKept ==
    ASSUME IInv, ckpt.at \in Found, ckpt' = ckpt,
           \/ UNCHANGED <<queue, recLsn>>
           \/ \E p \in Pages : \/ push_pending_flush_queue(p, queue, recLsn)
                               \/ TerminateBufferIO(p)
    PROVE  PagesBehind(ckpt.redo)'
<1>1. Up /\ ckpt.redo <= queueRecLsn /\ PagesBehind(ckpt.redo)
    BY CkptFacts DEF IInv, CkptInv, Found, Syncing
<1>2. CASE UNCHANGED <<queue, recLsn>>
    BY <1>1, <1>2 DEF PagesBehind, Taken
<1>3. ASSUME NEW p \in Pages,
             push_pending_flush_queue(p, queue, recLsn) \/ TerminateBufferIO(p)
      PROVE  PagesBehind(ckpt.redo)'
    <2>1. \A i \in Taken' :
             \/ /\ i \in Taken /\ queue'[i] = queue[i]
                /\ recLsn'[queue'[i]] = recLsn[queue[i]]
             \/ recLsn'[queue'[i]] = queueRecLsn
        BY <1>1, <1>3, DirtyStep
    <2> QED
        BY <1>1, <2>1 DEF PagesBehind
<1> QED
    BY <1>2, <1>3

\* The head of the queue moves.
LEMMA BehindHead ==
    ASSUME IInv, ckpt.at \in Found, ckpt_move_queue_head_after_flush
    PROVE  PagesBehind(ckpt.redo)'
<1>1. PagesBehind(ckpt.redo) /\ ckpt.toFlush \in Nat /\ ckpt.at # "idle"
    BY CkptFacts DEF IInv, CkptInv, Found, Syncing
<1>2. /\ recLsn' = recLsn /\ ckpt'.redo = ckpt.redo /\ ckpt'.at = ckpt.at
      /\ ckpt'.kind = ckpt.kind /\ ckpt'.toFlush = Larger(ckpt.toFlush - 1, 0)
    BY DEF ckpt_move_queue_head_after_flush, IInv, TypeOK, CkptType
<1>3. \A i \in Taken' : i + 1 \in Taken /\ queue'[i] = queue[i + 1]
    BY QueueHead
<1>4. \A i \in Taken' : i \in Nat
    BY DEF Taken, IInv, TypeOK, QueueType, ckpt_move_queue_head_after_flush
<1>5. ASSUME NEW i \in Taken', i + 1 <= ckpt.toFlush PROVE i <= ckpt'.toFlush
    BY <1>1, <1>2, <1>4, <1>5 DEF Larger
<1> QED
    BY <1>1, <1>2, <1>3, <1>5 DEF PagesBehind


\* A redo point is found: the first page of the queue is not before it.
LEMMA CkptProceed ==
    ASSUME IInv, NEW redo \in Nat, Proceed(redo), ckpt.at # "idle",
           control.redo <= redo, redo <= queueRecLsn,
           \A i \in Taken : redo <= recLsn[queue[i]]
    PROVE  CkptInv'
<1>1. control.redo \in Nat /\ CkptType
    BY CkptFacts DEF IInv, TypeOK
<1>2. /\ redo = control.redo => ckpt' = NoCkpt
      /\ control.redo < redo => ckpt'.at = "delaying" /\ ckpt'.redo = redo
      /\ UNCHANGED <<queue, recLsn, queueRecLsn, control>> /\ ~suspended'
    BY <1>1, ProceedFacts DEF queueVars, serverVars
<1>3. CASE redo = control.redo
    BY <1>2, <1>3, CkptIdle DEF NoCkpt
<1>4. CASE control.redo < redo
    <2>1. ckpt'.at = "delaying" /\ ckpt'.redo = redo
        BY <1>2, <1>4
    <2>2. PagesBehind(ckpt.redo)'
        BY <1>2, <2>1 DEF PagesBehind, Taken
    <2> QED
        BY <1>2, <2>1, <2>2 DEF CkptInv, Searching, Found, Syncing
<1> QED
    BY <1>1, <1>3, <1>4

\* The search for the redo point.
LEMMA CkptSearches ==
    ASSUME IInv,
           \/ StartSuspendWalInsert \/ RaiseQueueRecLsn \/ FullRedo
           \/ FirstRecLsn \/ ReadQueueRecLsn \/ Recheck
    PROVE  CkptInv'
<1>1. CkptType /\ CkptInv /\ suspended \in BOOLEAN /\ InOrder(queue, recLsn)
      /\ queue \in Seq(Pages \cup {NoPage}) /\ recLsn \in [Pages -> Nat]
    BY DEF IInv, TypeOK, LogType, QueueType, QueueInv
<1>2. ckpt.at # "idle" =>
         /\ Up /\ control.redo <= queueRecLsn /\ queueRecLsn <= curInsert
         /\ {control.redo, queueRecLsn, curInsert, ckpt.redo} \subseteq Nat
    BY CkptFacts
<1>3. /\ ckpt_get_min_rec_lsn \in Nat
      /\ ckpt_get_min_rec_lsn = InvalidXLogRecPtr => Taken = {}
      /\ \A i \in Taken : queue[i] \in Pages /\ recLsn[queue[i]] # InvalidXLogRecPtr
      /\ ckpt_get_min_rec_lsn # InvalidXLogRecPtr =>
            /\ \E i \in Taken : ckpt_get_min_rec_lsn = recLsn[queue[i]]
            /\ \A i \in Taken : ckpt_get_min_rec_lsn <= recLsn[queue[i]]
    BY <1>1, MinRecLsn
<1>4. ASSUME ckpt.at # "idle", ckpt_get_min_rec_lsn # InvalidXLogRecPtr
      PROVE  /\ control.redo <= ckpt_get_min_rec_lsn /\ ckpt_get_min_rec_lsn <= queueRecLsn
             /\ \A i \in Taken : ckpt_get_min_rec_lsn <= recLsn[queue[i]]
    BY <1>2, <1>3, <1>4 DEF IInv, QueueInv
<1>5. CASE StartSuspendWalInsert
    <2>1. ckpt'.at = "suspended" /\ suspended'
        BY <1>1, <1>5 DEF StartSuspendWalInsert, CkptType
    <2> QED
        BY <2>1 DEF CkptInv, Searching, Found, Syncing
<1>6. CASE RaiseQueueRecLsn
    <2>1. /\ ckpt.at = "suspended" /\ ckpt'.at = "redo" /\ ckpt'.kind = ckpt.kind
          /\ UNCHANGED <<wal, suspended>>
          /\ ckpt.kind = "full" => queueRecLsn' = Larger(queueRecLsn, curInsert)
        BY <1>1, <1>6 DEF RaiseQueueRecLsn, CkptGoto, CkptType, walVars
    <2>2. ckpt.kind = "full" => curInsert' <= queueRecLsn'
        BY <1>2, <2>1 DEF Larger, curInsert
    <2> QED
        BY <1>1, <2>1, <2>2 DEF CkptInv, Searching, Found, Syncing
<1>7. CASE FullRedo
    <2>1. /\ ckpt.at = "redo" /\ ckpt.kind = "full" /\ ckpt'.kind = "full" /\ ~suspended'
          /\ ckpt'.at = "delaying" /\ ckpt'.redo = curInsert /\ ckpt'.toFlush = Len(queue)
          /\ UNCHANGED <<queue, recLsn, queueRecLsn, control>>
        BY <1>1, <1>7 DEF FullRedo, Resume, StopSuspendWalInsert, CkptType, queueVars, serverVars
    <2>2. curInsert <= queueRecLsn
        BY <1>1, <2>1 DEF CkptInv
    <2>3. control.redo <= curInsert
        BY <1>2, <2>1
    <2>4. \A i \in Taken : i <= Len(queue)
        BY <1>1 DEF Taken
    <2>5. PagesBehind(ckpt.redo)'
        BY <2>1, <2>4 DEF PagesBehind, Taken, Syncing
    <2> QED
        BY <2>1, <2>2, <2>3, <2>5 DEF CkptInv, Searching, Found, Syncing
<1>8. CASE FirstRecLsn
    <2>1. CASE ckpt_get_min_rec_lsn # InvalidXLogRecPtr
        <3>1. Proceed(ckpt_get_min_rec_lsn) /\ ckpt.at # "idle"
            BY <1>8, <2>1 DEF FirstRecLsn
        <3> QED
            BY <1>3, <1>4, <2>1, <3>1, CkptProceed
    <2>2. CASE ckpt_get_min_rec_lsn = InvalidXLogRecPtr
        <3>1. /\ ckpt'.at = "empty" /\ ckpt'.kind # "full" /\ suspended' = suspended
              /\ ckpt.at = "redo"
            BY <1>1, <1>8, <2>2 DEF FirstRecLsn, CkptGoto, CkptType, walVars
        <3> QED
            BY <1>1, <3>1 DEF CkptInv, Searching, Found, Syncing
    <2> QED
        BY <2>1, <2>2
<1>9. CASE ReadQueueRecLsn
    <2>1. /\ ckpt.at = "empty" /\ ckpt'.at = "recheck" /\ ckpt'.redo = queueRecLsn
          /\ ckpt'.kind = ckpt.kind /\ UNCHANGED <<suspended, control, queueRecLsn>>
        BY <1>1, <1>9 DEF ReadQueueRecLsn, CkptType, walVars, queueVars, serverVars
    <2>2. control.redo <= queueRecLsn /\ queueRecLsn <= queueRecLsn
        BY <1>2, <2>1
    <2> QED
        BY <1>1, <2>1, <2>2 DEF CkptInv, Searching, Found, Syncing
<1>10. CASE Recheck
    <2> DEFINE redo == Rechecked(ckpt.redo, ckpt_get_min_rec_lsn)
    <2>1. Proceed(redo) /\ ckpt.at = "recheck"
        BY <1>10 DEF Recheck
    <2>2. control.redo <= ckpt.redo /\ ckpt.redo <= queueRecLsn /\ ckpt.redo \in Nat
        BY <1>1, <1>2, <2>1 DEF CkptInv
    <2>3. redo \in Nat /\ control.redo <= redo /\ redo <= queueRecLsn
        BY <1>2, <1>3, <1>4, <2>1, <2>2 DEF Rechecked
    <2>4. ASSUME NEW i \in Taken PROVE redo <= recLsn[queue[i]]
        BY <1>1, <1>2, <1>3, <2>1, <2>2, <2>4 DEF Rechecked
    <2> HIDE DEF redo
    <2> QED
        BY <2>1, <2>3, <2>4, CkptProceed
<1> QED
    BY <1>5, <1>6, <1>7, <1>8, <1>9, <1>10

\* Pages that the redo point leaves behind are on disk when the written ones are synced.
LEMMA CkptSyncs ==
    ASSUME IInv, CheckPointBuffers
    PROVE  CkptInv'
<1>1. /\ CkptType /\ CkptInv /\ ckpt.at = "buffers" /\ disk' = written
      /\ UNCHANGED <<wal, suspended, queue, recLsn, queueRecLsn, control, clogDisk>>
      /\ ckpt.kind = "full" => ckpt.toFlush = 0 \/ queue = <<>>
    BY DEF CheckPointBuffers, IInv, TypeOK, walVars, queueVars, clogVars, serverVars
<1>2. ckpt'.at = "record" /\ ckpt'.redo = ckpt.redo /\ ckpt'.kind = ckpt.kind
      /\ ckpt'.toFlush = ckpt.toFlush
    BY <1>1 DEF CheckPointBuffers, CkptGoto, CkptType
<1>3. queue \in Seq(Pages \cup {NoPage}) /\ recLsn \in [Pages -> Nat] /\ InOrder(queue, recLsn)
      /\ NoPage \notin Pages
    BY RecoveryAssumption DEF IInv, TypeOK, QueueType, QueueInv
<1>4. Up /\ ckpt.redo \in Nat /\ PagesBehind(ckpt.redo)
    BY <1>1, CkptFacts DEF CkptInv, Found, Syncing
<1>5. ASSUME NEW i \in Taken PROVE ckpt.redo <= recLsn[queue[i]]
    <2>1. i \in Nat \ {0} /\ queue # <<>>
        BY <1>3 DEF Taken
    <2>2. ~(ckpt.kind = "full" /\ i <= ckpt.toFlush)
        BY <1>1, <2>1
    <2> QED
        BY <1>4, <2>2 DEF PagesBehind
<1>6. PagesBehind(ckpt.redo)'
    BY <1>1, <1>2, <1>5 DEF PagesBehind, Taken
<1>7. ASSUME NEW p \in Pages, NEW i \in Rows(p), i < ckpt.redo
      PROVE  EndOf(i) <= written[p].lsn
    <2>1. i \in Nat /\ EndOf(i) \in Nat /\ written[p].lsn \in Nat
        BY LogTypes DEF IInv, TypeOK, LogType, PageType, PageImages, EndOf
    <2>2. SUFFICES ASSUME written[p].lsn < EndOf(i) PROVE FALSE
        BY <2>1
    <2>3. recLsn[p] \in 1 .. i
        BY <1>4, <2>2 DEF IInv, QueueInv
    <2>4. PICK j \in DOMAIN queue : queue[j] = p
        BY <1>3, <2>3 DEF InOrder, InvalidXLogRecPtr
    <2>5. ckpt.redo <= recLsn[p]
        BY <1>3, <1>5, <2>4 DEF Taken
    <2> QED
        BY <1>3, <1>4, <1>7, <2>1, <2>3, <2>5
<1>8. RowsOnDisk(ckpt.redo)'
    <2>1. \A p \in Pages : Rows(p)' = Rows(p)
        BY <1>1 DEF Rows
    <2> QED
        BY <1>1, <1>2, <1>7, <2>1 DEF RowsOnDisk
<1>9. CommitsIn(ckpt.redo, clogDisk)'
    <2>1. CommitsIn(ckpt.redo, clogDisk)
        BY <1>1 DEF CkptInv
    <2> QED
        BY <1>1, <1>2, <2>1 DEF CommitsIn, Commits
<1>10. /\ ~suspended'
       /\ control'.redo <= ckpt'.redo /\ ckpt'.redo <= queueRecLsn'
    BY <1>1, <1>2 DEF CkptInv, Searching, Found, Syncing
<1> QED
    BY <1>2, <1>6, <1>8, <1>9, <1>10 DEF CkptInv, Searching, Found, Syncing


\* The commits before the redo point get into the commit log on disk.
LEMMA CkptCommits ==
    ASSUME IInv, FindDelaying \/ WaitForDelaying \/ CheckPointCLOG \/ EndClogWrite
    PROVE  CkptInv'
<1>1. CkptType /\ CkptInv
    BY DEF IInv, TypeOK
<1>2. /\ ckpt.at \in Syncing /\ ckpt'.at \in Syncing \ {"delaying"}
      /\ ckpt'.redo = ckpt.redo /\ ckpt'.kind = ckpt.kind /\ ckpt'.toFlush = ckpt.toFlush
      /\ UNCHANGED <<wal, suspended, queue, recLsn, queueRecLsn, control, clog, delayChkpt>>
    BY <1>1 DEF CkptType, FindDelaying, WaitForDelaying, CheckPointCLOG, EndClogWrite,
       CkptGoto, Syncing, walVars, queueVars, clogVars, xactVars, serverVars
<1>3. \A x : Commits(x)' = Commits(x)
    BY <1>2 DEF Commits
<1>4. PagesBehind(ckpt.redo)'
    <2>1. PagesBehind(ckpt.redo)
        BY <1>1, <1>2 DEF CkptInv, Found
    <2> QED
        BY <1>2, <2>1 DEF PagesBehind, Taken
<1>5. ckpt'.at = "wait" => CommitsIn(ckpt.redo, clog \cup (ckpt.wait \cap delayChkpt))'
    <2>1. ASSUME ckpt'.at = "wait"
          PROVE  CommitsIn(ckpt.redo, clog \cup (ckpt.wait \cap delayChkpt))'
        <3>1. ckpt.at = "delaying" /\ ckpt'.wait = delayChkpt
            BY <1>1, <2>1 DEF CkptType, FindDelaying, WaitForDelaying, CheckPointCLOG,
               EndClogWrite, CkptGoto, GetVirtualXIDsDelayingChkpt
        <3>2. Up
            BY <3>1, CkptFacts
        <3>3. ASSUME NEW x \in Xids, NEW i \in Commits(x) PROVE x \in clog \cup delayChkpt
            BY <3>2 DEF IInv, ClogInv, XactInv
        <3> QED
            BY <1>2, <1>3, <3>1, <3>3 DEF CommitsIn
    <2> QED
        BY <2>1
<1>6. ckpt'.at = "clog" => CommitsIn(ckpt.redo, clog)'
    <2>1. ASSUME ckpt'.at = "clog" PROVE CommitsIn(ckpt.redo, clog)'
        <3>1. ckpt.at = "wait" /\ ckpt.wait \cap delayChkpt = {}
            BY <1>1, <2>1 DEF CkptType, FindDelaying, WaitForDelaying, CheckPointCLOG,
               EndClogWrite, CkptGoto
        <3>2. CommitsIn(ckpt.redo, clog \cup (ckpt.wait \cap delayChkpt))
            BY <1>1, <3>1 DEF CkptInv
        <3> QED
            BY <1>2, <1>3, <3>1, <3>2 DEF CommitsIn
    <2> QED
        BY <2>1
<1>7. ckpt'.at = "clogwrite" => CommitsIn(ckpt.redo, clogWrite.image)'
    <2>1. ASSUME ckpt'.at = "clogwrite" PROVE CommitsIn(ckpt.redo, clogWrite.image)'
        <3>1. ckpt.at = "clog" /\ clogWrite'.image = clog
            <4>1. CheckPointCLOG
                BY <1>1, <2>1 DEF CkptType, FindDelaying, WaitForDelaying, EndClogWrite, CkptGoto
            <4>2. ckpt.at = "clog" /\ clogDirty
                BY <1>1, <2>1, <4>1 DEF CkptType, CheckPointCLOG, CkptGoto
            <4> QED
                BY <4>1, <4>2 DEF CheckPointCLOG
        <3>2. CommitsIn(ckpt.redo, clog)
            BY <1>1, <3>1 DEF CkptInv
        <3> QED
            BY <1>2, <1>3, <3>1, <3>2 DEF CommitsIn
    <2> QED
        BY <2>1
<1>8. ckpt'.at = "buffers" => CommitsIn(ckpt.redo, clogDisk)'
    <2>1. ASSUME ckpt'.at = "buffers" PROVE CommitsIn(ckpt.redo, clogDisk)'
        <3>1. CASE CheckPointCLOG
            <4>1. ckpt.at = "clog" /\ ~clogDirty /\ clogDisk' = clogDisk
                BY <1>1, <2>1, <3>1 DEF CkptType, CheckPointCLOG, CkptGoto
            <4>2. clog \subseteq clogDisk
                BY <4>1 DEF IInv, ClogInv
            <4>3. CommitsIn(ckpt.redo, clog)
                BY <1>1, <4>1 DEF CkptInv
            <4> QED
                BY <1>2, <1>3, <4>1, <4>2, <4>3 DEF CommitsIn
        <3>2. CASE EndClogWrite
            <4>1. ckpt.at = "clogwrite" /\ clogWrite.image \subseteq clogDisk'
                BY <3>2 DEF EndClogWrite
            <4>2. CommitsIn(ckpt.redo, clogWrite.image)
                BY <1>1, <4>1 DEF CkptInv
            <4> QED
                BY <1>2, <1>3, <4>1, <4>2 DEF CommitsIn
        <3> QED
            BY <1>1, <2>1, <3>1, <3>2 DEF CkptType, FindDelaying, WaitForDelaying
    <2> QED
        BY <2>1
<1>9. /\ ~suspended'
      /\ control'.redo <= ckpt'.redo /\ ckpt'.redo <= queueRecLsn'
    BY <1>1, <1>2 DEF CkptInv, Searching, Found, Syncing
<1>10. ckpt'.at \in {"wait", "clog", "clogwrite", "buffers"}
    BY <1>2 DEF Syncing
<1> QED
    BY <1>4, <1>5, <1>6, <1>7, <1>8, <1>9, <1>10 DEF CkptInv, Searching, Found, Syncing

\* The record of the checkpoint is logged.
LEMMA CkptRecord ==
    ASSUME IInv, [Next]_vars, InsertCheckpoint
    PROVE  CkptInv'
<1>1. /\ CkptType /\ CkptInv /\ ckpt.at = "record"
      /\ UNCHANGED <<suspended, queue, recLsn, control, clogDisk, disk>>
      /\ update_dirty_page_queue_rec_lsn(curInsert)
    BY DEF InsertCheckpoint, IInv, TypeOK, pageVars, clogVars, serverVars
<1>2. /\ ckpt'.at = "flush" /\ ckpt'.redo = ckpt.redo /\ ckpt'.record = curInsert
      /\ ckpt'.kind = ckpt.kind
    BY <1>1 DEF InsertCheckpoint, CkptType
<1>3. /\ {queueRecLsn, curInsert, ckpt.redo} \subseteq Nat
      /\ queueRecLsn <= curInsert
    BY <1>1, CkptFacts
<1>4. control.redo <= ckpt.redo /\ ckpt.redo <= queueRecLsn
    BY <1>1 DEF CkptInv, Found
<1>5. queueRecLsn' \in Nat /\ queueRecLsn <= queueRecLsn' /\ ckpt.redo <= curInsert
    BY <1>1, <1>3, <1>4, RecoveryAssumption DEF update_dirty_page_queue_rec_lsn
<1>6. ~Crash
    BY <1>1 DEF Crash, InsertCheckpoint, serverVars, IInv, TypeOK, ServerType
<1>7. /\ \A x \in Xids : \A i \in Commits(x)' : i < ckpt.redo => i \in Commits(x)
      /\ \A p \in Pages : \A i \in Rows(p)' : i < ckpt.redo => i \in Rows(p)
    BY <1>3, <1>5, <1>6, BeforeRedo
<1>8. PagesBehind(ckpt.redo)'
    <2>1. PagesBehind(ckpt.redo)
        BY <1>1 DEF CkptInv, Found
    <2> QED
        BY <1>1, <1>2, <2>1 DEF PagesBehind, Taken, Syncing
<1>9. CommitsIn(ckpt.redo, clogDisk)' /\ RowsOnDisk(ckpt.redo)'
    <2>1. CommitsIn(ckpt.redo, clogDisk) /\ RowsOnDisk(ckpt.redo)
        BY <1>1 DEF CkptInv
    <2> QED
        BY <1>1, <1>2, <1>7, <2>1 DEF CommitsIn, RowsOnDisk
<1>10. ckpt.redo <= queueRecLsn' /\ ~suspended
    BY <1>1, <1>3, <1>4, <1>5 DEF CkptInv, Searching
<1> QED
    BY <1>1, <1>2, <1>4, <1>5, <1>8, <1>9, <1>10 DEF CkptInv, Searching, Found, Syncing

\* The control file is written: no page is behind.
LEMMA CkptEnds ==
    ASSUME IInv, UpdateControlFile
    PROVE  /\ CkptInv'
           /\ control' = [redo |-> ckpt.redo, record |-> ckpt.record] /\ ckpt' = NoCkpt
<1>1. /\ ckpt.at = "flush" /\ CkptInv /\ suspended' = suspended /\ queue \in Seq(Pages \cup {NoPage})
      /\ recLsn \in [Pages -> Nat] /\ InOrder(queue, recLsn) /\ ckpt.redo \in Nat
    BY CkptFacts DEF UpdateControlFile, walVars, IInv, TypeOK, QueueType, QueueInv
<1>2. \A i \in Taken : ckpt.redo <= recLsn[queue[i]]
    BY <1>1 DEF CkptInv, PagesBehind, Found, Syncing
<1>3. ~QueueIsBehind
    <2>1. ckpt_get_min_rec_lsn \in Nat
          /\ (ckpt_get_min_rec_lsn # InvalidXLogRecPtr =>
                \E i \in Taken : ckpt_get_min_rec_lsn = recLsn[queue[i]])
        BY <1>1, MinRecLsn
    <2> QED
        BY <1>1, <1>2, <2>1 DEF QueueIsBehind, InvalidXLogRecPtr
<1>4. control' = [redo |-> ckpt.redo, record |-> ckpt.record] /\ ckpt' = NoCkpt
    BY <1>3 DEF UpdateControlFile
<1>5. ckpt'.at = "idle" /\ ~suspended'
    BY <1>1, <1>4 DEF NoCkpt, CkptInv, Searching
<1> QED
    BY <1>4, <1>5, CkptIdle

\* What a session, the page writer or the log writer leaves to the checkpointer.
LEMMA CkptFrame ==
    ASSUME IInv, [Next]_vars, ~Crash, ~StartupXLOG, ~Checkpointer, ~StartSuspendWalInsert
    PROVE  /\ UNCHANGED <<suspended, control, clogWrite, disk>>
           /\ suspended => wal' = wal
           /\ queueRecLsn <= queueRecLsn'
           /\ ckpt' = ckpt \/ ckpt_move_queue_head_after_flush
           /\ delayChkpt \subseteq delayChkpt' \cup clog
           /\ \/ UNCHANGED <<queue, recLsn>>
              \/ \E p \in Pages : \/ push_pending_flush_queue(p, queue, recLsn)
                                  \/ TerminateBufferIO(p)
              \/ ckpt_move_queue_head_after_flush
<1>1. /\ UNCHANGED <<suspended, control, clogWrite, disk>>
      /\ suspended => wal' = wal
      /\ ckpt' = ckpt \/ ckpt_move_queue_head_after_flush
    BY DEF Next, Session, PageWriter, vars, walVars, pageVars, clogVars, serverVars,
       MarkBufferDirty, InsertRow, RowDone, StartCommit, InsertCommit, CommitLogged, SetClog,
       EndCommit, SetHintBits, FlushBuffer, TerminateBufferIO,
       ckpt_move_queue_head_after_flush, FlushWal, CheckForRestartPoint
<1>2. \/ queueRecLsn' = queueRecLsn
      \/ \E x \in Xids : RowDone(x) \/ CommitLogged(x)
    BY DEF Next, Session, PageWriter, vars, queueVars,
       MarkBufferDirty, InsertRow, StartCommit, InsertCommit, SetClog,
       EndCommit, SetHintBits, FlushBuffer, TerminateBufferIO,
       ckpt_move_queue_head_after_flush, FlushWal, CheckForRestartPoint
<1>3. queueRecLsn \in Nat /\ start \in [Xids -> Nat] /\ UpdateStep \in Nat
    BY RecoveryAssumption DEF IInv, TypeOK, LogType, QueueType, XactType, curInsert
<1>4. queueRecLsn <= queueRecLsn'
    BY <1>2, <1>3 DEF RowDone, CommitLogged, update_dirty_page_queue_rec_lsn
<1>5. delayChkpt \subseteq delayChkpt' \/ \E x \in Xids : EndCommit(x)
    BY DEF Next, Session, PageWriter, vars, xactVars,
       MarkBufferDirty, InsertRow, RowDone, StartCommit, InsertCommit, CommitLogged, SetClog,
       SetHintBits, FlushBuffer, TerminateBufferIO,
       ckpt_move_queue_head_after_flush, FlushWal, CheckForRestartPoint
<1>6. ASSUME NEW x \in Xids, EndCommit(x) PROVE delayChkpt \subseteq delayChkpt' \cup clog
    BY <1>6 DEF EndCommit, IInv, XactInv, XactOK
<1>7. \/ UNCHANGED <<queue, recLsn>>
      \/ \E x \in Xids : MarkBufferDirty(x) \/ SetHintBits(x)
      \/ \E p \in Pages : TerminateBufferIO(p)
      \/ ckpt_move_queue_head_after_flush
    BY DEF Next, Session, PageWriter, vars, queueVars,
       InsertRow, RowDone, StartCommit, InsertCommit, CommitLogged, SetClog,
       EndCommit, FlushBuffer, FlushWal, CheckForRestartPoint
<1>8. ASSUME NEW x \in Xids, MarkBufferDirty(x) \/ SetHintBits(x)
      PROVE  push_pending_flush_queue(PageOf[x], queue, recLsn) /\ PageOf[x] \in Pages
    BY <1>8, RecoveryAssumption DEF MarkBufferDirty, SetHintBits
<1> QED
    BY <1>1, <1>4, <1>5, <1>6, <1>7, <1>8

LEMMA CkptStep ==
    ASSUME IInv, [Next]_vars
    PROVE  CkptInv'
<1>1. CASE Crash
    BY <1>1, CkptIdle DEF Crash, NoCkpt
<1>2. CASE StartupXLOG
    <2>1. server = "down" /\ UNCHANGED <<ckpt, suspended>>
        BY <1>2 DEF StartupXLOG, walVars
    <2>2. ckpt.at = "idle" /\ ~suspended
        BY <2>1 DEF IInv, DownInv, NoCkpt, CkptInv, Searching
    <2> QED
        BY <2>1, <2>2, CkptIdle
<1>3. CASE Checkpointer \/ StartSuspendWalInsert
    BY <1>3, CkptSearches, CkptSyncs, CkptCommits, CkptRecord, CkptEnds DEF Checkpointer
<1>4. CASE ~Crash /\ ~StartupXLOG /\ ~Checkpointer /\ ~StartSuspendWalInsert
    <2>1. /\ UNCHANGED <<suspended, control, clogWrite, disk>>
          /\ suspended => wal' = wal
          /\ queueRecLsn <= queueRecLsn'
          /\ ckpt' = ckpt \/ ckpt_move_queue_head_after_flush
          /\ delayChkpt \subseteq delayChkpt' \cup clog
        BY <1>4, CkptFrame
    <2>2. clog \subseteq clog'
        BY <1>4, ClogGrows
    <2>3. /\ ckpt'.at = ckpt.at /\ ckpt'.kind = ckpt.kind /\ ckpt'.redo = ckpt.redo
          /\ ckpt'.wait = ckpt.wait /\ ckpt'.record = ckpt.record
        BY <2>1 DEF ckpt_move_queue_head_after_flush, IInv, TypeOK, CkptType
    <2>4. ckpt.at \in Found => PagesBehind(ckpt.redo)'
        BY <1>4, CkptFrame, BehindKept, BehindHead
    <2>5. CASE ckpt.at = "idle"
        <3>1. ~suspended
            BY <2>5 DEF IInv, CkptInv, Searching
        <3> QED
            BY <2>1, <2>3, <2>5, <3>1, CkptIdle
    <2>6. CASE ckpt.at # "idle"
        BY <1>4, <2>1, <2>2, <2>3, <2>4, <2>6, CkptKept
    <2> QED
        BY <2>5, <2>6
<1> QED
    BY <1>1, <1>2, <1>3, <1>4

-----------------------------------------------------------------------------
(* The control file, and a server that is down                             *)

LEMMA ControlStep ==
    ASSUME IInv, [Next]_vars
    PROVE  ControlInv'
<1>1. /\ flushed \in Nat /\ flushed' \in Nat /\ flushed <= curInsert /\ curInsert \in Nat
      /\ control.redo \in Nat \ {0} /\ control.redo <= flushed
      /\ RowsOnDisk(control.redo) /\ CommitsIn(control.redo, clogDisk)
    BY TypeStep DEF IInv, TypeOK, LogType, ControlInv, curInsert
<1>2. \A p \in Pages : /\ disk[p].lsn \in Nat /\ written[p].lsn \in Nat
                       /\ disk[p].lsn <= written[p].lsn
                       /\ \A i \in Rows(p) : EndOf(i) \in Nat
    BY LogTypes DEF IInv, TypeOK, LogType, PageType, PageImages, PageInv, PageOK, EndOf
<1>3. CASE Crash
    <2>1. /\ flushed <= flushed' /\ UNCHANGED <<control, clogDisk>>
          /\ \A p \in Pages : disk'[p] \in {disk[p], written[p]} /\ Rows(p)' \subseteq Rows(p)
          /\ \A x \in Xids : Commits(x)' \subseteq Commits(x)
        BY <1>3, CrashFacts, CrashKeeps DEF IInv, Crash
    <2>2. ASSUME NEW p \in Pages, NEW i \in Rows(p)', i < control.redo
          PROVE  EndOf(i) <= disk'[p].lsn
        <3>1. EndOf(i) <= disk[p].lsn
            BY <1>1, <2>1, <2>2 DEF RowsOnDisk
        <3> QED
            BY <1>2, <2>1, <2>2, <3>1
    <2>3. control.redo \in 1 .. flushed'
        BY <1>1, <2>1
    <2> QED
        BY <1>1, <2>1, <2>2, <2>3 DEF ControlInv, RowsOnDisk, CommitsIn
<1>4. CASE UpdateControlFile
    <2>1. /\ control'.redo = ckpt.redo /\ UNCHANGED <<wal, flushed, disk, clogDisk>>
          /\ ckpt.at = "flush" /\ flushed >= EndOf(ckpt.record)
        BY <1>4, CkptEnds DEF UpdateControlFile, walVars, pageVars, clogVars
    <2>2. /\ ckpt.redo \in Nat /\ ckpt.record \in Nat /\ control.redo <= ckpt.redo
          /\ ckpt.redo <= ckpt.record
          /\ CommitsIn(ckpt.redo, clogDisk) /\ RowsOnDisk(ckpt.redo)
        BY <2>1, CkptFacts DEF IInv, CkptInv, Found
    <2>3. ckpt.redo \in 1 .. flushed
        BY <1>1, <2>1, <2>2 DEF EndOf
    <2>4. /\ \A x : Commits(x)' = Commits(x)
          /\ \A p : Rows(p)' = Rows(p)
        BY <2>1 DEF Commits, Rows
    <2> QED
        BY <2>1, <2>2, <2>3, <2>4 DEF ControlInv, CommitsIn, RowsOnDisk
<1>5. CASE ~Crash /\ ~UpdateControlFile
    <2>1. /\ control' = control /\ (disk' = disk \/ disk' = written)
        BY <1>5 DEF Next, Session, PageWriter, Checkpointer, vars, pageVars, serverVars,
           MarkBufferDirty, InsertRow, RowDone, StartCommit, InsertCommit, CommitLogged, SetClog,
           EndCommit, SetHintBits, FlushBuffer, TerminateBufferIO,
           ckpt_move_queue_head_after_flush, FlushWal, StartSuspendWalInsert,
           RaiseQueueRecLsn, FullRedo, FirstRecLsn, Proceed, Resume, ReadQueueRecLsn,
           Recheck, FindDelaying, WaitForDelaying, CheckPointCLOG, EndClogWrite,
           CheckPointBuffers, InsertCheckpoint, StartupXLOG, CheckForRestartPoint
    <2>2. /\ flushed <= flushed' /\ clogDisk \subseteq clogDisk'
        BY <1>5, LogGrows, ClogGrows DEF IInv
    <2>3. control.redo <= curInsert
        BY <1>1
    <2>4. /\ \A x \in Xids : \A i \in Commits(x)' : i < control.redo => i \in Commits(x)
          /\ \A p \in Pages : \A i \in Rows(p)' : i < control.redo => i \in Rows(p)
        BY <1>1, <1>5, <2>3, BeforeRedo
    <2>5. ASSUME NEW p \in Pages, NEW i \in Rows(p)', i < control.redo
          PROVE  EndOf(i) <= disk'[p].lsn
        <3>1. i \in Rows(p) /\ EndOf(i) <= disk[p].lsn
            BY <1>1, <2>4, <2>5 DEF RowsOnDisk
        <3> QED
            BY <1>2, <2>1, <3>1
    <2>6. control.redo \in 1 .. flushed'
        BY <1>1, <2>2
    <2> QED
        BY <1>1, <2>1, <2>2, <2>4, <2>5, <2>6 DEF ControlInv, CommitsIn, RowsOnDisk
<1> QED
    BY <1>3, <1>4, <1>5

\* Nothing happens while the server is down but that it is started.
LEMMA Stopped ==
    ASSUME IInv, [Next]_vars, server = "down"
    PROVE  StartupXLOG \/ UNCHANGED vars
<1>1. /\ queue = <<>> /\ ckpt = NoCkpt /\ \A p \in Pages : io[p] = "none"
      /\ \A x \in Xids : pc[x] \in {"idle", "done", "lost"}
    BY DEF IInv, DownInv, XactInv, XactOK
<1>2. \A p \in Pages : recLsn[p] = InvalidXLogRecPtr
    BY <1>1 DEF IInv, QueueInv, InOrder
<1>3. ckpt.at = "idle"
    BY <1>1 DEF NoCkpt
<1>4. ASSUME NEW x \in Xids PROVE ~MarkBufferDirty(x) /\ ~SetHintBits(x) /\ ~Session(x)
    BY <1>1 DEF MarkBufferDirty, SetHintBits, InFirstRun, Session, InsertRow, RowDone,
       StartCommit, InsertCommit, CommitLogged, SetClog, EndCommit
<1>5. ASSUME NEW p \in Pages PROVE ~PageWriter(p)
    BY <1>1, <1>2 DEF PageWriter, FlushBuffer, TerminateBufferIO
<1>6. ~ckpt_move_queue_head_after_flush /\ ~FlushWal /\ ~StartSuspendWalInsert /\ ~Crash
      /\ ~CheckForRestartPoint
    BY <1>1 DEF ckpt_move_queue_head_after_flush, FlushWal, StartSuspendWalInsert, Crash,
       CheckForRestartPoint
<1>7. ~Checkpointer
    BY <1>3 DEF Checkpointer, RaiseQueueRecLsn, FullRedo, FirstRecLsn,
       ReadQueueRecLsn, Recheck, FindDelaying, WaitForDelaying, CheckPointCLOG, EndClogWrite,
       CheckPointBuffers, InsertCheckpoint, UpdateControlFile
<1> QED
    BY <1>4, <1>5, <1>6, <1>7 DEF Next

LEMMA DownStep ==
    ASSUME IInv, [Next]_vars
    PROVE  DownInv'
<1>1. CASE server' # "down"
    BY <1>1 DEF DownInv
<1>2. CASE Crash
    <2>1. /\ flushed' = curInsert' /\ written' = disk' /\ buf' = disk'
        BY <1>2, CrashKeeps, CrashFacts DEF IInv
    <2> QED
        BY <1>2, <2>1 DEF DownInv, Crash
<1>3. CASE server' = "down" /\ ~Crash
    <2>1. server = "down"
        BY <1>3, ClogGrows DEF Up
    <2>2. UNCHANGED vars
        BY <1>3, <2>1, Stopped DEF StartupXLOG
    <2> QED
        BY <2>1, <2>2 DEF IInv, DownInv, vars, walVars, pageVars, queueVars, clogVars, curInsert
<1> QED
    BY <1>1, <1>2, <1>3

-----------------------------------------------------------------------------
(* The invariant                                                           *)

LEMMA InitInv == Init => IInv
<1> SUFFICES ASSUME Init PROVE IInv
    OBVIOUS
<1> USE DEF Init
<1>1. /\ Len(wal) = 0 /\ curInsert = 1 /\ DOMAIN wal = {} /\ DOMAIN queue = {}
    BY DEF curInsert
<1>2. /\ \A p : Rows(p) = {} /\ \A l : RowsBy(p, l) = {}
      /\ \A x : Commits(x) = {}
    BY <1>1 DEF Rows, RowsBy, Commits
<1>3. NoRows \in PageImages /\ NoRows.rows = {} /\ NoRows.hints = {} /\ NoRows.lsn = 0
    BY DEF NoRows, PageImages, InvalidXLogRecPtr
<1>4. LogType
    <2>1. suspended \in BOOLEAN
        BY Zenon
    <2>2. wal \in Seq(Records) /\ flushed \in 1 .. curInsert
        BY <1>1
    <2> QED
        BY <2>1, <2>2 DEF LogType
<1>5. PageType
    BY <1>3, RecoveryAssumption DEF PageType
<1>6. QueueType
    BY <1>1 DEF QueueType, InvalidXLogRecPtr
<1>7. ClogType
    <2>1. clogDirty \in BOOLEAN
        BY Zenon
    <2>2. NoWrite \in [on : BOOLEAN, image : SUBSET Xids]
        BY DEF NoWrite
    <2>3. clogLsn \in 0 .. curInsert
        BY <1>1 DEF InvalidXLogRecPtr
    <2> QED
        BY <2>1, <2>2, <2>3 DEF ClogType
<1>8. XactType
    BY <1>1 DEF XactType, Labels, InvalidXLogRecPtr
<1>9. CkptType
    BY DEF CkptType, NoCkpt, InvalidXLogRecPtr
<1>10. ServerType
    BY RecoveryAssumption DEF ServerType, InvalidXLogRecPtr
<1>11. ASSUME NEW p \in Pages PROVE PageOK(p)
    <2>1. /\ buf[p] = NoRows /\ written[p] = NoRows /\ disk[p] = NoRows /\ io[p] = "none"
          /\ flushed = 1
        OBVIOUS
    <2> HIDE DEF Init
    <2>2. RowsBy(p, disk[p].lsn) = {} /\ RowsBy(p, written[p].lsn) = {}
          /\ RowsBy(p, buf[p].lsn) = {} /\ Rows(p) = {}
        BY <1>2
    <2>3. /\ disk[p].hints \cup written[p].hints = {} /\ buf[p].hints = {}
          /\ disk[p].lsn <= written[p].lsn /\ written[p].lsn <= flushed
          /\ written[p].lsn <= buf[p].lsn
        BY <1>3, <2>1
    <2> QED
        BY <1>3, <2>1, <2>2, <2>3 DEF PageOK
<1>12. QueueInv
    BY <1>1, <1>2 DEF QueueInv, InOrder, InvalidXLogRecPtr
<1>13. XactInv
    BY <1>1 DEF XactInv, XactOK
<1>14. ClogInv
    BY <1>2 DEF ClogInv, NoWrite, NoCkpt
<1>15. CkptInv
    BY DEF CkptInv, NoCkpt, Searching, Found, Syncing
<1>16. ControlInv
    BY <1>2 DEF ControlInv, RowsOnDisk, CommitsIn
<1>17. DownInv
    BY DEF DownInv
<1> QED
    BY <1>4, <1>5, <1>6, <1>7, <1>8, <1>9, <1>10, <1>11, <1>12, <1>13, <1>14, <1>15, <1>16, <1>17
    DEF IInv, TypeOK, PageInv

LEMMA NextInv == IInv /\ [Next]_vars => IInv'
BY TypeStep, PageStep, QueueStep, XactStep, ClogStep, CkptStep, ControlStep, DownStep
   DEF IInv

\* The inductive invariant holds in every state, whatever the transactions, their pages
\* and their synchronous_commit, the requests for checkpoints and the crashes are.
THEOREM Invariance == Spec => []IInv
BY InitInv, NextInv, PTL DEF Spec

-----------------------------------------------------------------------------
(* What it is for                                                          *)

\* What IInv says of the whole log: a row of the log is on its page in the buffers ...
LEMMA RowsAreThere ==
    ASSUME IInv, Up
    PROVE  \A p \in Pages : buf[p].rows = {wal[i].xid : i \in Rows(p)}
<1>1. SUFFICES ASSUME NEW p \in Pages PROVE buf[p].rows = {wal[i].xid : i \in Rows(p)}
    OBVIOUS
<1>2. buf[p].rows = RowsBy(p, buf[p].lsn) /\ \A i \in Rows(p) : EndOf(i) <= buf[p].lsn
    BY DEF IInv, PageInv, PageOK
<1>3. {j \in Rows(p) : EndOf(j) <= buf[p].lsn} = Rows(p)
    BY <1>2
<1> QED
    BY <1>2, <1>3 DEF RowsBy

\* A transaction whose synchronous commit has returned stays committed, with its row,
\* through any crashes (RecordTransactionCommit, CreateCheckPoint, StartupXLOG).
THEOREM CommitsAreDurable == Spec => []DurableCommit
<1>1. IInv => DurableCommit
    <2>1. SUFFICES ASSUME IInv, Up, NEW x \in acked
                   PROVE  x \in clog /\ x \in buf[PageOf[x]].rows
        BY DEF DurableCommit, Up
    <2>2. x \in Xids /\ PageOf[x] \in Pages /\ wal \in Seq(Records)
        BY <2>1, RecoveryAssumption DEF IInv, TypeOK, XactType, LogType
    <2>3. x \in clog /\ CommittedBy(x, flushed)
        BY <2>1 DEF IInv, XactInv
    <2>4. PICK i \in Commits(x) : TRUE
        BY <2>3 DEF CommittedBy
    <2>5. i \in DOMAIN wal /\ wal[i].type = "commit" /\ wal[i].xid = x
        BY DEF Commits
    <2>6. PICK j \in 1 .. i - 1 : wal[j].type = "row" /\ wal[j].xid = x
        BY <2>1, <2>5 DEF IInv, XactInv
    <2>7. j \in Rows(PageOf[x])
        BY <2>2, <2>5, <2>6 DEF Rows
    <2> QED
        BY <2>1, <2>2, <2>3, <2>6, <2>7, RowsAreThere
<1> QED
    BY <1>1, Invariance, PTL

\* Recovery from the redo point (StartupXLOG) restores what the whole log says.
THEOREM RecoveryIsExact == Spec => []RecoveredExactly
<1>1. IInv => RecoveredExactly
    <2>1. SUFFICES ASSUME IInv, server = "recovery"
                   PROVE  /\ clog = Logged("commit")
                          /\ UNION {buf[p].rows : p \in Pages} = Logged("row")
        BY DEF RecoveredExactly
    <2>2. Up /\ wal \in Seq(Records) /\ clog \subseteq Xids
          /\ \A x \in Xids : pc[x] \notin {"logged", "flush"}
        BY <2>1 DEF IInv, TypeOK, LogType, ClogType, XactInv, XactOK, Up
    <2>3. ASSUME NEW x \in Xids PROVE x \in clog <=> Commits(x) # {}
        BY <2>1, <2>2 DEF IInv, ClogInv, CommittedBy
    <2>4. ASSUME NEW i \in DOMAIN wal, wal[i].type = "commit" PROVE wal[i].xid \in clog
        <3>1. PICK x \in Xids : x = wal[i].xid
            BY <2>2, <2>4 DEF Records
        <3>2. i \in Commits(x)
            BY <2>4, <3>1 DEF Commits
        <3> QED
            BY <2>3, <3>1, <3>2
    <2>5. ASSUME NEW x \in clog PROVE x \in Logged("commit")
        BY <2>2, <2>3 DEF Logged, Commits
    <2>6. ASSUME NEW i \in DOMAIN wal, wal[i].type = "row"
          PROVE  \E p \in Pages : i \in Rows(p)
        <3>1. wal[i].xid \in Xids
            BY <2>2, <2>6 DEF Records
        <3> QED
            BY <2>6, <3>1, RecoveryAssumption DEF Rows
    <2>7. \A p \in Pages : buf[p].rows = {wal[i].xid : i \in Rows(p)}
        BY <2>1, <2>2, RowsAreThere
    <2>8. \A p \in Pages : \A i \in Rows(p) : i \in DOMAIN wal /\ wal[i].type = "row"
        BY DEF Rows
    <2>9. UNION {buf[p].rows : p \in Pages} = Logged("row")
        BY <2>6, <2>7, <2>8 DEF Logged
    <2> QED
        BY <2>4, <2>5, <2>9 DEF Logged
<1> QED
    BY <1>1, Invariance, PTL

\* No hint bit says more than the commit log (SetHintBits, clogLsn against the LSN of
\* the page), also when the commit was asynchronous and a crash comes between.
THEOREM HintsAreTrue == Spec => []HintTrue
<1>1. IInv => HintTrue
    BY DEF IInv, PageInv, PageOK, HintTrue, Up
<1> QED
    BY <1>1, Invariance, PTL

\* CreateCheckPoint never meets one of its two PANICs.
THEOREM CheckpointsNeverPanic == Spec => []NoCkptPanic
<1>1. IInv => NoCkptPanic
    BY DEF IInv, CkptInv, NoCkptPanic
<1> QED
    BY <1>1, Invariance, PTL

-----------------------------------------------------------------------------
(* Nobody waits for somebody who waits for him                             *)

\* Whoever holds the content lock of a page changes that page, and lets go of it when
\* its record is inserted.
LocksHeld ==
    \A p \in Pages : lock[p] # NoXid =>
       pc[lock[p]] \in {"insert", "inserted"} /\ PageOf[lock[p]] = p

\* What the page writer waits for is in the log, and so is what the checkpointer does.
LsnsLogged == \A p \in Pages : buf[p].lsn <= curInsert
RecordLogged == ckpt.at = "flush" => ckpt.record <= Len(wal)

WaitInv == LocksHeld /\ LsnsLogged /\ RecordLogged

\* InsertRow and RowDone are steps of the holder; a crash frees every lock.
LEMMA LocksStep ==
    ASSUME IInv, LocksHeld, [Next]_vars
    PROVE  LocksHeld'
<1>0. /\ lock \in [Pages -> Xids \cup {NoXid}] /\ pc \in [Xids -> Labels]
      /\ PageOf \in [Xids -> Pages] /\ NoXid \notin Xids
    BY RecoveryAssumption DEF IInv, TypeOK, PageType, XactType
<1>1. ASSUME NEW x \in Xids, MarkBufferDirty(x) PROVE LocksHeld'
    BY <1>0, <1>1 DEF MarkBufferDirty, Goto, LocksHeld
<1>2. ASSUME NEW x \in Xids, InsertRow(x) PROVE LocksHeld'
    BY <1>0, <1>2 DEF InsertRow, Goto, LocksHeld
<1>3. ASSUME NEW x \in Xids, RowDone(x) PROVE LocksHeld'
    <2>1. /\ lock' = [lock EXCEPT ![PageOf[x]] = NoXid] /\ pc' = [pc EXCEPT ![x] = "active"]
        BY <1>3 DEF RowDone, Goto
    <2>2. ASSUME NEW p \in Pages, lock'[p] # NoXid
          PROVE  lock'[p] = lock[p] /\ lock[p] \in Xids /\ PageOf[lock[p]] = p /\ lock[p] # x
        BY <1>0, <2>1, <2>2 DEF LocksHeld
    <2> QED
        BY <1>0, <2>1, <2>2 DEF LocksHeld
<1>4. ASSUME NEW x \in Xids,
             StartCommit(x) \/ InsertCommit(x) \/ CommitLogged(x) \/ SetClog(x) \/ EndCommit(x)
      PROVE  LocksHeld'
    <2>1. lock' = lock /\ pc[x] \notin {"insert", "inserted"}
          /\ \A y \in Xids : y # x => pc'[y] = pc[y]
        BY <1>0, <1>4 DEF StartCommit, InsertCommit, CommitLogged, SetClog, EndCommit, Goto,
           pageVars
    <2> QED
        BY <1>0, <2>1 DEF LocksHeld
<1>5. CASE Crash
    BY <1>5 DEF Crash, LocksHeld
<1>6. CASE UNCHANGED <<lock, pc>>
    BY <1>6 DEF LocksHeld
<1> QED
    BY <1>1, <1>2, <1>3, <1>4, <1>5, <1>6
    DEF Next, Session, PageWriter, Checkpointer, vars, pageVars, xactVars, SetHintBits,
       FlushBuffer, TerminateBufferIO, ckpt_move_queue_head_after_flush, FlushWal,
       StartSuspendWalInsert, RaiseQueueRecLsn, FullRedo, Resume, FirstRecLsn,
       Proceed, ReadQueueRecLsn, Recheck, FindDelaying, WaitForDelaying, CheckPointCLOG,
       EndClogWrite, CheckPointBuffers, InsertCheckpoint, UpdateControlFile, StartupXLOG,
       CheckForRestartPoint

\* Only a crash makes the log shorter.
LEMMA LogStays ==
    ASSUME IInv, [Next]_vars, ~Crash
    PROVE  Len(wal) \in Nat /\ Len(wal') \in Nat /\ Len(wal) <= Len(wal')
<1>0. wal \in Seq(Records)
    BY DEF IInv, TypeOK, LogType
<1>1. wal' = wal \/ \E r : wal' = Append(wal, r)
    BY DEF Next, Session, PageWriter, Checkpointer, vars, walVars, MarkBufferDirty, InsertRow,
       RowDone, StartCommit, InsertCommit, CommitLogged, SetClog, EndCommit, SetHintBits,
       FlushBuffer, TerminateBufferIO, ckpt_move_queue_head_after_flush, FlushWal,
       StartSuspendWalInsert, RaiseQueueRecLsn, FullRedo, Resume, FirstRecLsn,
       Proceed, ReadQueueRecLsn, Recheck, FindDelaying, WaitForDelaying, CheckPointCLOG,
       EndClogWrite, CheckPointBuffers, InsertCheckpoint, UpdateControlFile, StartupXLOG,
       CheckForRestartPoint
<1> QED
    BY <1>0, <1>1

\* A row sets its page's LSN to the end of its record, redo to the end of a record it
\* has read, and a crash keeps the log as far as pages are on disk.
LEMMA LsnsStep ==
    ASSUME IInv, LsnsLogged, [Next]_vars
    PROVE  LsnsLogged'
<1>0. /\ buf \in [Pages -> PageImages] /\ PageOf \in [Xids -> Pages]
      /\ wal \in Seq(Records) /\ Len(wal) \in Nat /\ flushed \in 1 .. Len(wal) + 1
      /\ \A p \in Pages : /\ buf[p].lsn \in Nat /\ buf[p].lsn <= Len(wal) + 1
                          /\ disk[p].lsn \in Nat /\ written[p].lsn \in Nat
                          /\ disk[p].lsn <= flushed /\ written[p].lsn <= flushed
    <2>1. /\ buf \in [Pages -> PageImages] /\ PageOf \in [Xids -> Pages]
          /\ wal \in Seq(Records) /\ Len(wal) \in Nat /\ flushed \in 1 .. Len(wal) + 1
        BY RecoveryAssumption DEF IInv, TypeOK, PageType, LogType, curInsert
    <2>2. \A p \in Pages : buf[p].lsn \in Nat /\ disk[p].lsn \in Nat /\ written[p].lsn \in Nat
        BY DEF IInv, TypeOK, PageType, PageImages
    <2>3. \A p \in Pages : disk[p].lsn <= written[p].lsn /\ written[p].lsn <= flushed
        BY DEF IInv, PageInv, PageOK
    <2> QED
        BY <2>1, <2>2, <2>3 DEF LsnsLogged, curInsert
<1>1. ASSUME NEW x \in Xids, InsertRow(x) PROVE LsnsLogged'
    <2>1. PICK r : wal' = Append(wal, r)
        BY <1>1 DEF InsertRow
    <2>2. Len(wal') = Len(wal) + 1
        BY <1>0, <2>1
    <2>3. PICK e \in Nat : e = EndOf(curInsert)
        BY <1>0 DEF EndOf, curInsert
    <2>4. buf' = [buf EXCEPT ![PageOf[x]] =
                     [buf[PageOf[x]] EXCEPT !.rows = @ \cup {x}, !.lsn = e]]
        BY <1>1, <2>3 DEF InsertRow
    <2>5. \A p \in Pages : buf'[p].lsn = IF p = PageOf[x] THEN e ELSE buf[p].lsn
        BY <1>0, <2>4 DEF PageImages
    <2>6. e = Len(wal) + 2
        BY <1>0, <2>3 DEF EndOf, curInsert
    <2> QED
        BY <1>0, <2>2, <2>5, <2>6 DEF LsnsLogged, curInsert
<1>2. ASSUME NEW x \in Xids, SetHintBits(x) PROVE LsnsLogged'
    <2>1. wal' = wal /\ buf' = [buf EXCEPT ![PageOf[x]] =
                                   [buf[PageOf[x]] EXCEPT !.hints = @ \cup {x}]]
        BY <1>2 DEF SetHintBits, walVars
    <2>2. \A p \in Pages : buf'[p].lsn = buf[p].lsn
        BY <1>0, <2>1 DEF PageImages
    <2> QED
        BY <1>0, <2>1, <2>2 DEF LsnsLogged, curInsert
<1>3. CASE Crash
    <2>1. PICK end \in flushed .. curInsert : wal' = SubSeq(wal, 1, end - 1) /\ flushed' = end
        BY <1>3, CrashFacts DEF IInv
    <2>2. end \in 1 .. Len(wal) + 1 /\ flushed <= end
        BY <1>0, <2>1 DEF curInsert
    <2>3. Len(wal') = end - 1
        BY <1>0, <2>1, <2>2, LogCut DEF curInsert
    <2>4. \A p \in Pages : buf'[p] \in {disk[p], written[p]}
        BY <1>3, CrashFacts DEF IInv
    <2>5. \A p \in Pages : buf'[p].lsn \in Nat /\ buf'[p].lsn <= flushed
        BY <1>0, <2>4
    <2> QED
        BY <1>0, <2>2, <2>3, <2>5 DEF LsnsLogged, curInsert
<1>4. CASE StartupXLOG
    <2>1. wal' = wal /\ control.redo \in Nat \ {0}
        <3>1. wal' = wal
            BY <1>4 DEF StartupXLOG, walVars
        <3>2. control.redo \in 1 .. flushed
            BY DEF IInv, ControlInv
        <3> QED
            BY <1>0, <3>1, <3>2
    <2>2. ASSUME NEW p \in Pages PROVE buf'[p].lsn <= Len(wal) + 1
        <3>1. CASE ToRedo(p) = {}
            <4>1. buf'[p] = disk[p]
                BY <1>4, <2>1, <3>1, RedoFacts DEF IInv
            <4> QED
                BY <1>0, <4>1
        <3>2. CASE ToRedo(p) # {}
            <4>1. buf'[p].lsn = EndOf(Max(ToRedo(p)))
                BY <1>4, <2>1, <3>2, RedoFacts DEF IInv
            <4>2. Max(ToRedo(p)) \in ToRedo(p)
                BY <1>0, <2>1, <3>2, ToRedoFacts
            <4>3. ToRedo(p) \subseteq Rows(p)
                BY <1>0, <2>1, ToRedoFacts, Zenon
            <4>4. Max(ToRedo(p)) \in 1 .. Len(wal)
                BY <1>0, <4>2, <4>3, LogTypes
            <4> QED
                BY <1>0, <4>1, <4>4 DEF EndOf
        <3> QED
            BY <3>1, <3>2
    <2> QED
        BY <2>1, <2>2 DEF LsnsLogged, curInsert
<1>5. ASSUME buf' = buf, ~Crash PROVE LsnsLogged'
    <2>1. Len(wal') \in Nat /\ Len(wal) <= Len(wal')
        BY <1>5, LogStays
    <2> QED
        BY <1>0, <1>5, <2>1 DEF LsnsLogged, curInsert
<1>6. \/ buf' = buf \/ Crash \/ StartupXLOG
      \/ \E x \in Xids : InsertRow(x) \/ SetHintBits(x)
    BY DEF Next, Session, PageWriter, Checkpointer, vars, pageVars, MarkBufferDirty,
       RowDone, StartCommit, InsertCommit, CommitLogged, SetClog, EndCommit,
       FlushBuffer, TerminateBufferIO, ckpt_move_queue_head_after_flush, FlushWal,
       StartSuspendWalInsert, RaiseQueueRecLsn, FullRedo, Resume, FirstRecLsn,
       Proceed, ReadQueueRecLsn, Recheck, FindDelaying, WaitForDelaying, CheckPointCLOG,
       EndClogWrite, CheckPointBuffers, InsertCheckpoint, UpdateControlFile,
       CheckForRestartPoint
<1> QED
    BY <1>1, <1>2, <1>3, <1>4, <1>5, <1>6

\* The checkpoint waits for the record it has inserted.
LEMMA RecordStep ==
    ASSUME IInv, RecordLogged, [Next]_vars
    PROVE  RecordLogged'
<1>0. CkptType /\ wal \in Seq(Records) /\ ckpt.record \in Nat
    BY DEF IInv, TypeOK, LogType, CkptType
<1>1. CASE InsertCheckpoint
    <2>1. ckpt'.record = curInsert
        BY <1>0, <1>1 DEF InsertCheckpoint, CkptType
    <2>2. PICK r : wal' = Append(wal, r)
        BY <1>1 DEF InsertCheckpoint
    <2>3. Len(wal') = curInsert
        BY <1>0, <2>2 DEF curInsert
    <2> QED
        BY <1>0, <2>1, <2>3 DEF RecordLogged, curInsert
<1>2. CASE Crash
    BY <1>2 DEF Crash, NoCkpt, RecordLogged
<1>3. ASSUME ~Crash, ckpt'.at = "flush" => ckpt.at = "flush" /\ ckpt'.record = ckpt.record
      PROVE  RecordLogged'
    <2>1. Len(wal) \in Nat /\ Len(wal') \in Nat /\ Len(wal) <= Len(wal')
        BY <1>3, LogStays
    <2> QED
        BY <1>0, <1>3, <2>1 DEF RecordLogged
<1>4. CASE ckpt' = ckpt
    BY <1>2, <1>3, <1>4
<1>5. CASE ckpt_move_queue_head_after_flush
    BY <1>0, <1>2, <1>3, <1>5 DEF ckpt_move_queue_head_after_flush, CkptType
<1>6. CASE \/ StartSuspendWalInsert \/ RaiseQueueRecLsn \/ FullRedo
           \/ ReadQueueRecLsn \/ FindDelaying \/ WaitForDelaying
    <2>1. StartSuspendWalInsert => ckpt'.at = "suspended"
        BY <1>0 DEF StartSuspendWalInsert, CkptType
    <2>2. RaiseQueueRecLsn => ckpt'.at = "redo"
        BY <1>0 DEF RaiseQueueRecLsn, CkptGoto, CkptType
    <2>3. FullRedo => ckpt'.at = "delaying"
        BY <1>0 DEF FullRedo, Resume, CkptType
    <2>4. ReadQueueRecLsn => ckpt'.at = "recheck"
        BY <1>0 DEF ReadQueueRecLsn, CkptType
    <2>5. FindDelaying => ckpt'.at = "wait"
        BY <1>0 DEF FindDelaying, CkptType
    <2>6. WaitForDelaying => ckpt'.at = "clog"
        BY <1>0 DEF WaitForDelaying, CkptType
    <2> QED
        BY <1>6, <2>1, <2>2, <2>3, <2>4, <2>5, <2>6 DEF RecordLogged
<1>7. CASE FirstRecLsn \/ Recheck
    <2>1. \/ ckpt' = [ckpt EXCEPT !.at = "empty"]
          \/ \E redo : Proceed(redo)
        BY <1>7 DEF FirstRecLsn, Recheck, CkptGoto
    <2>2. ASSUME NEW redo, Proceed(redo)
          PROVE  ckpt'.at # "flush"
        <3>1. ckpt' \in {NoCkpt, [ckpt EXCEPT !.at = "panic"],
                         [ckpt EXCEPT !.at = "delaying", !.redo = redo]}
            BY <2>2 DEF Proceed, Resume
        <3>2. NoCkpt.at = "idle"
            BY DEF NoCkpt
        <3>3. [ckpt EXCEPT !.at = "panic"].at = "panic"
            BY <1>0 DEF CkptType
        <3>4. [ckpt EXCEPT !.at = "delaying", !.redo = redo].at = "delaying"
            BY <1>0 DEF CkptType
        <3> QED
            BY <3>1, <3>2, <3>3, <3>4
    <2>3. ckpt' = [ckpt EXCEPT !.at = "empty"] => ckpt'.at # "flush"
        BY <1>0 DEF CkptType
    <2> QED
        BY <2>1, <2>2, <2>3 DEF RecordLogged
<1>8. CASE CheckPointCLOG \/ EndClogWrite \/ CheckPointBuffers \/ UpdateControlFile
    <2>1. ckpt'.at # "flush"
        BY <1>0, <1>8 DEF CheckPointCLOG, EndClogWrite, CheckPointBuffers, UpdateControlFile,
           CkptGoto, NoCkpt, CkptType
    <2> QED
        BY <2>1 DEF RecordLogged
<1> QED
    BY <1>1, <1>2, <1>4, <1>5, <1>6, <1>7, <1>8
    DEF Next, Session, PageWriter, Checkpointer, vars, MarkBufferDirty, InsertRow,
       RowDone, StartCommit, InsertCommit, CommitLogged, SetClog, EndCommit, SetHintBits,
       FlushBuffer, TerminateBufferIO, FlushWal, StartupXLOG, CheckForRestartPoint

\* The invariant of waiting holds in every reachable state, beside the one above.
LEMMA Waiting == Spec => [](IInv /\ WaitInv)
<1>1. Init => WaitInv
    <2> SUFFICES ASSUME Init PROVE WaitInv
        OBVIOUS
    <2>1. LocksHeld
        BY DEF Init, LocksHeld
    <2>2. Len(wal) = 0
        BY DEF Init
    <2>3. LsnsLogged
        BY <2>2 DEF Init, NoRows, InvalidXLogRecPtr, LsnsLogged, curInsert
    <2>4. RecordLogged
        BY DEF Init, NoCkpt, RecordLogged
    <2> QED
        BY <2>1, <2>3, <2>4 DEF WaitInv
<1>2. IInv /\ WaitInv /\ [Next]_vars => WaitInv'
    BY LocksStep, LsnsStep, RecordStep DEF WaitInv
<1> QED
    BY <1>1, <1>2, Invariance, PTL DEF Spec

\* When all of the log is flushed, a session waits only for the checkpointer.
LEMMA SessionWaits ==
    ASSUME IInv, flushed = curInsert, NEW x \in Xids, pc[x] \notin {"idle", "done", "lost"}
    PROVE  SomebodyReady
<1>1. pc[x] \in Labels /\ start[x] \in 0 .. Len(wal) /\ wal \in Seq(Records)
      /\ clogLsn \in 0 .. curInsert /\ clogWrite.on \in BOOLEAN /\ suspended \in BOOLEAN
    BY DEF IInv, TypeOK, XactType, LogType, ClogType
<1>2. suspended => CheckpointerReady
    BY DEF IInv, CkptInv, CheckpointerReady
<1>3. clogWrite.on => CheckpointerReady
    <2>1. clogWrite.on => ckpt.at = "clogwrite"
        BY DEF IInv, ClogInv
    <2>2. flushed >= clogLsn
        BY <1>1 DEF curInsert
    <2> QED
        BY <2>1, <2>2 DEF CheckpointerReady
<1>4. flushed >= EndOf(start[x])
    BY <1>1 DEF curInsert, EndOf
<1>5. SessionReady(x) \/ CheckpointerReady
    BY <1>1, <1>2, <1>3, <1>4 DEF SessionReady, Labels
<1> QED
    BY <1>5 DEF SomebodyReady

\* ... the page writer at the head of the queue waits only for a session ...
LEMMA PageWriterWaits ==
    ASSUME IInv, WaitInv, flushed = curInsert, queue # <<>>
    PROVE  SomebodyReady
<1>1. queue \in Seq(Pages \cup {NoPage}) /\ Head(queue) \in Pages \cup {NoPage}
      /\ 1 \in DOMAIN queue /\ queue[1] = Head(queue)
    BY DEF IInv, TypeOK, QueueType
<1>2. CASE Head(queue) = NoPage
    BY <1>2 DEF SomebodyReady
<1>3. ASSUME NEW p \in Pages, p = Head(queue) PROVE SomebodyReady
    <2>1. recLsn[p] # InvalidXLogRecPtr
        BY <1>1, <1>3 DEF IInv, QueueInv, InOrder
    <2>2. io[p] \in {"none", "written"} /\ lock[p] \in Xids \cup {NoXid}
        BY DEF IInv, TypeOK, PageType
    <2>3. flushed >= buf[p].lsn
        <3>1. buf[p].lsn \in Nat /\ curInsert \in Nat
            BY DEF IInv, TypeOK, PageType, PageImages, LogType, curInsert
        <3> QED
            BY <3>1 DEF WaitInv, LsnsLogged
    <2>4. CASE lock[p] = NoXid
        BY <2>1, <2>2, <2>3, <2>4 DEF SomebodyReady, PageWriterReady
    <2>5. CASE lock[p] # NoXid
        <3>1. lock[p] \in Xids /\ pc[lock[p]] \notin {"idle", "done", "lost"}
            BY <2>2, <2>5 DEF WaitInv, LocksHeld
        <3> QED
            BY <3>1, SessionWaits
    <2> QED
        BY <2>4, <2>5
<1> QED
    BY <1>1, <1>2, <1>3

\* ... and the checkpointer for sessions and for the page writer.
LEMMA CheckpointerWaits ==
    ASSUME IInv, WaitInv, flushed = curInsert, ckpt.at # "idle"
    PROVE  SomebodyReady
<1>1. ckpt.at \in Searching \cup Found /\ ckpt.record \in Nat /\ wal \in Seq(Records)
      /\ clogLsn \in 0 .. curInsert
    BY DEF IInv, TypeOK, CkptType, LogType, ClogType, CkptInv
<1>2. CASE ckpt.at = "wait"
    <2>1. CASE ckpt.wait \cap delayChkpt = {}
        BY <1>2, <2>1 DEF CheckpointerReady, SomebodyReady
    <2>2. CASE ckpt.wait \cap delayChkpt # {}
        <3>1. PICK x \in Xids : pc[x] \in {"commit", "logged", "flush", "set"}
            BY <2>2 DEF IInv, XactInv
        <3> QED
            BY <3>1, SessionWaits
    <2> QED
        BY <2>1, <2>2
<1>3. CASE ckpt.at = "buffers"
    <2>1. CASE queue = <<>>
        BY <1>3, <2>1 DEF CheckpointerReady, SomebodyReady
    <2>2. CASE queue # <<>>
        BY <2>2, PageWriterWaits
    <2> QED
        BY <2>1, <2>2
<1>4. CASE ckpt.at = "clogwrite"
    <2>1. flushed >= clogLsn
        BY <1>1 DEF curInsert
    <2> QED
        BY <1>4, <2>1 DEF CheckpointerReady, SomebodyReady
<1>5. CASE ckpt.at = "record"
    <2>1. ~suspended
        BY <1>5 DEF IInv, CkptInv, Searching
    <2> QED
        BY <1>5, <2>1 DEF CheckpointerReady, SomebodyReady
<1>6. CASE ckpt.at = "flush"
    <2>1. flushed >= EndOf(ckpt.record)
        BY <1>1, <1>6 DEF WaitInv, RecordLogged, curInsert, EndOf
    <2> QED
        BY <1>6, <2>1 DEF CheckpointerReady, SomebodyReady
<1>7. CASE ckpt.at \in Searching \cup {"delaying", "clog"}
    BY <1>7 DEF CheckpointerReady, SomebodyReady
<1> QED
    BY <1>1, <1>2, <1>3, <1>4, <1>5, <1>6, <1>7 DEF Found, Syncing

\* Commits, the page writer and checkpoints (StartSuspendWalInsert, delayChkpt,
\* HaveVirtualXIDsDelayingChkpt, the content locks) do not wait for each other in a
\* circle: while a commit or a checkpoint is under way, somebody has what it waits for.
THEOREM SomebodyGoesOn == Spec => [](UnderWay => SomebodyReady)
<1>1. IInv /\ WaitInv => (UnderWay => SomebodyReady)
    <2> SUFFICES ASSUME IInv, WaitInv, UnderWay PROVE SomebodyReady
        OBVIOUS
    <2>1. flushed \in 1 .. curInsert /\ curInsert \in Nat
        BY DEF IInv, TypeOK, LogType, curInsert
    <2>2. CASE flushed < curInsert
        BY <2>2 DEF UnderWay, SomebodyReady
    <2>3. CASE flushed = curInsert
        BY <2>3, SessionWaits, CheckpointerWaits DEF UnderWay
    <2> QED
        BY <2>1, <2>2, <2>3
<1> QED
    BY <1>1, Waiting, PTL

=============================================================================
