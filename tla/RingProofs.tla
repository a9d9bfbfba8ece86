----------------------------- MODULE RingProofs -----------------------------
(***************************************************************************)
(* SnapshotRing keeps its invariant, for any number of xids, readers and   *)
(* slots: snapshots that are taken without a lock have a true xmin, vacuum *)
(* removes no row that one of them shows, the reference counts of the      *)
(* slots are exact, and the search for a free one fails only when as many  *)
(* threads are taking a snapshot at once as there are slots.               *)
(***************************************************************************)
EXTENDS SnapshotRing, FiniteSetTheorems, WellFoundedInduction, TLAPS

\* Xids and slots are numbers.
LEMMA XidsNat == Xids \subseteq Nat /\ SlotNos \subseteq Nat
BY RingAssumption DEF Xids, SlotNos, FirstNormalTransactionId

\* Oldest is the least element (the loops over the proc array look for it).
LEMMA OldestIsLeast ==
    ASSUME NEW S \in SUBSET Nat, S # {}
    PROVE  Oldest(S) \in S /\ \A y \in S : Oldest(S) <= y
<1> DEFINE R == OpToRel(<, Nat)
<1>1. IsWellFoundedOn(R, Nat)
    BY NatLessThanWellFounded
<1>2. \A x, y \in Nat : y < x => <<y, x>> \in R
    BY DEF OpToRel
<1>3. PICK x \in S : \A y \in S : ~ (<<y, x>> \in R)
    <2> HIDE DEF R
    <2> QED
        BY <1>1, WFMin
<1>4. ASSUME NEW y \in S PROVE x <= y
    <2>1. x \in Nat /\ y \in Nat
        OBVIOUS
    <2>2. ~ (<<y, x>> \in R)
        BY <1>3
    <2>3. ~ (y < x)
        BY <1>2, <2>1, <2>2, Zenon
    <2> QED
        BY <2>1, <2>3
<1> QED
    BY <1>4 DEF Oldest

\* The older of two xids follows neither.
LEMMA OlderFacts ==
    ASSUME NEW x \in Nat, NEW y \in Nat
    PROVE  Older(x, y) \in Nat /\ Older(x, y) <= x /\ Older(x, y) <= y
BY DEF Older

-----------------------------------------------------------------------------
(* Which steps change what                                                 *)

\* Transactions move on in three actions ...
LEMMA XactSteps ==
    ASSUME [Next]_vars
    PROVE  \/ GetNewTransactionId
           \/ \E x \in Xids : GetLocalNextCSN(x) \/ EndTransaction(x)
           \/ UNCHANGED xactVars
BY DEF Next, ReaderNext, DeferCalculation, ScanStart, ScanSlot, SetXmins, WriteXmin,
   WriteLocalXmin, SetNextSnapXid, SlotIsFree, SlotIsInUse, ReadCurrent, IncrRefCount, AdvertiseXmin,
   ReadLocalXmin, CopySlot, ReadSnapshotCsn, DropSnapshot, ScanProc, GetOldestXmin,
   GetOldestXminFromRing, RemoveDeadRow, vars

\* ... and a thread's snapshots, with its PGXACT.xmin, in three others.
LEMMA SnapshotSteps ==
    ASSUME [Next]_vars
    PROVE  \/ \E r \in Readers : \/ AdvertiseXmin(r) \/ ReadSnapshotCsn(r)
                                 \/ \E s \in held[r] : DropSnapshot(r, s)
           \/ UNCHANGED <<pgxactXmin, held>>
BY DEF Next, ReaderNext, GetNewTransactionId, GetLocalNextCSN, EndTransaction,
   DeferCalculation, ScanStart, ScanSlot, SetXmins, WriteXmin,
   WriteLocalXmin, SetNextSnapXid, SlotIsFree, SlotIsInUse, ReadCurrent, IncrRefCount,
   ReadLocalXmin, CopySlot, ScanProc, GetOldestXmin,
   GetOldestXminFromRing, RemoveDeadRow, vars, readerVars

-----------------------------------------------------------------------------
(* What stays                                                              *)

\* An xid that has left the proc array does not come back, and its CSN is final.
LEMMA OverStays ==
    ASSUME IInv, [Next]_vars
    PROVE  \A x \in Xids : Over(x) => Over(x)' /\ csnOf'[x] = csnOf[x]
<1> USE DEF IInv, TypeOK, XactInv
<1>1. CASE GetNewTransactionId
    BY <1>1, XidsNat DEF GetNewTransactionId, Over
<1>2. ASSUME NEW x \in Xids, GetLocalNextCSN(x)
      PROVE  \A y \in Xids : Over(y) => Over(y)' /\ csnOf'[y] = csnOf[y]
    BY <1>2 DEF GetLocalNextCSN, Over
<1>3. ASSUME NEW x \in Xids, EndTransaction(x)
      PROVE  \A y \in Xids : Over(y) => Over(y)' /\ csnOf'[y] = csnOf[y]
    BY <1>3 DEF EndTransaction, Over
<1>4. CASE UNCHANGED xactVars
    BY <1>4 DEF xactVars, Over
<1> QED
    BY <1>1, <1>2, <1>3, <1>4, XactSteps

\* A snapshot that is new has the CSN of now.
LEMMA NewSnapshot ==
    ASSUME IInv, [Next]_vars
    PROVE  \A r \in Readers : \A s \in held'[r] :
              s \in held[r] \/ s.csn = nextCommitSeqNo
<1> USE DEF IInv, TypeOK
<1>1. ASSUME NEW q \in Readers, AdvertiseXmin(q)
      PROVE  UNCHANGED held
    BY <1>1 DEF AdvertiseXmin
<1>2. ASSUME NEW q \in Readers, ReadSnapshotCsn(q)
      PROVE  \A r \in Readers : \A s \in held'[r] :
                s \in held[r] \/ s.csn = nextCommitSeqNo
    BY <1>2 DEF ReadSnapshotCsn
<1>3. ASSUME NEW q \in Readers, NEW s \in held[q], DropSnapshot(q, s)
      PROVE  \A r \in Readers : held'[r] \subseteq held[r]
    BY <1>3 DEF DropSnapshot
<1> QED
    BY <1>1, <1>2, <1>3, SnapshotSteps

\* ... which is after whatever has committed.
LEMMA CoveredStays ==
    ASSUME IInv, [Next]_vars
    PROVE  \A x \in Xids : \A r \in Readers :
              Over(x) /\ Covered(x, r) => Covered(x, r)'
BY OverStays, NewSnapshot DEF Covered, IInv, XactInv

\* The pins on a slot are finitely many, as its count is.
LEMMA PinningFinite ==
    \A i : Pinning(i) \subseteq Readers /\ IsFiniteSet(Pinning(i))
           /\ Cardinality(Pinning(i)) \in Nat
<1> SUFFICES ASSUME NEW i
             PROVE  IsFiniteSet(Pinning(i)) /\ Cardinality(Pinning(i)) \in Nat
    BY DEF Pinning
<1>1. Pinning(i) \subseteq Readers
    BY DEF Pinning
<1>2. IsFiniteSet(Pinning(i))
    BY <1>1, RingAssumption, FS_Subset
<1> QED
    BY <1>2, FS_CardinalityType

\* A slot that somebody looks at is counted.
LEMMA PinnedIsCounted ==
    ASSUME IInv, NEW r \in Readers, rpc[r] \in {"pinned", "advertised", "horizon"}
    PROVE  refCnt[ptr[r]] > 0
<1>1. ptr[r] \in SlotNos /\ r \in Pinning(ptr[r])
    BY DEF IInv, TypeOK, Pinning
<1>2. Cardinality(Pinning(ptr[r])) # 0
    BY <1>1, PinningFinite, FS_EmptySet
<1> QED
    BY <1>1, <1>2, PinningFinite DEF IInv, RefInv

\* Every step keeps the types.
LEMMA TypeStep ==
    ASSUME IInv, [Next]_vars
    PROVE  TypeOK'
<1>1. CASE GetNewTransactionId
    <2>1. nextXid \in Xids
        BY <1>1, RingAssumption DEF GetNewTransactionId, IInv, TypeOK, XactInv,
           Xids
    <2> QED
        BY <1>1, <2>1 DEF GetNewTransactionId, IInv, TypeOK, XactInv,
           FirstNormalTransactionId, InvalidTransactionId, xactVars, shmVars,
           ringVars, scanVars, searchVars, pubVars, readerVars, vacVars
<1>2. ASSUME NEW x \in Xids, GetLocalNextCSN(x) PROVE TypeOK'
    BY <1>2 DEF GetLocalNextCSN, IInv, TypeOK, XactInv,
       FirstNormalTransactionId, InvalidTransactionId, xactVars, shmVars,
       ringVars, scanVars, searchVars, pubVars, readerVars, vacVars
<1>3. CASE ScanStart
    <2> DEFINE S == {Xmax, slot[current].xmin} \ {InvalidTransactionId}
    <2>1. S \in SUBSET Nat /\ Xmax \in S
        BY DEF IInv, TypeOK, Xmax, InvalidTransactionId
    <2>2. Oldest(S) \in Nat
        <3> HIDE DEF S
        <3> QED
            BY <2>1, OldestIsLeast
    <2> QED
        BY <1>3, <2>2, RingAssumption DEF ScanStart, IInv, TypeOK, xactVars,
           shmVars, ringVars, scanVars, searchVars, pubVars, readerVars, vacVars
<1>4. CASE ScanSlot
    <2>1. scanSlot \in SlotNos /\ scanSlot + 1 \in 0 .. RingSize
        BY <1>4, RingAssumption DEF ScanSlot, IInv, TypeOK, ScanInv, SlotNos
    <2>2. Older(slot[scanSlot].xmin, globalXmin) \in Nat
        BY <2>1, OlderFacts DEF IInv, TypeOK
    <2> QED
        BY <1>4, <2>1, <2>2 DEF ScanSlot, IInv, TypeOK, xactVars, shmVars,
           ringVars, scanVars, searchVars, pubVars, readerVars, vacVars
<1>5. CASE SetXmins
    <2> DEFINE S == {Xmax} \cup {x \in running : x < Xmax}
    <2>1. S \in SUBSET Nat /\ Xmax \in S
        <3>1. Xmax \in Nat /\ running \subseteq Nat
            BY XidsNat DEF IInv, TypeOK, Xmax
        <3> QED
            BY <3>1
    <2>2. Oldest(S) \in Nat
        <3> HIDE DEF S
        <3> QED
            BY <2>1, OldestIsLeast
    <2>3. Older(globalXmin, Oldest(S)) \in Nat
        BY <2>2, OlderFacts DEF IInv, TypeOK
    <2> QED
        BY <1>5, <2>2, <2>3, RingAssumption DEF SetXmins, IInv, TypeOK,
           InvalidTransactionId, xactVars, shmVars,
           ringVars, scanVars, searchVars, pubVars, readerVars, vacVars
<1>6. CASE SetNextSnapXid
    BY <1>6 DEF SetNextSnapXid, UsingSlot, IInv, TypeOK, xactVars, shmVars,
       ringVars, scanVars, searchVars, pubVars, readerVars, vacVars
<1>7. ASSUME NEW r \in Readers, IncrRefCount(r) PROVE TypeOK'
    <2>1. refCnt' \in [SlotNos -> Nat]
        BY <1>7 DEF IncrRefCount, IInv, TypeOK
    <2> QED
        BY <1>7, <2>1 DEF IncrRefCount, IInv, TypeOK, xactVars, shmVars,
           ringVars, scanVars, searchVars, pubVars, readerVars, vacVars
<1>8. ASSUME NEW r \in Readers, CopySlot(r) PROVE TypeOK'
    <2>1. refCnt[ptr[r]] > 0
        BY <1>8, PinnedIsCounted DEF CopySlot
    <2>2. refCnt' \in [SlotNos -> Nat]
        BY <1>8, <2>1 DEF CopySlot, IInv, TypeOK
    <2>3. copied' \in [Readers -> Nat] /\ ptr' \in [Readers -> SlotNos]
        <3>1. 0 \in SlotNos
            BY RingAssumption DEF SlotNos
        <3> QED
            BY <1>8, <3>1 DEF CopySlot, IInv, TypeOK
    <2> QED
        BY <1>8, <2>2, <2>3 DEF CopySlot, IInv, TypeOK, xactVars, shmVars,
           ringVars, scanVars, searchVars, pubVars, readerVars, vacVars
<1>9. ASSUME NEW r \in Readers, ReadSnapshotCsn(r) PROVE TypeOK'
    <2>1. [xmin |-> copied[r], csn |-> nextCommitSeqNo] \in [xmin : Nat, csn : Nat]
        BY DEF IInv, TypeOK
    <2>2. held' \in [Readers -> SUBSET [xmin : Nat, csn : Nat]]
        BY <1>9, <2>1 DEF ReadSnapshotCsn, IInv, TypeOK
    <2> QED
        BY <1>9, <2>2 DEF ReadSnapshotCsn, IInv, TypeOK, InvalidTransactionId,
           xactVars, shmVars, ringVars, scanVars, searchVars, pubVars, readerVars, vacVars
<1>23. CASE SlotIsFree
    <2>1. NextIdx \in SlotNos /\ 0 \in SlotNos
        BY RingAssumption DEF NextIdx, SlotNos, IInv, TypeOK
    <2> QED
        BY <1>23, <2>1 DEF SlotIsFree, IInv, TypeOK, xactVars, shmVars, scanVars,
           readerVars, vacVars
<1>24. CASE SlotIsInUse
    <2>1. NextIdx \in SlotNos /\ nofindCount + 1 \in Nat /\ UsingSlot \subseteq Readers
        BY RingAssumption DEF NextIdx, SlotNos, UsingSlot, IInv, TypeOK
    <2>2. passBegan' \subseteq Readers /\ ppc' \in {"searching", "panic"}
          /\ idx' \in SlotNos /\ nofindCount' \in Nat
        BY <1>24, <2>1 DEF SlotIsInUse, IInv, TypeOK
    <2> QED
        BY <1>24, <2>2 DEF SlotIsInUse, IInv, TypeOK, xactVars, shmVars, ringVars,
           scanVars, readerVars, vacVars
<1> USE RingAssumption, XidsNat DEF IInv, TypeOK, XactInv, SlotNos,
   FirstNormalTransactionId, InvalidTransactionId, Older, Xids, xactVars,
   shmVars, ringVars, scanVars, searchVars, pubVars, readerVars, vacVars
<1>10. ASSUME NEW x \in Xids, EndTransaction(x) PROVE TypeOK'
    BY <1>10 DEF EndTransaction
<1>11. CASE DeferCalculation
    BY <1>11 DEF DeferCalculation
<1>12. CASE WriteXmin
    BY <1>12 DEF WriteXmin
<1>13. CASE WriteLocalXmin
    BY <1>13 DEF WriteLocalXmin
<1>14. ASSUME NEW r \in Readers, ReadCurrent(r) PROVE TypeOK'
    BY <1>14 DEF ReadCurrent
<1>15. ASSUME NEW r \in Readers, AdvertiseXmin(r) PROVE TypeOK'
    BY <1>15 DEF AdvertiseXmin
<1>16. ASSUME NEW r \in Readers, ReadLocalXmin(r) PROVE TypeOK'
    BY <1>16 DEF ReadLocalXmin
<1>17. ASSUME NEW r \in Readers, NEW s \in held[r], DropSnapshot(r, s) PROVE TypeOK'
    BY <1>17 DEF DropSnapshot
<1>18. ASSUME NEW r \in Readers, ScanProc(r) PROVE TypeOK'
    BY <1>18 DEF ScanProc
<1>19. ASSUME NEW r \in Readers, GetOldestXmin(r) PROVE TypeOK'
    BY <1>19 DEF GetOldestXmin
<1>20. CASE GetOldestXminFromRing
    BY <1>20 DEF GetOldestXminFromRing
<1>21. ASSUME NEW x \in Xids, RemoveDeadRow(x) PROVE TypeOK'
    BY <1>21 DEF RemoveDeadRow
<1>22. CASE UNCHANGED vars
    BY <1>22 DEF vars
<1> QED
    BY <1>1, <1>2, <1>3, <1>4, <1>5, <1>6, <1>7, <1>8, <1>9, <1>10, <1>11,
       <1>12, <1>13, <1>14, <1>15, <1>16, <1>17, <1>18, <1>19, <1>20, <1>21,
       <1>22, <1>23, <1>24 DEF Next, ReaderNext

-----------------------------------------------------------------------------
(* The parts of the invariant                                              *)

\* Xids are assigned in order, and CSNs drawn below the counter.
LEMMA XactStep ==
    ASSUME IInv, [Next]_vars
    PROVE  XactInv'
<1> USE DEF IInv, TypeOK, XactInv
<1>1. CASE GetNewTransactionId
    BY <1>1, XidsNat DEF GetNewTransactionId, FirstNormalTransactionId
<1>2. ASSUME NEW x \in Xids, GetLocalNextCSN(x)
      PROVE  XactInv'
    BY <1>2 DEF GetLocalNextCSN
<1>3. ASSUME NEW x \in Xids, EndTransaction(x)
      PROVE  XactInv'
    BY <1>3, XidsNat DEF EndTransaction
<1>4. CASE UNCHANGED xactVars
    BY <1>4 DEF xactVars
<1> QED
    BY <1>1, <1>2, <1>3, <1>4, XactSteps

\* The scan under ProcArrayLock finds a horizon for the snapshot.
LEMMA XminFound ==
    ASSUME IInv, SetXmins
    PROVE  /\ shmemXmin' \in Nat /\ shmemXmin' # InvalidTransactionId
           /\ Horizon(shmemXmin')
           /\ recentLocalXmin' <= shmemXmin' /\ recentLocalXmin' <= globalXmin
<1> DEFINE S == {Xmax} \cup {x \in running : x < Xmax}
           xmin == Oldest(S)
<1>1. Xmax \in Nat /\ running \subseteq Nat /\ Xmax # 0 /\ running \subseteq Xids
      /\ globalXmin \in Nat
    BY XidsNat DEF IInv, TypeOK, Xmax
<1>2. S \in SUBSET Nat /\ Xmax \in S
    BY <1>1
<1>3. xmin \in S /\ \A y \in S : xmin <= y
    <2> HIDE DEF S
    <2> QED
        BY <1>2, OldestIsLeast
<1>4. shmemXmin' = xmin /\ recentLocalXmin' = Older(globalXmin, xmin)
    BY DEF SetXmins
<1>5. xmin \in Nat /\ xmin # 0 /\ xmin <= Xmax
    BY <1>1, <1>2, <1>3, XidsNat DEF Xids, FirstNormalTransactionId
<1>6. ASSUME NEW x \in Xids, x < xmin
      PROVE  Over(x)
    <2>1. x < Xmax
        BY <1>1, <1>5, <1>6, XidsNat
    <2>2. x \notin running
        BY <1>1, <1>3, <1>5, <1>6, <2>1
    <2>3. x < nextXid
        BY <2>1, XidsNat DEF Xmax, IInv, TypeOK, XactInv
    <2> QED
        BY <2>2, <2>3 DEF Over
<1> HIDE DEF xmin
<1> QED
    BY <1>1, <1>4, <1>5, <1>6, OlderFacts DEF Horizon, InvalidTransactionId

\* The xmin of a slot is a horizon, and valid where it is looked at.
LEMMA SlotStep ==
    ASSUME IInv, [Next]_vars
    PROVE  SlotInv'
<1> USE OverStays, XminFound DEF IInv, TypeOK, SlotInv, ReaderInv, UsingSlot, Horizon,
   xactVars, shmVars, ringVars, scanVars, searchVars, pubVars, readerVars, vacVars
<1>1. CASE GetNewTransactionId
    BY <1>1 DEF GetNewTransactionId
<1>2. ASSUME NEW x \in Xids, GetLocalNextCSN(x) PROVE SlotInv'
    BY <1>2 DEF GetLocalNextCSN
<1>3. ASSUME NEW x \in Xids, EndTransaction(x) PROVE SlotInv'
    BY <1>3 DEF EndTransaction
<1>4. CASE DeferCalculation
    BY <1>4 DEF DeferCalculation
<1>5. CASE ScanStart
    BY <1>5 DEF ScanStart
<1>6. CASE ScanSlot
    BY <1>6 DEF ScanSlot
<1>7. CASE SetXmins
    BY <1>7 DEF SetXmins
<1>8. CASE WriteXmin
    BY <1>8 DEF WriteXmin
<1>9. CASE WriteLocalXmin
    BY <1>9 DEF WriteLocalXmin
<1>10. CASE SetNextSnapXid
    BY <1>10 DEF SetNextSnapXid
<1>11. ASSUME NEW r \in Readers, ReadCurrent(r) PROVE SlotInv'
    BY <1>11 DEF ReadCurrent
<1>12. ASSUME NEW r \in Readers, IncrRefCount(r) PROVE SlotInv'
    BY <1>12 DEF IncrRefCount
<1>13. ASSUME NEW r \in Readers, AdvertiseXmin(r) PROVE SlotInv'
    BY <1>13 DEF AdvertiseXmin
<1>14. ASSUME NEW r \in Readers, ReadLocalXmin(r) PROVE SlotInv'
    BY <1>14 DEF ReadLocalXmin
<1>15. ASSUME NEW r \in Readers, CopySlot(r) PROVE SlotInv'
    BY <1>15 DEF CopySlot
<1>16. ASSUME NEW r \in Readers, ReadSnapshotCsn(r) PROVE SlotInv'
    BY <1>16 DEF ReadSnapshotCsn
<1>17. ASSUME NEW r \in Readers, NEW s \in held[r], DropSnapshot(r, s) PROVE SlotInv'
    BY <1>17 DEF DropSnapshot
<1>18. ASSUME NEW r \in Readers, ScanProc(r) PROVE SlotInv'
    BY <1>18 DEF ScanProc
<1>19. ASSUME NEW r \in Readers, GetOldestXmin(r) PROVE SlotInv'
    BY <1>19 DEF GetOldestXmin
<1>20. CASE GetOldestXminFromRing
    BY <1>20 DEF GetOldestXminFromRing
<1>21. ASSUME NEW x \in Xids, RemoveDeadRow(x) PROVE SlotInv'
    BY <1>21 DEF RemoveDeadRow
<1>22. CASE UNCHANGED vars
    BY <1>22 DEF vars
<1>23. CASE SlotIsFree
    BY <1>23 DEF SlotIsFree
<1>24. CASE SlotIsInUse
    BY <1>24 DEF SlotIsInUse
<1> QED
    BY <1>1, <1>2, <1>3, <1>4, <1>5, <1>6, <1>7, <1>8, <1>9, <1>10, <1>11,
       <1>12, <1>13, <1>14, <1>15, <1>16, <1>17, <1>18, <1>19, <1>20, <1>21,
       <1>22, <1>23, <1>24 DEF Next, ReaderNext
\* So are the xmins that readers have taken, and snapshots cover what precedes theirs.
LEMMA ReaderStep ==
    ASSUME IInv, [Next]_vars
    PROVE  ReaderInv'
<1>1. ASSUME NEW r \in Readers, AdvertiseXmin(r) PROVE ReaderInv'
    <2>1. /\ UNCHANGED <<xactVars, held, copied>>
          /\ \A q \in Readers : q # r =>
                rpc'[q] = rpc[q] /\ pgxactXmin'[q] = pgxactXmin[q]
        BY <1>1 DEF AdvertiseXmin, IInv, TypeOK, xactVars
    <2>2. \/ pgxactXmin'[r] = pgxactXmin[r] /\ pgxactXmin[r] # InvalidTransactionId
          \/ pgxactXmin'[r] = slot[ptr[r]].xmin /\ held[r] = {}
        BY <1>1 DEF AdvertiseXmin, IInv, TypeOK, ReaderInv
    <2>3. pgxactXmin'[r] # InvalidTransactionId /\ Horizon(pgxactXmin'[r])
        <3>1. r \in UsingSlot
            BY <1>1 DEF AdvertiseXmin, UsingSlot
        <3> QED
            BY <2>2, <3>1 DEF IInv, TypeOK, SlotInv, ReaderInv
    <2>4. \A x \in Xids : x < pgxactXmin'[r] => Covered(x, r)
        BY <2>2 DEF Covered, IInv, ReaderInv
    <2>5. \A x \in Xids :
             /\ Over(x) <=> Over(x)'
             /\ \A q \in Readers : Covered(x, q) <=> Covered(x, q)'
        BY <2>1 DEF Over, Covered, xactVars
    <2> QED
        BY <2>1, <2>3, <2>4, <2>5 DEF ReaderInv, IInv, Horizon, xactVars
<1>2. ASSUME NEW r \in Readers, ReadSnapshotCsn(r) PROVE ReaderInv'
    <2> DEFINE t == [xmin |-> copied[r], csn |-> nextCommitSeqNo]
    <2>1. /\ UNCHANGED <<xactVars, pgxactXmin>>
          /\ \A q \in Readers : q # r =>
                rpc'[q] = rpc[q] /\ held'[q] = held[q] /\ copied'[q] = copied[q]
          /\ held'[r] = held[r] \cup {t} /\ copied'[r] = 0 /\ rpc[r] = "copied"
        BY <1>2 DEF ReadSnapshotCsn, IInv, TypeOK, InvalidTransactionId
    <2>2. \A x \in Xids : (Over(x) <=> Over(x)')
        BY <2>1 DEF Over, xactVars
    <2>3. \A x \in Xids : x < t.xmin => Over(x) /\ csnOf[x] < t.csn
        BY DEF IInv, XactInv, ReaderInv, Horizon
    <2>4. \A x \in Xids : \A q \in Readers : x < pgxactXmin[q] => Covered(x, q)'
        BY CoveredStays DEF IInv, ReaderInv, Horizon
    <2>5. \A q \in Readers : Horizon(copied[q])'
        <3>1. Horizon(0)'
            BY XidsNat DEF Horizon
        <3> QED
            BY <2>1, <2>2, <3>1 DEF Horizon, IInv, ReaderInv
    <2>6. \A q \in Readers : Horizon(pgxactXmin[q])'
        BY <2>1, <2>2 DEF Horizon, IInv, ReaderInv
    <2>7. \A q \in Readers :
             rpc'[q] \in {"advertised", "horizon", "copied"} \/ held'[q] # {}
               => pgxactXmin'[q] # InvalidTransactionId
        BY <2>1 DEF IInv, ReaderInv
    <2>8. \A q \in Readers : \A s \in held'[q] : \A x \in Xids :
             x < s.xmin => Over(x)' /\ csnOf'[x] < s.csn
        <3> HIDE DEF t
        <3> QED
            BY <2>1, <2>2, <2>3 DEF IInv, ReaderInv, xactVars
    <2> QED
        BY <2>1, <2>4, <2>5, <2>6, <2>7, <2>8 DEF ReaderInv
<1>3. ASSUME NEW r \in Readers, NEW s \in held[r], DropSnapshot(r, s) PROVE ReaderInv'
    <2>1. /\ UNCHANGED <<xactVars, rpc, copied>>
          /\ \A q \in Readers : q # r =>
                held'[q] = held[q] /\ pgxactXmin'[q] = pgxactXmin[q]
          /\ held'[r] = held[r] \ {s} /\ rpc[r] = "idle"
          /\ \/ pgxactXmin'[r] = pgxactXmin[r]
             \/ held[r] = {s} /\ pgxactXmin'[r] = 0
        BY <1>3 DEF DropSnapshot, IInv, TypeOK, InvalidTransactionId
    <2>2. \A x \in Xids : (Over(x) <=> Over(x)') /\ ~ (x < 0)
        BY <2>1, XidsNat DEF Over, xactVars
    <2>3. \A x \in Xids : \A q \in Readers : Covered(x, q) => Covered(x, q)'
        BY <2>1 DEF Covered, xactVars
    <2>4. \A q \in Readers : Horizon(pgxactXmin[q])' /\ Horizon(copied[q])'
        BY <2>1, <2>2 DEF Horizon, IInv, ReaderInv
    <2>5. \A q \in Readers : \A x \in Xids : x < pgxactXmin'[q] => Covered(x, q)'
        BY <2>1, <2>2, <2>3 DEF IInv, ReaderInv
    <2>6. \A q \in Readers :
             rpc'[q] \in {"advertised", "horizon", "copied"} \/ held'[q] # {}
               => pgxactXmin'[q] # InvalidTransactionId
        <3>1. held[r] # {} /\ pgxactXmin[r] # InvalidTransactionId
            BY DEF IInv, ReaderInv
        <3>2. pgxactXmin'[r] # pgxactXmin[r] => held'[r] = {}
            BY <2>1
        <3> QED
            BY <2>1, <3>1, <3>2 DEF IInv, ReaderInv
    <2>7. \A q \in Readers : \A u \in held'[q] : \A x \in Xids :
             x < u.xmin => Over(x)' /\ csnOf'[x] < u.csn
        BY <2>1, <2>2 DEF IInv, ReaderInv, xactVars
    <2> QED
        BY <2>4, <2>5, <2>6, <2>7 DEF ReaderInv
<1> USE OverStays, CoveredStays DEF IInv, TypeOK, SlotInv, ReaderInv, Horizon,
   xactVars, shmVars, ringVars, scanVars, searchVars, pubVars, readerVars, vacVars, XactInv
<1>4. CASE GetNewTransactionId
    BY <1>4 DEF GetNewTransactionId
<1>5. ASSUME NEW x \in Xids, GetLocalNextCSN(x) PROVE ReaderInv'
    BY <1>5 DEF GetLocalNextCSN
<1>6. ASSUME NEW x \in Xids, EndTransaction(x) PROVE ReaderInv'
    BY <1>6 DEF EndTransaction
<1>7. CASE DeferCalculation
    BY <1>7 DEF DeferCalculation
<1>8. CASE ScanStart
    BY <1>8 DEF ScanStart
<1>9. CASE ScanSlot
    BY <1>9 DEF ScanSlot
<1>10. CASE SetXmins
    BY <1>10 DEF SetXmins
<1>11. CASE WriteXmin
    BY <1>11 DEF WriteXmin
<1>12. CASE WriteLocalXmin
    BY <1>12 DEF WriteLocalXmin
<1>13. CASE SetNextSnapXid
    BY <1>13 DEF SetNextSnapXid
<1>14. ASSUME NEW r \in Readers, ReadCurrent(r) PROVE ReaderInv'
    BY <1>14 DEF ReadCurrent
<1>15. ASSUME NEW r \in Readers, IncrRefCount(r) PROVE ReaderInv'
    BY <1>15 DEF IncrRefCount
<1>16. ASSUME NEW r \in Readers, ReadLocalXmin(r) PROVE ReaderInv'
    BY <1>16 DEF ReadLocalXmin
<1>17. ASSUME NEW r \in Readers, CopySlot(r) PROVE ReaderInv'
    BY <1>17 DEF CopySlot
<1>18. ASSUME NEW r \in Readers, ScanProc(r) PROVE ReaderInv'
    BY <1>18 DEF ScanProc
<1>19. ASSUME NEW r \in Readers, GetOldestXmin(r) PROVE ReaderInv'
    BY <1>19 DEF GetOldestXmin
<1>20. CASE GetOldestXminFromRing
    BY <1>20 DEF GetOldestXminFromRing
<1>21. ASSUME NEW x \in Xids, RemoveDeadRow(x) PROVE ReaderInv'
    BY <1>21 DEF RemoveDeadRow
<1>22. CASE UNCHANGED vars
    BY <1>22 DEF vars
<1>23. CASE SlotIsFree
    BY <1>23 DEF SlotIsFree
<1>24. CASE SlotIsInUse
    BY <1>24 DEF SlotIsInUse
<1> QED
    BY <1>1, <1>2, <1>3, <1>4, <1>5, <1>6, <1>7, <1>8, <1>9, <1>10, <1>11,
       <1>12, <1>13, <1>14, <1>15, <1>16, <1>17, <1>18, <1>19, <1>20, <1>21,
       <1>22, <1>23, <1>24 DEF Next, ReaderNext
\* The scan is made by the holder of the lock alone.
LEMMA ScanSteps ==
    ASSUME [Next]_vars
    PROVE  \/ ScanStart \/ ScanSlot \/ \E r \in Readers : ScanProc(r)
           \/ ppc' \notin {"scanning", "scanned"}
           \/ UNCHANGED pubVars
BY DEF Next, ReaderNext, GetNewTransactionId, GetLocalNextCSN, EndTransaction,
   DeferCalculation, SetXmins, WriteXmin, WriteLocalXmin, SetNextSnapXid,
   SlotIsFree, SlotIsInUse, ReadCurrent, IncrRefCount, AdvertiseXmin, ReadLocalXmin, CopySlot,
   ReadSnapshotCsn, DropSnapshot, GetOldestXmin, GetOldestXminFromRing,
   RemoveDeadRow, vars, pubVars

\* ... and nothing ends meanwhile.
LEMMA NothingEnds ==
    ASSUME IInv, [Next]_vars, ppc = "scanned"
    PROVE  \A x \in Xids : Over(x)' => Over(x)
<1> USE DEF IInv, TypeOK
<1>1. CASE GetNewTransactionId
    BY <1>1, XidsNat DEF GetNewTransactionId, Over
<1>2. ASSUME NEW x \in Xids, GetLocalNextCSN(x)
      PROVE  \A y \in Xids : Over(y)' => Over(y)
    BY <1>2 DEF GetLocalNextCSN, Over
<1>3. ASSUME NEW x \in Xids, EndTransaction(x)
      PROVE  FALSE
    BY <1>3 DEF EndTransaction
<1>4. CASE UNCHANGED xactVars
    BY <1>4 DEF xactVars, Over
<1> QED
    BY <1>1, <1>2, <1>3, <1>4, XactSteps

\* A snapshot taken behind the scan covers whatever is over.
LEMMA ScanStep ==
    ASSUME IInv, [Next]_vars
    PROVE  ScanInv'
<1>1. CASE ScanStart
    BY <1>1, RingAssumption DEF ScanStart, ScanInv
<1>2. CASE ScanSlot
    <2>1. ppc = "scanning" /\ scanSlot < RingSize /\ scanSlot \in Nat
        BY <1>2 DEF ScanSlot, IInv, TypeOK, ScanInv
    <2>2. scanSlot' = scanSlot + 1 /\ scanSlot' # RingSize => scanSlot' < RingSize
        BY <1>2, <2>1, RingAssumption DEF ScanSlot
    <2> QED
        BY <1>2, <2>1, <2>2 DEF ScanSlot, ScanInv
<1>3. ASSUME NEW q \in Readers, ScanProc(q)
      PROVE  ScanInv'
    <2>1. /\ ppc = "scanned" /\ UNCHANGED <<ppc, xactVars, held>>
          /\ scanProcs' = scanProcs \ {q}
          /\ globalXmin' = IF pgxactXmin[q] # InvalidTransactionId
                           THEN Older(pgxactXmin[q], globalXmin) ELSE globalXmin
        BY <1>3 DEF ScanProc, readerVars
    <2>2. /\ globalXmin' \in Nat /\ globalXmin' <= globalXmin
          /\ pgxactXmin[q] # InvalidTransactionId => globalXmin' <= pgxactXmin[q]
        <3>1. pgxactXmin[q] \in Nat /\ globalXmin \in Nat
            BY DEF IInv, TypeOK
        <3> QED
            BY <2>1, <3>1 DEF Older
    <2>3. ASSUME NEW x \in Xids, x < globalXmin', Over(x)
          PROVE  x < globalXmin /\ Covered(x, q)
        <3>1. CASE pgxactXmin[q] = InvalidTransactionId
            BY <2>2, <2>3, <3>1, XidsNat DEF IInv, TypeOK, ReaderInv, Covered
        <3>2. CASE pgxactXmin[q] # InvalidTransactionId
            BY <2>2, <2>3, <3>2, XidsNat DEF IInv, TypeOK, ReaderInv
        <3> QED
            BY <3>1, <3>2
    <2>4. ASSUME NEW r \in Readers \ scanProcs', NEW x \in Xids,
                 x < globalXmin', Over(x)
          PROVE  Covered(x, r)
        <3>1. r = q \/ r \in Readers \ scanProcs
            BY <2>1
        <3> QED
            BY <2>1, <2>3, <2>4, <3>1 DEF IInv, ScanInv
    <2>5. \A x \in Xids :
             /\ Over(x) <=> Over(x)'
             /\ \A r \in Readers : Covered(x, r) <=> Covered(x, r)'
        BY <2>1 DEF Over, Covered, xactVars
    <2> QED
        BY <2>1, <2>4, <2>5 DEF ScanInv
<1>4. CASE ppc' \notin {"scanning", "scanned"}
    BY <1>4 DEF ScanInv
<1>5. CASE UNCHANGED pubVars /\ ppc = "scanned"
    BY <1>5, NothingEnds, CoveredStays DEF IInv, ScanInv, pubVars, scanVars
<1>6. CASE UNCHANGED pubVars /\ ppc # "scanned"
    BY <1>6 DEF IInv, ScanInv, pubVars, scanVars
<1> QED
    BY <1>1, <1>2, <1>3, <1>4, <1>5, <1>6, ScanSteps

\* Every cutoff is safe.
LEMMA VacuumStep ==
    ASSUME IInv, [Next]_vars
    PROVE  VacuumInv'
<1>1. CASE SetXmins
    <2>1. /\ ppc = "scanned" /\ scanProcs = {}
          /\ UNCHANGED <<xactVars, slot, held, recentGlobalXmin, cutoff, removed>>
        BY <1>1 DEF SetXmins, ringVars, readerVars, vacVars
    <2>2. /\ shmemXmin' \in Nat /\ recentLocalXmin' \in Nat /\ globalXmin \in Nat
          /\ recentLocalXmin' <= shmemXmin' /\ recentLocalXmin' <= globalXmin
        BY <1>1, XminFound, TypeStep DEF IInv, TypeOK
    <2>3. ASSUME NEW x \in Xids, x < recentLocalXmin'
          PROVE  Over(x) /\ \A r \in Readers : Covered(x, r)
        <3>1. x < shmemXmin' /\ x < globalXmin
            BY <2>2, <2>3, XidsNat
        <3>2. Over(x)
            BY <1>1, <3>1, XminFound DEF Horizon
        <3> QED
            BY <2>1, <3>1, <3>2 DEF IInv, ScanInv
    <2>4. \A x \in Xids :
             /\ Over(x) <=> Over(x)'
             /\ \A r \in Readers : Covered(x, r) <=> Covered(x, r)'
        BY <2>1 DEF Over, Covered, xactVars
    <2> QED
        BY <2>1, <2>3, <2>4 DEF IInv, TypeOK, VacuumInv, Safe
<1>2. ASSUME NEW r \in Readers, ReadLocalXmin(r) PROVE VacuumInv'
    <2>1. /\ UNCHANGED <<xactVars, recentLocalXmin, slot, held, cutoff, removed>>
          /\ \A q \in Readers : q # r =>
                recentGlobalXmin'[q] = recentGlobalXmin[q]
          /\ recentGlobalXmin'[r] \in {slot[ptr[r]].localxmin, FirstNormalTransactionId}
        BY <1>2 DEF ReadLocalXmin, IInv, TypeOK, shmVars, ringVars, vacVars
    <2>2. Safe(FirstNormalTransactionId)
        BY RingAssumption DEF Safe, Xids, FirstNormalTransactionId
    <2>3. \A q \in Readers : Safe(recentGlobalXmin'[q])
        BY <2>1, <2>2 DEF IInv, TypeOK, VacuumInv
    <2>4. \A x \in Xids :
             /\ Over(x) <=> Over(x)'
             /\ \A q \in Readers : Covered(x, q) <=> Covered(x, q)'
        BY <2>1 DEF Over, Covered, xactVars
    <2> QED
        BY <2>1, <2>3, <2>4 DEF IInv, TypeOK, VacuumInv, Safe
<1>3. CASE GetOldestXminFromRing
    <2>1. /\ UNCHANGED <<xactVars, recentLocalXmin, slot, held, recentGlobalXmin, removed>>
          /\ cutoff' \in {slot[current].localxmin, recentLocalXmin}
        BY <1>3 DEF GetOldestXminFromRing, Older, shmVars, ringVars, readerVars
    <2>2. Safe(cutoff')
        BY <2>1 DEF IInv, TypeOK, VacuumInv
    <2>3. \A x \in Xids :
             /\ Over(x) <=> Over(x)'
             /\ \A q \in Readers : Covered(x, q) <=> Covered(x, q)'
        BY <2>1 DEF Over, Covered, xactVars
    <2> QED
        BY <2>1, <2>2, <2>3 DEF IInv, TypeOK, VacuumInv, Safe
<1> USE OverStays, CoveredStays DEF IInv, TypeOK, VacuumInv, Safe, xactVars,
   shmVars, ringVars, scanVars, searchVars, pubVars, readerVars, vacVars
<1>4. CASE GetNewTransactionId
    BY <1>4 DEF GetNewTransactionId
<1>5. ASSUME NEW x \in Xids, GetLocalNextCSN(x) PROVE VacuumInv'
    BY <1>5 DEF GetLocalNextCSN
<1>6. ASSUME NEW x \in Xids, EndTransaction(x) PROVE VacuumInv'
    BY <1>6 DEF EndTransaction
<1>7. CASE DeferCalculation
    BY <1>7 DEF DeferCalculation
<1>8. CASE ScanStart
    BY <1>8 DEF ScanStart
<1>9. CASE ScanSlot
    BY <1>9 DEF ScanSlot
<1>10. CASE WriteXmin
    BY <1>10 DEF WriteXmin
<1>11. CASE WriteLocalXmin
    BY <1>11 DEF WriteLocalXmin
<1>12. CASE SetNextSnapXid
    BY <1>12 DEF SetNextSnapXid
<1>13. ASSUME NEW r \in Readers, ReadCurrent(r) PROVE VacuumInv'
    BY <1>13 DEF ReadCurrent
<1>14. ASSUME NEW r \in Readers, IncrRefCount(r) PROVE VacuumInv'
    BY <1>14 DEF IncrRefCount
<1>15. ASSUME NEW r \in Readers, AdvertiseXmin(r) PROVE VacuumInv'
    BY <1>15 DEF AdvertiseXmin
<1>16. ASSUME NEW r \in Readers, CopySlot(r) PROVE VacuumInv'
    BY <1>16 DEF CopySlot
<1>17. ASSUME NEW r \in Readers, ReadSnapshotCsn(r) PROVE VacuumInv'
    BY <1>17 DEF ReadSnapshotCsn
<1>18. ASSUME NEW r \in Readers, NEW s \in held[r], DropSnapshot(r, s) PROVE VacuumInv'
    BY <1>18 DEF DropSnapshot
<1>19. ASSUME NEW r \in Readers, ScanProc(r) PROVE VacuumInv'
    BY <1>19 DEF ScanProc
<1>20. ASSUME NEW r \in Readers, GetOldestXmin(r) PROVE VacuumInv'
    BY <1>20 DEF GetOldestXmin
<1>21. ASSUME NEW x \in Xids, RemoveDeadRow(x) PROVE VacuumInv'
    BY <1>21 DEF RemoveDeadRow
<1>22. CASE UNCHANGED vars
    BY <1>22 DEF vars
<1>23. CASE SlotIsFree
    BY <1>23 DEF SlotIsFree
<1>24. CASE SlotIsInUse
    BY <1>24 DEF SlotIsInUse
<1> QED
    BY <1>1, <1>2, <1>3, <1>4, <1>5, <1>6, <1>7, <1>8, <1>9, <1>10, <1>11,
       <1>12, <1>13, <1>14, <1>15, <1>16, <1>17, <1>18, <1>19, <1>20, <1>21,
       <1>22, <1>23, <1>24 DEF Next, ReaderNext
\* Reference counts are exact.
LEMMA RefStep ==
    ASSUME IInv, [Next]_vars
    PROVE  RefInv'
<1>1. ASSUME NEW r \in Readers, IncrRefCount(r) PROVE RefInv'
    <2>1. /\ ptr' = ptr /\ ptr[r] \in SlotNos /\ rpc[r] = "pointed" /\ rpc'[r] = "pinned"
          /\ \A q \in Readers : q # r =>
                rpc'[q] = rpc[q]
          /\ \A i \in SlotNos :
                refCnt'[i] = IF i = ptr[r] THEN refCnt[i] + 1 ELSE refCnt[i]
        BY <1>1 DEF IncrRefCount, IInv, TypeOK
    <2>2. \A i \in SlotNos : i # ptr[r] => Pinning(i)' = Pinning(i)
        BY <2>1 DEF Pinning
    <2>3. Pinning(ptr[r])' = Pinning(ptr[r]) \cup {r} /\ r \notin Pinning(ptr[r])
        BY <2>1 DEF Pinning
    <2>4. Cardinality(Pinning(ptr[r])') = Cardinality(Pinning(ptr[r])) + 1
        BY <2>3, PinningFinite, FS_AddElement
    <2>5. ASSUME NEW i \in SlotNos PROVE refCnt'[i] = Cardinality(Pinning(i)')
        BY <2>1, <2>2, <2>4 DEF IInv, RefInv
    <2> QED
        BY <2>5 DEF RefInv
<1>2. ASSUME NEW r \in Readers, CopySlot(r) PROVE RefInv'
    <2>1. PICK k \in SlotNos : k = ptr[r]
        BY DEF IInv, TypeOK
    <2>2. /\ rpc[r] = "horizon" /\ rpc'[r] = "copied"
          /\ \A q \in Readers : q # r =>
                rpc'[q] = rpc[q] /\ ptr'[q] = ptr[q]
          /\ \A i \in SlotNos :
                refCnt'[i] = IF i = k THEN refCnt[i] - 1 ELSE refCnt[i]
        BY <1>2, <2>1 DEF CopySlot, IInv, TypeOK
    <2>3. \A i \in SlotNos : i # k => Pinning(i)' = Pinning(i)
        BY <2>1, <2>2 DEF Pinning
    <2>4. Pinning(k)' = Pinning(k) \ {r} /\ r \in Pinning(k)
        BY <2>1, <2>2 DEF Pinning
    <2>5. Cardinality(Pinning(k)') = Cardinality(Pinning(k)) - 1
        BY <2>4, PinningFinite, FS_RemoveElement
    <2>6. ASSUME NEW i \in SlotNos PROVE refCnt'[i] = Cardinality(Pinning(i)')
        BY <2>2, <2>3, <2>5 DEF IInv, RefInv
    <2> QED
        BY <2>6 DEF RefInv
<1> USE DEF IInv, TypeOK, RefInv, Pinning, xactVars, shmVars, ringVars,
   scanVars, searchVars, pubVars, readerVars, vacVars
<1>3. CASE GetNewTransactionId
    BY <1>3 DEF GetNewTransactionId
<1>4. ASSUME NEW x \in Xids, GetLocalNextCSN(x) PROVE RefInv'
    BY <1>4 DEF GetLocalNextCSN
<1>5. ASSUME NEW x \in Xids, EndTransaction(x) PROVE RefInv'
    BY <1>5 DEF EndTransaction
<1>6. CASE DeferCalculation
    BY <1>6 DEF DeferCalculation
<1>7. CASE ScanStart
    BY <1>7 DEF ScanStart
<1>8. CASE ScanSlot
    BY <1>8 DEF ScanSlot
<1>9. CASE SetXmins
    BY <1>9 DEF SetXmins
<1>10. CASE WriteXmin
    BY <1>10 DEF WriteXmin
<1>11. CASE WriteLocalXmin
    BY <1>11 DEF WriteLocalXmin
<1>12. CASE SetNextSnapXid
    BY <1>12 DEF SetNextSnapXid
<1>13. ASSUME NEW r \in Readers, ReadCurrent(r) PROVE RefInv'
    BY <1>13 DEF ReadCurrent
<1>14. ASSUME NEW r \in Readers, AdvertiseXmin(r) PROVE RefInv'
    BY <1>14 DEF AdvertiseXmin
<1>15. ASSUME NEW r \in Readers, ReadLocalXmin(r) PROVE RefInv'
    BY <1>15 DEF ReadLocalXmin
<1>16. ASSUME NEW r \in Readers, ReadSnapshotCsn(r) PROVE RefInv'
    BY <1>16 DEF ReadSnapshotCsn
<1>17. ASSUME NEW r \in Readers, NEW s \in held[r], DropSnapshot(r, s) PROVE RefInv'
    BY <1>17 DEF DropSnapshot
<1>18. ASSUME NEW r \in Readers, ScanProc(r) PROVE RefInv'
    BY <1>18 DEF ScanProc
<1>19. ASSUME NEW r \in Readers, GetOldestXmin(r) PROVE RefInv'
    BY <1>19 DEF GetOldestXmin
<1>20. CASE GetOldestXminFromRing
    BY <1>20 DEF GetOldestXminFromRing
<1>21. ASSUME NEW x \in Xids, RemoveDeadRow(x) PROVE RefInv'
    BY <1>21 DEF RemoveDeadRow
<1>22. CASE UNCHANGED vars
    BY <1>22 DEF vars
<1>23. CASE SlotIsFree
    BY <1>23 DEF SlotIsFree
<1>24. CASE SlotIsInUse
    BY <1>24 DEF SlotIsInUse
<1> QED
    BY <1>1, <1>2, <1>3, <1>4, <1>5, <1>6, <1>7, <1>8, <1>9, <1>10, <1>11,
       <1>12, <1>13, <1>14, <1>15, <1>16, <1>17, <1>18, <1>19, <1>20, <1>21,
       <1>22, <1>23, <1>24 DEF Next, ReaderNext

-----------------------------------------------------------------------------
(* The search for a free slot                                              *)

\* Slots are counted from the current one on.
LEMMA AheadFacts ==
    ASSUME current \in SlotNos, NEW i \in SlotNos
    PROVE  /\ Ahead(i) \in 0 .. RingSize - 1
           /\ Ahead(i) = 0 <=> i = current
BY RingAssumption DEF Ahead, SlotNos

\* The loop of SetNextSnapXid goes from slot to slot in that order.
LEMMA NextAhead ==
    ASSUME current \in SlotNos, idx \in SlotNos
    PROVE  /\ NextIdx \in SlotNos
           /\ NextIdx # current => Ahead(NextIdx) = Ahead(idx) + 1
           /\ NextIdx = current => Ahead(idx) = RingSize - 1
BY RingAssumption DEF Ahead, NextIdx, SlotNos

\* A set of readers is finite, and no larger than one that contains it.
LEMMA ReaderSets ==
    ASSUME NEW T \in SUBSET Readers, NEW S \in SUBSET T
    PROVE  /\ IsFiniteSet(S) /\ IsFiniteSet(T)
           /\ Cardinality(S) \in Nat /\ Cardinality(T) \in Nat
           /\ Cardinality(S) <= Cardinality(T)
<1>1. IsFiniteSet(T)
    BY RingAssumption, FS_Subset
<1> QED
    BY <1>1, FS_Subset, FS_CardinalityType

\* Who uses a slot after a step did so before, or has just read the pointer.
LEMMA UsersStay ==
    ASSUME IInv, [Next]_vars
    PROVE  \A r \in Readers : r \in UsingSlot' =>
              \/ r \in UsingSlot /\ ptr'[r] = ptr[r]
              \/ ptr'[r] = current
<1> USE DEF IInv, TypeOK, UsingSlot
<1>1. ASSUME NEW q \in Readers, ReaderNext(q)
      PROVE  \A r \in Readers : r \in UsingSlot' =>
                \/ r \in UsingSlot /\ ptr'[r] = ptr[r]
                \/ ptr'[r] = current
    <2>1. CASE ReadCurrent(q)
        BY <2>1 DEF ReadCurrent
    <2>2. CASE IncrRefCount(q)
        BY <2>2 DEF IncrRefCount
    <2>3. CASE AdvertiseXmin(q)
        BY <2>3 DEF AdvertiseXmin
    <2>4. CASE ReadLocalXmin(q)
        BY <2>4 DEF ReadLocalXmin
    <2>5. CASE CopySlot(q)
        BY <2>5 DEF CopySlot
    <2>6. CASE ReadSnapshotCsn(q)
        BY <2>6 DEF ReadSnapshotCsn
    <2>7. ASSUME NEW s \in held[q], DropSnapshot(q, s)
          PROVE  rpc' = rpc /\ ptr' = ptr
        BY <2>7 DEF DropSnapshot
    <2> QED
        BY <1>1, <2>1, <2>2, <2>3, <2>4, <2>5, <2>6, <2>7 DEF ReaderNext
<1>2. (\E q \in Readers : ReaderNext(q)) \/ (rpc' = rpc /\ ptr' = ptr)
    BY DEF Next, GetNewTransactionId, GetLocalNextCSN, EndTransaction,
       DeferCalculation, ScanStart, ScanSlot, SetXmins, WriteXmin, WriteLocalXmin,
       SetNextSnapXid, SlotIsFree, SlotIsInUse, ScanProc, GetOldestXmin,
       GetOldestXminFromRing, RemoveDeadRow, vars, readerVars
<1> QED
    BY <1>1, <1>2

\* The search is made by the holder of the lock alone.
LEMMA SearchSteps ==
    ASSUME [Next]_vars
    PROVE  \/ SetNextSnapXid \/ SlotIsInUse
           \/ ppc' # "searching"
           \/ ppc = "searching" /\ UNCHANGED <<searchVars, current, next>>
BY DEF Next, ReaderNext, GetNewTransactionId, GetLocalNextCSN, EndTransaction,
   DeferCalculation, ScanStart, ScanSlot, SetXmins, WriteXmin, WriteLocalXmin,
   SlotIsFree, ReadCurrent, IncrRefCount, AdvertiseXmin, ReadLocalXmin, CopySlot,
   ReadSnapshotCsn, DropSnapshot, ScanProc, GetOldestXmin, GetOldestXminFromRing,
   RemoveDeadRow, vars, pubVars, ringVars

\* A slot that is found in use has a user.
LEMMA InUse ==
    ASSUME IInv, NEW i \in SlotNos, refCnt[i] # 0
    PROVE  \E r \in UsingSlot : ptr[r] = i
<1>1. Pinning(i) # {}
    BY FS_EmptySet DEF IInv, RefInv
<1>2. PICK r \in Readers : r \in Pinning(i)
    BY <1>1 DEF Pinning
<1> QED
    BY <1>2 DEF Pinning, UsingSlot

\* Nobody who is behind in a pass gets ahead again.
LEMMA BehindStays ==
    ASSUME IInv, [Next]_vars, ppc = "searching", UNCHANGED <<searchVars, current, next>>
    PROVE  Behind \subseteq Behind'
<1>1. current \in SlotNos /\ idx \in SlotNos /\ passBegan \subseteq Readers
    BY DEF IInv, TypeOK
<1>2. Ahead(idx) \in Nat /\ Ahead(current) = 0
    BY <1>1, AheadFacts
<1>3. Ahead(idx)' = Ahead(idx) /\ passBegan' = passBegan
    BY DEF Ahead, searchVars
<1>4. \A r : Ahead(ptr[r])' = IF ptr'[r] >= current THEN ptr'[r] - current
                                  ELSE ptr'[r] + RingSize - current
    BY DEF Ahead
<1>5. ASSUME NEW r \in Behind, r \in UsingSlot' PROVE Ahead(ptr[r])' <= Ahead(idx)
    <2>1. r \in Readers
        BY <1>1 DEF Behind
    <2>2. CASE ptr'[r] = current
        BY <1>2, <1>4, <2>2 DEF Ahead
    <2>3. CASE r \in UsingSlot /\ ptr'[r] = ptr[r]
        BY <1>4, <2>3 DEF Behind, Ahead
    <2> QED
        BY <1>5, <2>1, <2>2, <2>3, UsersStay
<1> QED
    BY <1>3, <1>5 DEF Behind

\* Each slot found in use is one more reader behind.
LEMMA SearchStep ==
    ASSUME IInv, [Next]_vars
    PROVE  SearchInv'
<1>1. /\ current \in SlotNos /\ idx \in SlotNos /\ next \in SlotNos
      /\ passBegan \subseteq Readers /\ nofindCount \in Nat /\ RingSize \in Nat \ {0, 1}
    BY RingAssumption DEF IInv, TypeOK
<1>2. Ahead(idx) \in 0 .. RingSize - 1
    BY <1>1, AheadFacts
<1>3. Behind \subseteq passBegan /\ Behind' \subseteq passBegan' /\ passBegan' \subseteq Readers
    BY TypeStep DEF Behind, TypeOK
<1>4. /\ IsFiniteSet(Behind) /\ Cardinality(Behind) \in Nat
      /\ IsFiniteSet(Behind') /\ Cardinality(Behind') \in Nat
    BY <1>1, <1>3, ReaderSets
<1>5. CASE SetNextSnapXid
    <2>1. /\ current' = next /\ idx' = next /\ next' = next /\ nofindCount' = 0
          /\ passBegan' = UsingSlot /\ rpc' = rpc
        BY <1>5 DEF SetNextSnapXid, readerVars
    <2>2. UsingSlot' = UsingSlot
        BY <2>1 DEF UsingSlot
    <2>3. Ahead(idx)' = 0
        BY <1>1, <2>1 DEF Ahead, SlotNos
    <2> QED
        BY <1>1, <1>4, <2>1, <2>2, <2>3 DEF SearchInv
<1>6. CASE SlotIsInUse
    <2>1. /\ ppc = "searching" /\ refCnt[NextIdx] # 0 /\ idx' = NextIdx
          /\ nofindCount' = nofindCount + 1
          /\ UNCHANGED <<current, next, rpc, ptr>>
          /\ NextIdx # next => passBegan' = passBegan
          /\ NextIdx = next /\ ppc' = "searching" => passBegan' = UsingSlot
        BY <1>6 DEF SlotIsInUse, readerVars, ringVars
    <2>2. /\ current = next
          /\ \A r \in UsingSlot : ptr[r] # current => r \in passBegan
          /\ nofindCount = Ahead(idx) \/ nofindCount >= RingSize
          /\ Cardinality(Behind) >= Ahead(idx) + IF nofindCount < RingSize THEN 0 ELSE 1
        BY <2>1 DEF IInv, SearchInv
    <2>3. /\ NextIdx \in SlotNos
          /\ NextIdx # current => Ahead(NextIdx) = Ahead(idx) + 1
          /\ NextIdx = current => Ahead(idx) = RingSize - 1
        BY <1>1, NextAhead
    <2>4. PICK w \in UsingSlot : ptr[w] = NextIdx
        BY <2>1, <2>3, InUse
    <2>5. UsingSlot' = UsingSlot /\ Ahead(idx)' = Ahead(NextIdx)
          /\ \A r : Ahead(ptr[r])' = Ahead(ptr[r])
        BY <2>1 DEF UsingSlot, Ahead
    <2>6. CASE NextIdx # current
        <3>1. w \in passBegan /\ w \notin Behind /\ passBegan' = passBegan
            BY <1>2, <2>1, <2>2, <2>3, <2>4, <2>6 DEF Behind
        <3>2. Behind \cup {w} \subseteq Behind'
            <4>1. ASSUME NEW r \in Behind, r \in UsingSlot
                  PROVE  Ahead(ptr[r]) <= Ahead(NextIdx)
                <5>1. ptr[r] \in SlotNos
                    BY <1>1, <1>3 DEF IInv, TypeOK
                <5>2. Ahead(ptr[r]) \in Nat
                    BY <1>1, <5>1, AheadFacts
                <5> QED
                    BY <1>2, <2>3, <2>6, <4>1, <5>2 DEF Behind
            <4>2. Ahead(ptr[w]) <= Ahead(NextIdx)
                BY <1>2, <2>3, <2>4, <2>6
            <4> QED
                BY <2>5, <3>1, <4>1, <4>2 DEF Behind
        <3>3. Cardinality(Behind \cup {w}) = Cardinality(Behind) + 1
            BY <1>4, <3>1, FS_AddElement
        <3>4. Cardinality(Behind \cup {w}) <= Cardinality(Behind')
            BY <1>3, <3>2, ReaderSets
        <3>5. Cardinality(Behind') >= Cardinality(Behind) + 1
            BY <1>4, <3>3, <3>4
        <3>6. nofindCount' = Ahead(idx)' \/ nofindCount' >= RingSize
            BY <1>1, <1>2, <2>1, <2>2, <2>3, <2>5, <2>6
        <3>7. Cardinality(Behind') >= Ahead(idx)' + IF nofindCount' < RingSize THEN 0 ELSE 1
            <4>1. NextIdx \in SlotNos /\ Ahead(NextIdx) <= RingSize - 1
                BY <1>1, <2>3, AheadFacts
            <4> QED
                BY <1>1, <1>2, <1>4, <2>1, <2>2, <2>3, <2>5, <2>6, <3>5, <4>1
        <3> QED
            BY <2>1, <2>2, <2>5, <3>1, <3>6, <3>7 DEF SearchInv
    <2>7. CASE NextIdx = current
        <3> SUFFICES ASSUME ppc' = "searching" PROVE SearchInv'
            BY DEF SearchInv
        <3>1. passBegan' = UsingSlot
            BY <2>1, <2>2, <2>7
        <3>2. Ahead(idx)' = 0
            BY <1>1, <2>5, <2>7, AheadFacts
        <3>3. w \in Behind'
            BY <2>4, <2>5, <2>7, <3>1, <3>2, <1>1, AheadFacts DEF Behind
        <3>4. Cardinality(Behind') >= 1
            <4>1. Cardinality(Behind') # 0
                BY <1>4, <3>3, FS_EmptySet
            <4> QED
                BY <1>4, <4>1
        <3>5. nofindCount' >= RingSize
            BY <1>1, <1>2, <2>1, <2>2, <2>3, <2>7
        <3> QED
            BY <1>1, <2>1, <2>2, <2>5, <3>1, <3>2, <3>4, <3>5 DEF SearchInv
    <2> QED
        BY <2>6, <2>7
<1>7. CASE ppc' # "searching"
    BY <1>7 DEF SearchInv
<1>8. CASE ppc = "searching" /\ UNCHANGED <<searchVars, current, next>>
    <2>1. Behind \subseteq Behind'
        BY <1>8, BehindStays
    <2>2. Cardinality(Behind) <= Cardinality(Behind')
        BY <1>3, <2>1, ReaderSets
    <2>3. Ahead(idx)' = Ahead(idx)
        BY <1>8 DEF Ahead, searchVars
    <2>4. \A r \in UsingSlot' : ptr'[r] # current => r \in passBegan
        <3>1. UsingSlot' \subseteq Readers
            BY DEF UsingSlot
        <3> QED
            BY <1>8, <3>1, UsersStay DEF IInv, SearchInv
    <2> QED
        BY <1>1, <1>2, <1>4, <1>8, <2>2, <2>3, <2>4 DEF IInv, SearchInv, searchVars
<1> QED
    BY <1>5, <1>6, <1>7, <1>8, SearchSteps

-----------------------------------------------------------------------------
(* Theorems                                                                *)

\* The state that StartupXLOG leaves satisfies the invariant.
LEMMA InitInv == Init => IInv
<1> SUFFICES ASSUME Init PROVE IInv
    OBVIOUS
<1> USE DEF Init, FirstNormalTransactionId, InvalidTransactionId, COMMITSEQNO_FIRST_NORMAL
<1>1. 0 \in SlotNos /\ 1 \in SlotNos /\ 2 % RingSize \in SlotNos /\ 0 \in 0 .. RingSize
    BY RingAssumption DEF SlotNos
<1>2. TypeOK
    BY <1>1, RingAssumption DEF TypeOK
<1>3. XactInv
    BY XidsNat DEF XactInv
<1>4. \A x \in Xids : ~ (x < 3) /\ ~ (x < 0)
    BY RingAssumption DEF Xids
<1>5. \A i \in SlotNos : slot[i].xmin \in {0, 3} /\ slot[i].localxmin \in {0, 3}
    OBVIOUS
<1>6. SlotInv
    BY <1>1, <1>4, <1>5 DEF SlotInv, UsingSlot, Horizon
<1>7. ReaderInv
    BY <1>4 DEF ReaderInv, Horizon
<1>8. ScanInv
    BY DEF ScanInv
<1>9. VacuumInv
    BY <1>4, <1>5 DEF VacuumInv, Safe
<1>10. RefInv
    <2>1. \A i \in SlotNos : Pinning(i) = {}
        BY DEF Pinning
    <2> QED
        BY <2>1, FS_EmptySet DEF RefInv
<1>11. SearchInv
    BY DEF SearchInv
<1> QED
    BY <1>2, <1>3, <1>6, <1>7, <1>8, <1>9, <1>10, <1>11 DEF IInv

(***************************************************************************)
(* Every reachable state of the ring satisfies the inductive invariant, in *)
(* particular the type invariant and exact reference counts.               *)
(***************************************************************************)
THEOREM Invariance == Spec => []IInv
<1>1. IInv /\ [Next]_vars => IInv'
    BY TypeStep, XactStep, SlotStep, ReaderStep, ScanStep, VacuumStep, RefStep,
       SearchStep DEF IInv
<1> QED
    BY InitInv, <1>1, PTL DEF Spec

(***************************************************************************)
(* A snapshot taken without a lock has a true xmin (GetSnapshotData):      *)
(* whatever precedes it has ended and, if it has committed, is covered.    *)
(***************************************************************************)
THEOREM SnapshotXmin == Spec => []XminIsHorizon
<1>1. IInv => XminIsHorizon
    BY DEF IInv, ReaderInv, Over, XminIsHorizon
<1> QED
    BY Invariance, <1>1, PTL

(***************************************************************************)
(* Vacuum, with the cutoff of GetOldestXmin, removes no row that a         *)
(* snapshot of any thread still shows.                                     *)
(***************************************************************************)
THEOREM VacuumIsSafe == Spec => []NoVisibleRowRemoved
<1>1. IInv => NoVisibleRowRemoved
    BY DEF IInv, VacuumInv, Covered, NoVisibleRowRemoved
<1> QED
    BY Invariance, <1>1, PTL

(***************************************************************************)
(* SetNextSnapXid overflows, and in the end stops the server, only when    *)
(* RingSize - 1 threads, and after a first warning RingSize threads, are   *)
(* between GetCurrentSnapXid and ReleaseSnapXid at the same time, however  *)
(* many there are and however they come and go beside the search.          *)
(***************************************************************************)
THEOREM OverflowOnlyWhenCrowded == Spec => []OverflowNeedsReaders
<1>1. IInv => OverflowNeedsReaders
    <2> SUFFICES ASSUME IInv, PassFails
                 PROVE  Cardinality(passBegan) >= IF nofindCount < RingSize
                                                  THEN RingSize - 1 ELSE RingSize
        BY DEF OverflowNeedsReaders
    <2>1. /\ current \in SlotNos /\ idx \in SlotNos /\ passBegan \subseteq Readers
          /\ nofindCount \in Nat /\ RingSize \in Nat
        BY RingAssumption DEF IInv, TypeOK
    <2>2. /\ current = next
          /\ Cardinality(Behind) >= Ahead(idx) + IF nofindCount < RingSize THEN 0 ELSE 1
        BY DEF IInv, SearchInv, PassFails
    <2>3. Ahead(idx) = RingSize - 1
        BY <2>1, <2>2, NextAhead DEF PassFails
    <2>4. /\ Cardinality(Behind) <= Cardinality(passBegan)
          /\ Cardinality(Behind) \in Nat /\ Cardinality(passBegan) \in Nat
        <3>1. Behind \subseteq passBegan
            BY DEF Behind
        <3> QED
            BY <2>1, <3>1, ReaderSets
    <2> QED
        BY <2>1, <2>2, <2>3, <2>4
<1> QED
    BY Invariance, <1>1, PTL
=============================================================================
