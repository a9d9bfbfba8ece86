----------------------------- MODULE SInvalProofs -----------------------------
(***************************************************************************)
(* Proofs about the shared invalidation queue, for any number of backends, *)
(* any sizes of the queue and of the batches.                              *)
(***************************************************************************)
EXTENDS SInval, WellFoundedInduction, SequenceTheorems, TLAPS

-----------------------------------------------------------------------------
(* The inductive invariant                                                 *)

\* Where a thread holds SInvalWriteLock, SInvalReadLock.
Writing == {"w_check", "w_max", "w_kick", "c_clean"}
Reading == {"r_max", "r_get"}

\* Where a thread has messages to send; where it looks for messages.
Sending == {"w_lock", "w_check", "w_signal", "w_max", "w_kick"}
Receiving == {"r_pending", "r_test", "r_max", "r_get", "r_loop", "r_inval", "r_end",
              "c_lock", "c_clean", "c_signal"}

LocksInv ==
    /\ \A s \in Slots : writeLock = s <=> pc[s] \in Writing
    /\ \A s \in Slots : s \in readers <=> pc[s] \in Reading

\* The loops over the slots reach every active one.
SlotsInv ==
    /\ lastreserveBackend <= maxBackends
    /\ \A s \in Slots : active[s] <=> pc[s] # "off"
    /\ \A s \in Slots : active[s] => s < lastBackend
    /\ \A s \in Slots : active[s] /\ s < maxreserveBackends => s < lastreserveBackend

\* The message with number n.
At(n) == buffer[n % MAXNUMMESSAGES]

\* The numbers of what the buffer holds.
RangeInv ==
    /\ minMsgNum <= MSGNUMWRAPAROUND
    /\ minMsgNum <= maxMsgNum /\ maxMsgNum <= minMsgNum + MAXNUMMESSAGES

\* The positions of the readers.
PositionsInv ==
    /\ \A s \in Receivers : ~resetState[s] => nextMsgNum[s] \in minMsgNum .. maxMsgNum
    /\ \A s \in Slots : pc[s] = "r_get" =>
          /\ maxRead[s] \in minMsgNum .. maxMsgNum
          /\ ~resetState[s] => nextMsgNum[s] <= maxRead[s]

\* A writer's messages lie beyond maxMsgNum until it publishes them.
PendingInv ==
    \A s \in Slots : pc[s] = "w_max" =>
       /\ maxMsgNum + nthistime(s) <= minMsgNum + MAXNUMMESSAGES
       /\ \A k \in 1 .. nthistime(s) : At(maxMsgNum + k - 1) = left[s][k]

ContentsInv == \A n \in minMsgNum .. maxMsgNum - 1 : At(n) \in Rels

NumbersInv == RangeInv /\ PositionsInv /\ PendingInv /\ ContentsInv

\* What a thread keeps to itself.
ThreadOK(s) ==
    /\ pc[s] \in Receiving => s \notin SendOnly
    /\ pc[s] \notin Sending => left[s] = <<>>
    /\ pc[s] \notin Receiving => stack[s] = <<>>
    /\ pc[s] = "r_inval" => stack[s] # <<>>
    /\ pc[s] # "r_inval" => Len(stack[s]) < MaxDepth
    /\ pc[s] \notin {"r_pending", "r_loop", "r_inval"} => messages[s] = <<>>
    /\ pc[s] = "r_inval" /\ Top(s).at = "reset" => messages[s] = <<>>
    /\ pc[s] # "w_kick" => kick[s] = 0
    /\ pc[s] = "w_kick" => kick[s] <= lastBackend
    /\ pc[s] = "off" => stale[s] = {}

ThreadInv == \A s \in Slots : ThreadOK(s)

\* hasMessages is set, or a writer is on its way to set it.
Kicked(s) == hasMessages[s] \/ \E w \in Slots : pc[w] = "w_kick" /\ kick[w] <= s

FlagsInv ==
    \A s \in Receivers :
       /\ pc[s] \notin Reading /\ (resetState[s] \/ nextMsgNum[s] < maxMsgNum) => Kicked(s)
       /\ pc[s] = "r_get" /\ maxRead[s] < maxMsgNum => Kicked(s)

\* A message about r on its way to s: with its sender, in the queue, in hand.
ToBeSent(r, s) == \E w \in Slots \ {s} : \E i \in DOMAIN left[w] : left[w][i] = r
InQueue(r, s) == \E n \in Int : nextMsgNum[s] <= n /\ n < maxMsgNum /\ At(n) = r
InHand(r, s) ==
    \/ \E i \in DOMAIN messages[s] : messages[s][i] = r
    \/ \E i \in DOMAIN stack[s] : stack[s][i].rel = r \/ stack[s][i].at = "reset"

Announced(r, s) == ToBeSent(r, s) \/ InQueue(r, s) \/ InHand(r, s) \/ resetState[s]

AnnouncedInv == \A s \in Receivers : \A r \in stale[s] : Announced(r, s) \/ r \in skipped[s]

IInv == /\ TypeOK /\ LocksInv /\ SlotsInv /\ NumbersInv /\ ThreadInv /\ FlagsInv
        /\ AnnouncedInv

-----------------------------------------------------------------------------
(* Least and largest elements                                              *)

LEMMA MinIsLeast ==
    ASSUME NEW S \in SUBSET Nat, S # {}
    PROVE  Min(S) \in S /\ \A y \in S : Min(S) <= y
<1> DEFINE R == OpToRel(<, Nat)
<1>1. IsWellFoundedOn(R, Nat)
    BY NatLessThanWellFounded
<1>2. PICK x \in S : \A y \in S : ~(<<y, x>> \in R)
    BY <1>1, WFMin, Zenon
<1>3. ASSUME NEW y \in S PROVE x <= y
    <2>1. x \in Nat /\ y \in Nat
        OBVIOUS
    <2>2. ~(y < x)
        <3> SUFFICES ASSUME y < x PROVE FALSE
            OBVIOUS
        <3>1. <<y, x>> \in R
            BY <2>1 DEF OpToRel
        <3> QED
            BY <1>2, <3>1, Zenon
    <2> QED
        BY <2>1, <2>2, SMT
<1> QED
    BY <1>3, Zenon DEF Min

LEMMA MaxIsLargest ==
    ASSUME NEW n \in Nat, NEW S \in SUBSET (0 .. n), S # {}
    PROVE  Max(S) \in S /\ \A y \in S : y <= Max(S)
<1> DEFINE T == {n - x : x \in S}
           m == Min(T)
<1>1. \A x \in S : x \in Nat /\ n - x \in Nat
    OBVIOUS
<1>2. T \in SUBSET Nat /\ T # {}
    BY <1>1, Zenon
<1>3. m \in T /\ \A y \in T : m <= y
    BY <1>2, MinIsLeast
<1>4. PICK x \in S : m = n - x
    BY <1>3, Zenon
<1>5. ASSUME NEW y \in S PROVE x >= y
    <2>1. n - y \in T
        BY Zenon
    <2>2. n - x <= n - y
        BY <1>3, <1>4, <2>1, Zenon
    <2> HIDE DEF T, m
    <2> QED
        BY <1>1, <2>2
<1>6. Max(S) \in S /\ \A y \in S : Max(S) >= y
    BY <1>5, Zenon DEF Max
<1> QED
    BY <1>1, <1>6

LEMMA MinOfTwo ==
    ASSUME NEW a \in Int, NEW b \in Int
    PROVE  Min({a, b}) = IF a <= b THEN a ELSE b
<1>1. \E x \in {a, b} : \A y \in {a, b} : x <= y
    OBVIOUS
<1>2. Min({a, b}) \in {a, b} /\ \A y \in {a, b} : Min({a, b}) <= y
    BY <1>1, Zenon DEF Min
<1> QED
    BY <1>2

LEMMA MaxOfTwo ==
    ASSUME NEW a \in Int, NEW b \in Int
    PROVE  Max({a, b}) = IF a <= b THEN b ELSE a
<1>1. \E x \in {a, b} : \A y \in {a, b} : x >= y
    OBVIOUS
<1>2. Max({a, b}) \in {a, b} /\ \A y \in {a, b} : Max({a, b}) >= y
    BY <1>1, Zenon DEF Max
<1> QED
    BY <1>2

-----------------------------------------------------------------------------
(* Numbers modulo the size of the buffer                                   *)

LEMMA ModSpec ==
    ASSUME NEW a \in Int, NEW m \in Nat \ {0}
    PROVE  (a % m) \in 0 .. m - 1 /\ \E q \in Int : a = m * q + (a % m)
<1>1. (a % m) \in 0 .. m - 1 /\ (a \div m) \in Int /\ a = m * (a \div m) + (a % m)
    BY Z3
<1> QED
    BY <1>1, Zenon

LEMMA SmallMultiple ==
    ASSUME NEW m \in Nat \ {0}, NEW q \in Int, NEW d \in Int,
           d = m * q, -m < d, d < m
    PROVE  d = 0
    BY Z3

\* The remainder is unique.
LEMMA ModIs ==
    ASSUME NEW m \in Nat \ {0}, NEW a \in Int, NEW q \in Int, NEW r \in 0 .. m - 1,
           a = m * q + r
    PROVE  a % m = r
<1>1. PICK s \in 0 .. m - 1, p \in Int : a = m * p + s /\ s = a % m
    BY ModSpec
<1>2. /\ s - r = m * (q - p) /\ q - p \in Int
      /\ s - r \in Int /\ -m < s - r /\ s - r < m
    BY <1>1, Z3
<1>3. s - r = 0
    BY <1>2, SmallMultiple
<1>4. s = r
    BY <1>3, Z3
<1> QED
    BY <1>1, <1>4, Zenon

LEMMA ModMinusMultiple ==
    ASSUME NEW m \in Nat \ {0}, NEW a \in Int, NEW p \in Int
    PROVE  (a - m * p) % m = a % m
<1>1. PICK r \in 0 .. m - 1, q \in Int : a = m * q + r /\ r = a % m
    BY ModSpec
<1>2. a = m * q + r
    BY <1>1
<1>3. a - m * p = m * (q - p) + r /\ q - p \in Int /\ a - m * p \in Int
    BY <1>2, Z3
<1>4. (a - m * p) % m = r
    BY <1>3, ModIs
<1> QED
    BY <1>1, <1>4

LEMMA ModShift ==
    ASSUME NEW m \in Nat \ {0}, NEW a \in Int, NEW w \in Int, w % m = 0
    PROVE  (a - w) % m = a % m
<1>1. PICK p \in Int : w = m * p + (w % m)
    BY ModSpec
<1>2. w = m * p
    BY <1>1, Z3
<1> QED
    BY <1>2, ModMinusMultiple

LEMMA ModBack ==
    ASSUME NEW m \in Nat \ {0}, NEW a \in Int, NEW j \in 0 .. m - 1
    PROVE  (((a + j) % m) - a) % m = j
<1>1. PICK r \in 0 .. m - 1, q \in Int : a + j = m * q + r /\ r = (a + j) % m
    <2>1. a + j \in Int
        OBVIOUS
    <2> QED
        BY <2>1, ModSpec
<1>2. r - a = m * (-q) + j /\ -q \in Int /\ r - a \in Int
    BY <1>1, Z3
<1>3. (r - a) % m = j
    BY <1>2, ModIs
<1> QED
    BY <1>1, <1>3

\* The constants, one by one.
LEMMA Sizes ==
    /\ maxBackends \in Nat /\ maxreserveBackends \in Nat /\ SIG_THRESHOLD \in Nat
    /\ MAXNUMMESSAGES \in Nat \ {0} /\ MSGNUMWRAPAROUND \in Nat \ {0}
    /\ CLEANUP_QUANTUM \in Nat \ {0} /\ WRITE_QUANTUM \in Nat \ {0}
    /\ MAXINVALMSGS \in Nat \ {0}
    /\ MSGNUMWRAPAROUND % MAXNUMMESSAGES = 0
    /\ WRITE_QUANTUM <= MAXNUMMESSAGES /\ CLEANUP_MIN \in 1 .. MAXNUMMESSAGES
    /\ MAXNUMMESSAGES <= MSGNUMWRAPAROUND
    /\ Slots = 0 .. maxBackends - 1
<1>1. /\ maxBackends \in Nat /\ maxreserveBackends \in Nat /\ SIG_THRESHOLD \in Nat
      /\ MAXNUMMESSAGES \in Nat \ {0} /\ MSGNUMWRAPAROUND \in Nat \ {0}
      /\ CLEANUP_QUANTUM \in Nat \ {0} /\ WRITE_QUANTUM \in Nat \ {0}
      /\ MAXINVALMSGS \in Nat \ {0}
      /\ MSGNUMWRAPAROUND % MAXNUMMESSAGES = 0
      /\ WRITE_QUANTUM <= MAXNUMMESSAGES /\ CLEANUP_MIN \in 1 .. MAXNUMMESSAGES
    BY SInvalAssumption, Zenon
<1>2. ASSUME MSGNUMWRAPAROUND < MAXNUMMESSAGES PROVE FALSE
    <2>1. /\ MSGNUMWRAPAROUND = MAXNUMMESSAGES * 0 + MSGNUMWRAPAROUND
          /\ MSGNUMWRAPAROUND \in 0 .. MAXNUMMESSAGES - 1 /\ MSGNUMWRAPAROUND \in Int
        BY <1>1, <1>2
    <2>2. MSGNUMWRAPAROUND % MAXNUMMESSAGES = MSGNUMWRAPAROUND
        BY <1>1, <2>1, ModIs
    <2> QED
        BY <1>1, <2>2
<1> QED
    BY <1>1, <1>2 DEF Slots

\* A message keeps its place when the numbers go down by MSGNUMWRAPAROUND.
LEMMA AtShift ==
    ASSUME NEW n \in Int
    PROVE  At(n - MSGNUMWRAPAROUND) = At(n)
<1>1. (n - MSGNUMWRAPAROUND) % MAXNUMMESSAGES = n % MAXNUMMESSAGES
    <2>1. MSGNUMWRAPAROUND \in Int
        BY Sizes
    <2> QED
        BY <2>1, Sizes, ModShift, Zenon
<1> QED
    BY <1>1, Zenon DEF At

LEMMA Threshold ==
    ASSUME NEW n \in Nat, NEW q \in Nat \ {0}
    PROVE  (n \div q + 1) * q \in n + 1 .. n + q
    BY Z3

\* What is inserted at a time.
LEMMA Nthistime ==
    ASSUME TypeOK, NEW s \in Slots
    PROVE  /\ nthistime(s) \in 0 .. Len(left[s])
           /\ nthistime(s) <= WRITE_QUANTUM
           /\ left[s] # <<>> => nthistime(s) > 0
<1>1. left[s] \in Seq(Rels) /\ Len(left[s]) \in Nat
    BY DEF TypeOK
<1>2. nthistime(s) = IF Len(left[s]) <= WRITE_QUANTUM THEN Len(left[s]) ELSE WRITE_QUANTUM
    BY <1>1, Sizes, MinOfTwo DEF nthistime
<1>3. left[s] # <<>> => Len(left[s]) > 0
    BY <1>1
<1> QED
    BY <1>1, <1>2, <1>3, Sizes


LEMMA RoomForBatch ==
    ASSUME TypeOK, NEW s \in Slots
    PROVE  nthistime(s) \in 0 .. MAXNUMMESSAGES
<1>1. Len(left[s]) \in Nat
    BY DEF TypeOK
<1> QED
    BY <1>1, Nthistime, Sizes

-----------------------------------------------------------------------------
(* What the larger steps do                                                *)

LEMMA NumberFacts ==
    ASSUME TypeOK, NumbersInv
    PROVE  /\ minMsgNum \in Nat /\ maxMsgNum \in Nat /\ minMsgNum <= MSGNUMWRAPAROUND
           /\ minMsgNum <= maxMsgNum /\ maxMsgNum <= minMsgNum + MAXNUMMESSAGES
           /\ \A s \in Slots : nextMsgNum[s] \in Nat /\ maxRead[s] \in Nat
<1>1. /\ minMsgNum \in MsgNums /\ maxMsgNum \in MsgNums
      /\ \A s \in Slots : nextMsgNum[s] \in MsgNums /\ maxRead[s] \in MsgNums
    BY DEF TypeOK
<1>2. MsgNums \subseteq Nat
    BY Sizes DEF MsgNums
<1>3. /\ minMsgNum <= MSGNUMWRAPAROUND
      /\ minMsgNum <= maxMsgNum /\ maxMsgNum <= minMsgNum + MAXNUMMESSAGES
    BY DEF NumbersInv, RangeInv
<1> QED
    BY <1>1, <1>2, <1>3

\* The messages are written behind the others and over none of them.
LEMMA WriteEntriesEffect ==
    ASSUME TypeOK, NumbersInv, NEW s \in Slots, WriteEntries(s)
    PROVE  /\ maxMsgNum + nthistime(s) <= minMsgNum + MAXNUMMESSAGES
           /\ \A n \in minMsgNum .. maxMsgNum - 1 :
                 buffer'[n % MAXNUMMESSAGES] = buffer[n % MAXNUMMESSAGES]
           /\ \A k \in 1 .. nthistime(s) :
                 buffer'[(maxMsgNum + k - 1) % MAXNUMMESSAGES] = left[s][k]
           /\ buffer' \in [0 .. MAXNUMMESSAGES - 1 -> Rels \cup {NoMsg}]
<1> DEFINE M == MAXNUMMESSAGES
           n == nthistime(s)
           place(j) == (maxMsgNum + j) % M
<1>1. /\ maxMsgNum \in Nat /\ minMsgNum \in Nat /\ minMsgNum <= maxMsgNum
      /\ maxMsgNum <= minMsgNum + M
      /\ M \in Nat \ {0} /\ n \in 0 .. Len(left[s]) /\ left[s] \in Seq(Rels)
      /\ Len(left[s]) \in Nat
      /\ buffer \in [0 .. M - 1 -> Rels \cup {NoMsg}]
    <2>1. M \in Nat \ {0} /\ MSGNUMWRAPAROUND \in Nat
        BY Sizes
    <2>2. n \in 0 .. Len(left[s]) /\ left[s] \in Seq(Rels)
        BY Nthistime DEF TypeOK
    <2>3. buffer \in [0 .. M - 1 -> Rels \cup {NoMsg}]
        BY DEF TypeOK
    <2> HIDE DEF n
    <2> QED
        BY <2>1, <2>2, <2>3, NumberFacts
<1>2. maxMsgNum - minMsgNum + n <= M
    <2>1. ~(maxMsgNum - minMsgNum + n > M)
        BY DEF WriteEntries, NeedsCleanup
    <2> QED
        BY <1>1, <2>1
<1>3. n <= M
    BY <1>1, <1>2
<1>4. DOMAIN buffer = 0 .. M - 1
    BY <1>1
<1>5. buffer' = [i \in 0 .. M - 1 |->
         IF (i - maxMsgNum) % M < n THEN left[s][((i - maxMsgNum) % M) + 1]
         ELSE buffer[i]]
    BY <1>4, Zenon DEF WriteEntries
<1>6. ASSUME NEW j \in 0 .. M - 1
      PROVE  buffer'[place(j)] = IF j < n THEN left[s][j + 1] ELSE buffer[place(j)]
    <2>1. place(j) \in 0 .. M - 1
        <3>1. maxMsgNum + j \in Int
            BY <1>1
        <3> QED
            BY <1>1, <3>1, ModSpec, Zenon
    <2>2. (place(j) - maxMsgNum) % M = j
        <3>1. maxMsgNum \in Int
            BY <1>1
        <3> QED
            BY <1>1, <3>1, ModBack, Zenon
    <2> HIDE DEF place, n
    <2> QED
        BY <1>5, <2>1, <2>2, Zenon
<1>7. ASSUME NEW k \in 1 .. n
      PROVE  buffer'[(maxMsgNum + k - 1) % M] = left[s][k]
    <2>1. /\ k - 1 \in 0 .. M - 1 /\ k - 1 < n /\ (k - 1) + 1 = k
          /\ maxMsgNum + (k - 1) = maxMsgNum + k - 1
        BY <1>1, <1>3
    <2> QED
        BY <1>6, <2>1, Zenon
<1>8. ASSUME NEW x \in minMsgNum .. maxMsgNum - 1
      PROVE  buffer'[x % M] = buffer[x % M]
    <2> DEFINE j == x + M - maxMsgNum
    <2>1. /\ j \in 0 .. M - 1 /\ ~(j < n) /\ x \in Int
          /\ maxMsgNum + j = x - M * (-1) /\ -1 \in Int
        BY <1>1, <1>2
    <2>2. place(j) = x % M
        <3>1. (x - M * (-1)) % M = x % M
            BY <1>1, <2>1, ModMinusMultiple, Zenon
        <3> QED
            BY <2>1, <3>1, Zenon
    <2> QED
        BY <1>6, <2>1, <2>2, Zenon
<1>9. ASSUME NEW i \in 0 .. M - 1
      PROVE  (IF (i - maxMsgNum) % M < n THEN left[s][((i - maxMsgNum) % M) + 1]
              ELSE buffer[i]) \in Rels \cup {NoMsg}
    <2>1. (i - maxMsgNum) % M \in 0 .. M - 1
        <3>1. i - maxMsgNum \in Int
            BY <1>1
        <3> QED
            BY <1>1, <3>1, ModSpec, Zenon
    <2> DEFINE k == (i - maxMsgNum) % M
    <2>2. k < n => left[s][k + 1] \in Rels
        <3> HIDE DEF k
        <3> QED
            BY <1>1, <2>1 DEF k
    <2>3. buffer[i] \in Rels \cup {NoMsg}
        BY <1>1
    <2> QED
        BY <2>2, <2>3, Zenon
<1>10. buffer' \in [0 .. M - 1 -> Rels \cup {NoMsg}]
    BY <1>5, <1>9, Zenon
<1>11. maxMsgNum + n <= minMsgNum + M
    BY <1>1, <1>2
<1> QED
    BY <1>7, <1>8, <1>10, <1>11

\* The loop of the clean-up sees everybody whose position counts.
LEMMA FollowingIs ==
    ASSUME TypeOK, SlotsInv
    PROVE  Following = {i \in Receivers : ~resetState[i]}
<1>1. lastBackend \in 0 .. maxBackends /\ maxBackends \in Nat
    BY Sizes DEF TypeOK
<1>2. ASSUME NEW i \in Slots, active[i] PROVE i \in 0 .. lastBackend - 1
    <2>1. i < lastBackend
        BY <1>2, Zenon DEF SlotsInv
    <2> QED
        BY <1>1, <2>1, Sizes
<1>3. 0 .. lastBackend - 1 \subseteq Slots
    BY <1>1, Sizes
<1> QED
    BY <1>2, <1>3, Zenon DEF Following, Receivers

(***************************************************************************)
(* After the clean-up the positions, all reduced by the same number, lie   *)
(* again between minMsgNum and maxMsgNum; who is put into reset state had  *)
(* messages to read.                                                       *)
(***************************************************************************)
CleanedBy(shift) ==
    /\ maxMsgNum' = maxMsgNum - shift /\ maxMsgNum' \in Nat /\ minMsgNum' \in Nat
    /\ minMsgNum' <= MSGNUMWRAPAROUND /\ minMsgNum' <= maxMsgNum'
    /\ maxMsgNum' <= minMsgNum' + MAXNUMMESSAGES
    /\ minMsgNum <= minMsgNum' + shift
    /\ \A i \in Slots : nextMsgNum'[i] \in Nat /\ nextMsgNum'[i] <= maxMsgNum'
    /\ \A i \in Receivers : ~resetState'[i] =>
          /\ ~resetState[i]
          /\ nextMsgNum'[i] = nextMsgNum[i] - shift
          /\ minMsgNum' <= nextMsgNum'[i]
    /\ \A i \in Receivers : resetState[i] => resetState'[i]

LEMMA CleanupEffect ==
    ASSUME TypeOK, SlotsInv, NumbersInv, NEW s \in Slots,
           NEW minFree \in 0 .. MAXNUMMESSAGES, NEW done,
           SICleanupQueue(s, minFree, done)
    PROVE  /\ \E shift \in {0, MSGNUMWRAPAROUND} : CleanedBy(shift)
           /\ nextThreshold' \in CLEANUP_MIN .. MAXNUMMESSAGES + CLEANUP_QUANTUM
           /\ \A i \in Receivers : resetState'[i] /\ ~resetState[i] =>
                 maxMsgNum - nextMsgNum[i] + minFree > MAXNUMMESSAGES
<1> DEFINE reset == TooFarBack(minFree)
           rest == Following \ reset
           ns == {maxMsgNum} \cup {nextMsgNum[i] : i \in rest}
           min == Min(ns)
           shift == Reduction(min)
           numMsgs == maxMsgNum - min
<1>1. /\ minMsgNum \in Nat /\ maxMsgNum \in Nat /\ minMsgNum <= MSGNUMWRAPAROUND
      /\ minMsgNum <= maxMsgNum /\ maxMsgNum <= minMsgNum + MAXNUMMESSAGES
      /\ \A i \in Slots : nextMsgNum[i] \in Nat
      /\ MAXNUMMESSAGES \in Nat \ {0} /\ MSGNUMWRAPAROUND \in Nat
      /\ MAXNUMMESSAGES <= MSGNUMWRAPAROUND
    BY Sizes, NumberFacts
<1>2. Following = {i \in Receivers : ~resetState[i]} /\ Receivers \subseteq Slots
    BY FollowingIs DEF Receivers
<1>3. \A i \in rest : /\ i \in Slots
                      /\ minMsgNum <= nextMsgNum[i] /\ nextMsgNum[i] <= maxMsgNum
                      /\ nextMsgNum[i] >= maxMsgNum - MAXNUMMESSAGES + minFree
    <2> TAKE i \in rest
    <2>1. i \in Following /\ i \notin reset /\ i \in Slots
        BY <1>2
    <2>2. nextMsgNum[i] \in minMsgNum .. maxMsgNum
        BY <1>2, <2>1, Zenon DEF NumbersInv, PositionsInv
    <2>3. ~(nextMsgNum[i] < maxMsgNum - MAXNUMMESSAGES + minFree)
        BY <2>1, Zenon DEF TooFarBack
    <2> QED
        BY <1>1, <2>1, <2>2, <2>3
<1>4. ns \in SUBSET Nat /\ ns # {}
    BY <1>1, <1>3
<1>5. min \in ns /\ \A y \in ns : min <= y
    BY <1>4, MinIsLeast
<1>6. \A i \in rest : min <= nextMsgNum[i]
    BY <1>5
<1>7. /\ min \in Nat /\ minMsgNum <= min /\ min <= maxMsgNum
      /\ maxMsgNum <= min + MAXNUMMESSAGES
    <2> HIDE DEF min
    <2>1. min = maxMsgNum \/ \E i \in rest : min = nextMsgNum[i]
        BY <1>5
    <2>2. CASE min = maxMsgNum
        BY <1>1, <2>2
    <2>3. CASE \E i \in rest : min = nextMsgNum[i]
        <3>1. PICK i \in rest : min = nextMsgNum[i]
            BY <2>3
        <3>2. nextMsgNum[i] \in Nat
            BY <1>1, <1>3
        <3> HIDE DEF rest
        <3> QED
            BY <1>1, <1>3, <3>1, <3>2
    <2> QED
        BY <2>1, <2>2, <2>3
<1>8. shift = IF min >= MSGNUMWRAPAROUND THEN MSGNUMWRAPAROUND ELSE 0
    BY DEF Reduction
<1>9. /\ minMsgNum' = min - shift
      /\ maxMsgNum' = maxMsgNum - shift
      /\ nextMsgNum' = [i \in Slots |-> IF i \in rest THEN nextMsgNum[i] - shift ELSE 0]
      /\ resetState' = [i \in Slots |-> resetState[i] \/ i \in reset]
      /\ nextThreshold' = IF numMsgs < CLEANUP_MIN THEN CLEANUP_MIN
                           ELSE (numMsgs \div CLEANUP_QUANTUM + 1) * CLEANUP_QUANTUM
    BY Zenon DEF SICleanupQueue
<1> HIDE DEF min, shift
<1>10. /\ shift \in {0, MSGNUMWRAPAROUND} /\ shift <= min
       /\ min - shift <= MSGNUMWRAPAROUND
    BY <1>1, <1>7, <1>8
<1>11. ASSUME NEW i \in Slots
       PROVE  nextMsgNum'[i] \in Nat /\ nextMsgNum'[i] <= maxMsgNum'
    <2>1. CASE i \in rest
        <3>1. nextMsgNum'[i] = nextMsgNum[i] - shift
            BY <1>9, <2>1
        <3>2. min <= nextMsgNum[i] /\ nextMsgNum[i] <= maxMsgNum
            BY <1>3, <1>6, <2>1
        <3> HIDE DEF rest
        <3> QED
            BY <1>1, <1>7, <1>9, <1>10, <3>1, <3>2
    <2>2. CASE i \notin rest
        <3>1. nextMsgNum'[i] = 0
            BY <1>9, <2>2
        <3> HIDE DEF rest
        <3> QED
            BY <1>1, <1>7, <1>9, <1>10, <3>1
    <2> QED
        BY <2>1, <2>2
<1>12. ASSUME NEW i \in Receivers, ~resetState'[i]
       PROVE  /\ ~resetState[i]
              /\ nextMsgNum'[i] = nextMsgNum[i] - shift
              /\ minMsgNum' <= nextMsgNum'[i]
    <2>1. ~resetState[i] /\ i \in rest /\ i \in Slots
        BY <1>2, <1>9, <1>12, Zenon
    <2>2. nextMsgNum'[i] = nextMsgNum[i] - shift
        BY <1>9, <2>1
    <2>3. min <= nextMsgNum[i] /\ nextMsgNum[i] \in Nat
        BY <1>1, <1>6, <2>1
    <2> HIDE DEF rest
    <2> QED
        BY <1>1, <1>7, <1>9, <1>10, <2>1, <2>2, <2>3
<1>13. \A i \in Receivers : resetState[i] => resetState'[i]
    BY <1>2, <1>9, Zenon
<1>14. CleanedBy(shift)
    <2>1. /\ maxMsgNum' = maxMsgNum - shift /\ maxMsgNum' \in Nat /\ minMsgNum' \in Nat
          /\ minMsgNum' <= MSGNUMWRAPAROUND /\ minMsgNum' <= maxMsgNum'
          /\ maxMsgNum' <= minMsgNum' + MAXNUMMESSAGES
          /\ minMsgNum <= minMsgNum' + shift
        <3> HIDE DEF rest
        <3> QED
            BY <1>1, <1>7, <1>9, <1>10
    <2> QED
        BY <1>11, <1>12, <1>13, <2>1, Zenon DEF CleanedBy
<1>15. nextThreshold' \in CLEANUP_MIN .. MAXNUMMESSAGES + CLEANUP_QUANTUM
    <2> HIDE DEF rest
    <2>1. numMsgs \in Nat /\ numMsgs <= MAXNUMMESSAGES
        BY <1>1, <1>7
    <2>2. (numMsgs \div CLEANUP_QUANTUM + 1) * CLEANUP_QUANTUM
             \in numMsgs + 1 .. numMsgs + CLEANUP_QUANTUM
        BY <2>1, Sizes, Threshold, Zenon
    <2> DEFINE t == (numMsgs \div CLEANUP_QUANTUM + 1) * CLEANUP_QUANTUM
    <2>3. t \in numMsgs + 1 .. numMsgs + CLEANUP_QUANTUM
        BY <2>2
    <2>4. nextThreshold' = IF numMsgs < CLEANUP_MIN THEN CLEANUP_MIN ELSE t
        BY <1>9
    <2> HIDE DEF t, numMsgs
    <2> QED
        BY <2>1, <2>3, <2>4, Sizes
<1>16. ASSUME NEW i \in Receivers, resetState'[i], ~resetState[i]
       PROVE  maxMsgNum - nextMsgNum[i] + minFree > MAXNUMMESSAGES
    <2>1. i \in reset /\ i \in Slots
        BY <1>2, <1>9, <1>16, Zenon
    <2>2. nextMsgNum[i] < maxMsgNum - MAXNUMMESSAGES + minFree
        BY <2>1 DEF TooFarBack
    <2> HIDE DEF reset, rest
    <2> QED
        BY <1>1, <2>1, <2>2
<1> QED
    BY <1>10, <1>14, <1>15, <1>16, Zenon

-----------------------------------------------------------------------------
(* The steps of a thread that leave the queue alone                        *)

\* Where a thread neither holds nor is about to take a lock.
Quiet == {"idle", "r_pending", "r_test", "r_loop", "r_inval", "r_end", "c_lock"}

LocalAction(s) ==
    \/ AcceptInvalidationMessages(s)
    \/ SkipPending(s)
    \/ ProcessPending(s)
    \/ NonePending(s)
    \/ ProcessNext(s)
    \/ LoopEnd(s)
    \/ Recurse(s)
    \/ Rebuild(s)
    \/ ReceiveEnd(s)
    \/ CatchupComplete(s)

Aloof(s) ==
    /\ pc[s] \in Quiet /\ pc'[s] \in Quiet
    /\ pc' = [pc EXCEPT ![s] = pc'[s]]
    /\ UNCHANGED <<active, nextMsgNum, resetState, signaled, hasMessages, minMsgNum,
                   maxMsgNum, nextThreshold, lastBackend, lastreserveBackend, buffer,
                   writeLock, readers, left, kick, sigTo, maxRead>>

LEMMA TopIsFrame ==
    ASSUME TypeOK, ThreadInv, NEW s \in Slots, pc[s] = "r_inval"
    PROVE  /\ stack[s] \in Seq(Frames) /\ Len(stack[s]) \in Nat \ {0}
           /\ Len(stack[s]) <= MaxDepth
           /\ Top(s) \in Frames
           /\ Top(s).at \in {"pending", "loop", "reset"}
           /\ Top(s).at # "reset" => Top(s).rel \in Rels
<1>1. stack[s] \in Seq(Frames) /\ stack[s] # <<>> /\ Len(stack[s]) <= MaxDepth
    BY DEF TypeOK, ThreadInv, ThreadOK
<1>2. Len(stack[s]) \in Nat \ {0}
    BY <1>1
<1>3. Top(s) \in Frames
    BY <1>1, <1>2 DEF Top
<1>4. /\ Top(s).at \in {"pending", "loop", "reset"}
      /\ Top(s).at # "reset" => Top(s).rel \in Rels
    BY <1>3 DEF Frames
<1> QED
    BY <1>1, <1>2, <1>3, <1>4

LEMMA LocalActionsAreAloof ==
    ASSUME TypeOK, ThreadInv, NEW s \in Slots, LocalAction(s)
    PROVE  Aloof(s)
<1>1. pc \in [Slots -> Pcs] /\ stack[s] \in Seq(Frames)
    BY DEF TypeOK
<1> USE DEF LocalStep, Goto, procStateVars, segVars, slotVars, writerVars, Quiet, Aloof
<1>2. CASE AcceptInvalidationMessages(s)
    BY <1>1, <1>2 DEF AcceptInvalidationMessages
<1>3. CASE SkipPending(s)
    BY <1>1, <1>3 DEF SkipPending
<1>4. CASE ProcessPending(s)
    BY <1>1, <1>4 DEF ProcessPending
<1>5. CASE NonePending(s)
    BY <1>1, <1>5 DEF NonePending
<1>6. CASE ProcessNext(s)
    BY <1>1, <1>6 DEF ProcessNext
<1>7. CASE LoopEnd(s)
    BY <1>1, <1>7 DEF LoopEnd
<1>8. CASE Recurse(s)
    BY <1>1, <1>8 DEF Recurse
<1>9. CASE Rebuild(s)
    <2>1. Top(s).at \in {"pending", "loop", "reset"}
        BY <1>9, TopIsFrame DEF Rebuild
    <2> QED
        BY <1>1, <1>9, <2>1 DEF Rebuild
<1>10. CASE ReceiveEnd(s)
    BY <1>1, <1>10 DEF ReceiveEnd, Caller
<1>11. CASE CatchupComplete(s)
    BY <1>1, <1>11 DEF CatchupComplete
<1> QED
    BY <1>2, <1>3, <1>4, <1>5, <1>6, <1>7, <1>8, <1>9, <1>10, <1>11 DEF LocalAction

-----------------------------------------------------------------------------
(* Attaching and detaching                                                 *)

\* The slot that is taken was free, and the loops over the slots include it.
LEMMA AttachEffect ==
    ASSUME TypeOK, SlotsInv, NEW s \in Slots, Attach(s)
    PROVE  /\ Occupy(s) /\ writeLock = NoSlot /\ ~active[s] /\ pc[s] = "off"
           /\ lastBackend' \in 0 .. maxBackends /\ lastBackend <= lastBackend'
           /\ lastreserveBackend' \in 0 .. maxreserveBackends
           /\ lastreserveBackend' <= maxBackends
           /\ lastreserveBackend <= lastreserveBackend'
           /\ s < lastBackend'
           /\ s < maxreserveBackends => s < lastreserveBackend'
<1>1. /\ lastBackend \in Nat /\ lastBackend <= maxBackends
      /\ lastreserveBackend \in Nat /\ lastreserveBackend <= maxreserveBackends
      /\ lastreserveBackend <= maxBackends
      /\ maxBackends \in Nat /\ maxreserveBackends \in Nat
      /\ s \in Nat /\ s < maxBackends
    BY Sizes DEF TypeOK, SlotsInv
<1>2. CASE SharedInvalReserveBackendInit(s)
    <2> DEFINE free == {i \in 0 .. lastreserveBackend - 1 : ~active[i]}
    <2>1. /\ writeLock = NoSlot /\ s < maxreserveBackends /\ Occupy(s)
          /\ s = IF free # {} THEN Min(free) ELSE lastreserveBackend
          /\ lastreserveBackend' = Max({lastreserveBackend, s + 1})
          /\ lastBackend' = Max({lastBackend, lastreserveBackend'})
        BY <1>2, Zenon DEF SharedInvalReserveBackendInit
    <2>2. ~active[s]
        <3>1. CASE free # {}
            <4>1. free \in SUBSET Nat
                BY <1>1
            <4>2. Min(free) \in free
                BY <3>1, <4>1, MinIsLeast
            <4> QED
                BY <2>1, <3>1, <4>2, Zenon
        <3>2. CASE free = {}
            <4>1. s = lastreserveBackend
                BY <2>1, <3>2, Zenon
            <4>2. ~(s < lastreserveBackend)
                BY <1>1, <4>1
            <4> QED
                BY <2>1, <4>2, Zenon DEF SlotsInv
        <3> QED
            BY <3>1, <3>2
    <2>3. s <= lastreserveBackend
        <3>1. CASE free # {}
            <4>1. free \in SUBSET Nat
                BY <1>1
            <4>2. Min(free) \in 0 .. lastreserveBackend - 1
                BY <3>1, <4>1, MinIsLeast
            <4> HIDE DEF free
            <4> QED
                BY <1>1, <2>1, <3>1, <4>2
        <3>2. CASE free = {}
            <4> HIDE DEF free
            <4> QED
                BY <1>1, <2>1, <3>2
        <3> QED
            BY <3>1, <3>2
    <2> HIDE DEF free
    <2>4. lastreserveBackend' = IF lastreserveBackend <= s + 1 THEN s + 1
                                ELSE lastreserveBackend
        <3>1. s + 1 \in Int /\ lastreserveBackend \in Int
            BY <1>1
        <3> QED
            BY <2>1, <3>1, MaxOfTwo, Zenon
    <2>5. lastBackend' = IF lastBackend <= lastreserveBackend' THEN lastreserveBackend'
                         ELSE lastBackend
        <3>1. lastBackend \in Int /\ lastreserveBackend' \in Int
            BY <1>1, <2>4
        <3> QED
            BY <2>1, <3>1, MaxOfTwo, Zenon
    <2>6. pc[s] = "off"
        BY <2>2, Zenon DEF SlotsInv
    <2>7. /\ lastBackend' \in 0 .. maxBackends /\ lastBackend <= lastBackend'
          /\ lastreserveBackend' \in 0 .. maxreserveBackends
          /\ lastreserveBackend' <= maxBackends
          /\ lastreserveBackend <= lastreserveBackend'
          /\ s < lastBackend' /\ s < lastreserveBackend'
        BY <1>1, <2>1, <2>4, <2>5
    <2> QED
        BY <2>1, <2>2, <2>6, <2>7
<1>3. CASE SharedInvalWorkSessionInit(s)
    <2>1. /\ writeLock = NoSlot /\ s >= maxreserveBackends /\ ~active[s] /\ Occupy(s)
          /\ lastBackend' = Max({lastBackend, s + 1})
          /\ lastreserveBackend' = lastreserveBackend
        BY <1>3, Zenon DEF SharedInvalWorkSessionInit
    <2>2. lastBackend' = IF lastBackend <= s + 1 THEN s + 1 ELSE lastBackend
        <3>1. s + 1 \in Int /\ lastBackend \in Int
            BY <1>1
        <3> QED
            BY <2>1, <3>1, MaxOfTwo, Zenon
    <2>3. pc[s] = "off"
        BY <2>1, Zenon DEF SlotsInv
    <2>4. /\ lastBackend' \in 0 .. maxBackends /\ lastBackend <= lastBackend'
          /\ lastreserveBackend' \in 0 .. maxreserveBackends
          /\ lastreserveBackend' <= maxBackends
          /\ lastreserveBackend <= lastreserveBackend'
          /\ s < lastBackend' /\ ~(s < maxreserveBackends)
        BY <1>1, <2>1, <2>2
    <2> QED
        BY <2>1, <2>3, <2>4
<1> QED
    BY <1>2, <1>3 DEF Attach

LEMMA LastActiveIs ==
    ASSUME NEW n \in 0 .. maxBackends
    PROVE  /\ LastActive(n) \in 0 .. n
           /\ \A i \in Slots : active'[i] /\ i < n => i < LastActive(n)
<1> DEFINE S == {0} \cup {i + 1 : i \in {j \in 0 .. n - 1 : active'[j]}}
<1>1. n \in Nat /\ maxBackends \in Nat /\ Slots = 0 .. maxBackends - 1
    BY Sizes
<1>2. S \in SUBSET (0 .. n) /\ S # {}
    BY <1>1
<1>3. Max(S) \in S /\ \A y \in S : y <= Max(S)
    BY <1>1, <1>2, MaxIsLargest
<1>4. ASSUME NEW i \in Slots, active'[i], i < n PROVE i < Max(S)
    <2>1. i + 1 \in S /\ i \in Nat
        BY <1>1, <1>4
    <2>2. i + 1 <= Max(S) /\ Max(S) \in Nat
        BY <1>2, <1>3, <2>1
    <2> HIDE DEF S
    <2> QED
        BY <2>1, <2>2
<1>5. LastActive(n) = Max(S)
    BY Zenon DEF LastActive
<1>6. Max(S) \in 0 .. n
    BY <1>2, <1>3
<1> QED
    BY <1>4, <1>5, <1>6, Zenon

LEMMA DetachEffect ==
    ASSUME TypeOK, SlotsInv, NEW s \in Slots, Detach(s)
    PROVE  /\ Vacate(s) /\ active[s]
           /\ lastBackend' \in 0 .. maxBackends
           /\ lastreserveBackend' \in 0 .. maxreserveBackends
           /\ lastreserveBackend' <= maxBackends
           /\ \A i \in Slots : active'[i] => i < lastBackend'
           /\ \A i \in Slots : active'[i] /\ i < maxreserveBackends => i < lastreserveBackend'
<1>1. /\ lastBackend \in 0 .. maxBackends
      /\ lastreserveBackend \in 0 .. maxreserveBackends
      /\ lastreserveBackend <= maxBackends
      /\ lastreserveBackend \in 0 .. maxBackends
      /\ maxBackends \in Nat /\ maxreserveBackends \in Nat
    BY Sizes DEF TypeOK, SlotsInv
<1>2. Vacate(s) /\ lastBackend' = LastActive(lastBackend)
    BY DEF Detach, CleanupInvalidationState, CleanupWorkSessionInvalidation, Vacate
<1>3. lastreserveBackend' \in {LastActive(lastreserveBackend), lastreserveBackend}
    BY Zenon DEF Detach, CleanupInvalidationState, CleanupWorkSessionInvalidation
<1>4. active[s] /\ \A i \in Slots : active'[i] => active[i]
    <2>1. active \in [Slots -> BOOLEAN]
        BY DEF TypeOK
    <2>2. pc[s] = "idle" /\ active' = [active EXCEPT ![s] = FALSE]
        BY <1>2 DEF Vacate
    <2> QED
        BY <2>1, <2>2, Zenon DEF SlotsInv
<1>5. \A i \in Slots : active'[i] =>
         /\ i < lastBackend
         /\ i < maxreserveBackends => i < lastreserveBackend
    BY <1>4, Zenon DEF SlotsInv
<1>6. /\ LastActive(lastBackend) \in 0 .. lastBackend
      /\ \A i \in Slots : active'[i] /\ i < lastBackend => i < LastActive(lastBackend)
    BY <1>1, LastActiveIs
<1>7. /\ LastActive(lastreserveBackend) \in 0 .. lastreserveBackend
      /\ \A i \in Slots : active'[i] /\ i < lastreserveBackend =>
            i < LastActive(lastreserveBackend)
    BY <1>1, LastActiveIs
<1>8. \A i \in Slots : active'[i] => i < lastBackend'
    BY <1>2, <1>5, <1>6, Zenon
<1>9. \A i \in Slots : active'[i] /\ i < maxreserveBackends => i < lastreserveBackend'
    BY <1>3, <1>5, <1>7, Zenon
<1>10. /\ lastBackend' \in 0 .. maxBackends
       /\ lastreserveBackend' \in 0 .. maxreserveBackends
       /\ lastreserveBackend' <= maxBackends
    BY <1>1, <1>2, <1>3, <1>6, <1>7
<1> QED
    BY <1>2, <1>4, <1>8, <1>9, <1>10

\* The steps on the queue.
QueueAction(s) ==
    \/ InsertLock(s) \/ CatchupLock(s)
    \/ InsertCleanup(s) \/ CatchupCleanup(s)
    \/ InsertSignal(s) \/ CatchupSignal(s)
    \/ WriteEntries(s)
    \/ PublishMax(s)
    \/ Kick(s)
    \/ InsertUnlock(s)
    \/ NothingToRead(s)
    \/ ReadLock(s)
    \/ ReadMax(s)
    \/ GetEntries(s)

Step(s) ==
    \/ Attach(s)
    \/ Detach(s)
    \/ \E rels \in Sends : AtEOXact_Inval(s, rels)
    \/ LocalAction(s)
    \/ ReceiveReset(s)
    \/ QueueAction(s) /\ UNCHANGED cacheVars

LEMMA NextSteps ==
    ASSUME Next
    PROVE  \E s \in Slots : Step(s)
    BY DEF Next, InsertStep, ReceiveStep, LockStep, Step, QueueAction, LocalAction

-----------------------------------------------------------------------------
(* The locks                                                               *)

LEMMA LocksStep ==
    ASSUME IInv, NEW s \in Slots, Step(s)
    PROVE  LocksInv'
<1>1. /\ pc \in [Slots -> Pcs] /\ LocksInv /\ SlotsInv
      /\ NoSlot \notin Slots /\ readers \subseteq Slots
    BY NullAssumption DEF IInv, TypeOK
<1> USE DEF Goto, LocksInv, Writing, Reading
<1>2. CASE Attach(s)
    <2>1. Occupy(s) /\ pc[s] = "off"
        BY <1>2, AttachEffect DEF IInv
    <2> QED
        BY <1>1, <2>1 DEF Occupy
<1>3. CASE Detach(s)
    <2>1. Vacate(s)
        BY <1>3, DetachEffect DEF IInv
    <2> QED
        BY <1>1, <2>1 DEF Vacate
<1>4. CASE \E rels \in Sends : AtEOXact_Inval(s, rels)
    BY <1>1, <1>4 DEF AtEOXact_Inval
<1>5. CASE LocalAction(s)
    <2>1. Aloof(s)
        BY <1>5, LocalActionsAreAloof DEF IInv
    <2> QED
        BY <1>1, <2>1 DEF Aloof, Quiet
<1>6. CASE ReceiveReset(s)
    BY <1>1, <1>6 DEF ReceiveReset, GetReset
<1>7. CASE InsertLock(s) \/ CatchupLock(s)
    BY <1>1, <1>7 DEF InsertLock, CatchupLock, AcquireWriteLock
<1>8. CASE InsertCleanup(s) \/ CatchupCleanup(s)
    <2>1. Caller(s) \in {"idle", "r_inval"}
        BY DEF Caller
    <2>2. /\ pc[s] \in {"w_check", "c_clean"} /\ readers' = readers
          /\ \/ writeLock' = s /\ pc' = [pc EXCEPT ![s] = "w_check"]
             \/ /\ writeLock' = NoSlot
                /\ \E l \in {"idle", "r_inval", "w_signal", "c_signal"} :
                      pc' = [pc EXCEPT ![s] = l]
        BY <1>8, <2>1, Zenon DEF InsertCleanup, CatchupCleanup, SICleanupQueue
    <2> QED
        BY <1>1, <2>2
<1>9. CASE InsertSignal(s) \/ CatchupSignal(s)
    BY <1>1, <1>9 DEF InsertSignal, CatchupSignal, SendCatchupSignal, Caller
<1>10. CASE WriteEntries(s)
    BY <1>1, <1>10 DEF WriteEntries
<1>11. CASE PublishMax(s)
    BY <1>1, <1>11 DEF PublishMax
<1>12. CASE Kick(s)
    BY <1>1, <1>12 DEF Kick
<1>13. CASE InsertUnlock(s)
    BY <1>1, <1>13 DEF InsertUnlock
<1>14. CASE NothingToRead(s)
    BY <1>1, <1>14 DEF NothingToRead
<1>15. CASE ReadLock(s)
    BY <1>1, <1>15 DEF ReadLock
<1>16. CASE ReadMax(s)
    BY <1>1, <1>16 DEF ReadMax
<1>17. CASE GetEntries(s)
    <2>1. /\ pc[s] = "r_get" /\ pc' = [pc EXCEPT ![s] = "r_loop"]
          /\ writeLock' = writeLock /\ readers' = readers \ {s}
        BY <1>17, Zenon DEF GetEntries
    <2> QED
        BY <1>1, <2>1
<1> QED
    BY <1>2, <1>3, <1>4, <1>5, <1>6, <1>7, <1>8, <1>9, <1>10, <1>11, <1>12, <1>13,
       <1>14, <1>15, <1>16, <1>17, Zenon DEF Step, QueueAction

-----------------------------------------------------------------------------
(* The slots                                                               *)

\* Most steps leave a thread attached, and everybody else alone.
StaysAttached(s) ==
    /\ pc[s] # "off" /\ pc'[s] # "off"
    /\ pc' = [pc EXCEPT ![s] = pc'[s]]
    /\ UNCHANGED <<active, lastBackend, lastreserveBackend>>

LEMMA StepStaysAttached ==
    ASSUME TypeOK, ThreadInv, NEW s \in Slots,
           \/ \E rels \in Sends : AtEOXact_Inval(s, rels)
           \/ LocalAction(s)
           \/ ReceiveReset(s)
           \/ QueueAction(s)
    PROVE  StaysAttached(s)
<1>1. pc \in [Slots -> Pcs]
    BY DEF TypeOK
<1> USE DEF Goto, StaysAttached, procStateVars, slotVars
<1>2. CASE \E rels \in Sends : AtEOXact_Inval(s, rels)
    BY <1>1, <1>2 DEF AtEOXact_Inval
<1>3. CASE LocalAction(s)
    <2>1. Aloof(s)
        BY <1>3, LocalActionsAreAloof
    <2> QED
        BY <1>1, <2>1 DEF Aloof, Quiet
<1>4. CASE ReceiveReset(s)
    BY <1>1, <1>4 DEF ReceiveReset, GetReset
<1>5. CASE InsertLock(s) \/ CatchupLock(s)
    BY <1>1, <1>5 DEF InsertLock, CatchupLock, AcquireWriteLock
<1>6. CASE InsertCleanup(s) \/ CatchupCleanup(s)
    <2>1. Caller(s) \in {"idle", "r_inval"}
        BY DEF Caller
    <2>2. /\ pc[s] \in {"w_check", "c_clean"}
          /\ \E l \in {"w_check", "idle", "r_inval", "w_signal", "c_signal"} :
                pc' = [pc EXCEPT ![s] = l]
          /\ UNCHANGED <<active, lastBackend, lastreserveBackend>>
        BY <1>6, <2>1, Zenon DEF InsertCleanup, CatchupCleanup, SICleanupQueue
    <2> QED
        BY <1>1, <2>2
<1>7. CASE InsertSignal(s) \/ CatchupSignal(s)
    BY <1>1, <1>7 DEF InsertSignal, CatchupSignal, SendCatchupSignal, Caller
<1>8. CASE WriteEntries(s)
    <2>1. /\ pc[s] = "w_check" /\ pc' = [pc EXCEPT ![s] = "w_max"]
          /\ UNCHANGED <<active, lastBackend, lastreserveBackend>>
        BY <1>8, Zenon DEF WriteEntries
    <2> QED
        BY <1>1, <2>1
<1>9. CASE PublishMax(s)
    BY <1>1, <1>9 DEF PublishMax
<1>10. CASE Kick(s)
    BY <1>1, <1>10 DEF Kick
<1>11. CASE InsertUnlock(s)
    BY <1>1, <1>11 DEF InsertUnlock
<1>12. CASE NothingToRead(s) \/ ReadLock(s) \/ ReadMax(s)
    BY <1>1, <1>12 DEF NothingToRead, ReadLock, ReadMax
<1>13. CASE GetEntries(s)
    <2>1. /\ pc[s] = "r_get" /\ pc' = [pc EXCEPT ![s] = "r_loop"]
          /\ UNCHANGED <<active, lastBackend, lastreserveBackend>>
        BY <1>13, Zenon DEF GetEntries
    <2> QED
        BY <1>1, <2>1
<1> QED
    BY <1>2, <1>3, <1>4, <1>5, <1>6, <1>7, <1>8, <1>9, <1>10, <1>11, <1>12, <1>13,
       Zenon DEF QueueAction

LEMMA SlotsStep ==
    ASSUME IInv, NEW s \in Slots, Step(s)
    PROVE  SlotsInv'
<1>1. /\ pc \in [Slots -> Pcs] /\ active \in [Slots -> BOOLEAN] /\ SlotsInv
      /\ lastBackend \in Nat /\ lastreserveBackend \in Nat /\ Slots \subseteq Nat
    BY Sizes DEF IInv, TypeOK
<1>2. CASE Attach(s)
    <2>1. /\ pc' = [pc EXCEPT ![s] = "idle"] /\ active' = [active EXCEPT ![s] = TRUE]
          /\ lastBackend' \in Nat /\ lastBackend <= lastBackend'
          /\ lastreserveBackend' \in Nat /\ lastreserveBackend' <= maxBackends
          /\ lastreserveBackend <= lastreserveBackend'
          /\ s < lastBackend'
          /\ s < maxreserveBackends => s < lastreserveBackend'
        BY <1>2, AttachEffect DEF IInv, Occupy, Goto
    <2>2. ASSUME NEW i \in Slots
          PROVE  /\ active'[i] <=> pc'[i] # "off"
                 /\ active'[i] => i < lastBackend'
                 /\ active'[i] /\ i < maxreserveBackends => i < lastreserveBackend'
        <3>1. CASE i = s
            BY <1>1, <2>1, <3>1
        <3>2. CASE i # s
            <4>1. active'[i] = active[i] /\ pc'[i] = pc[i]
                BY <1>1, <2>1, <3>2
            <4> QED
                BY <1>1, <2>1, <4>1 DEF SlotsInv
        <3> QED
            BY <3>1, <3>2
    <2> QED
        BY <2>1, <2>2, Zenon DEF SlotsInv
<1>3. CASE Detach(s)
    <2>1. /\ pc' = [pc EXCEPT ![s] = "off"] /\ active' = [active EXCEPT ![s] = FALSE]
          /\ lastreserveBackend' <= maxBackends
          /\ \A i \in Slots : active'[i] => i < lastBackend'
          /\ \A i \in Slots : active'[i] /\ i < maxreserveBackends => i < lastreserveBackend'
        BY <1>3, DetachEffect DEF IInv, Vacate, Goto
    <2>2. \A i \in Slots : active'[i] <=> pc'[i] # "off"
        BY <1>1, <2>1 DEF SlotsInv
    <2> QED
        BY <2>1, <2>2, Zenon DEF SlotsInv
<1>4. CASE StaysAttached(s)
    BY <1>1, <1>4 DEF StaysAttached, SlotsInv
<1> QED
    BY <1>2, <1>3, <1>4, StepStaysAttached, Zenon DEF Step, IInv

-----------------------------------------------------------------------------
(* The numbers                                                             *)

\* A step that leaves the numbers and the buffer alone.
NumbersKept(s) ==
    /\ pc'[s] \notin {"r_get", "w_max"}
    /\ \A i \in Slots \ {s} : pc'[i] = pc[i] /\ left'[i] = left[i]
    /\ UNCHANGED <<active, nextMsgNum, resetState, minMsgNum, maxMsgNum, buffer, maxRead>>

LEMMA StepKeepsNumbers ==
    ASSUME TypeOK, ThreadInv, NEW s \in Slots,
           \/ \E rels \in Sends : AtEOXact_Inval(s, rels)
           \/ LocalAction(s)
           \/ InsertLock(s) \/ CatchupLock(s)
           \/ InsertSignal(s) \/ CatchupSignal(s)
           \/ Kick(s) \/ InsertUnlock(s)
           \/ NothingToRead(s) \/ ReadLock(s)
    PROVE  NumbersKept(s)
<1>1. pc \in [Slots -> Pcs] /\ left \in [Slots -> Seq(Rels)]
    BY DEF TypeOK
<1> USE DEF Goto, NumbersKept, procStateVars, segVars, readerVars, writerVars
<1>2. CASE \E rels \in Sends : AtEOXact_Inval(s, rels)
    BY <1>1, <1>2 DEF AtEOXact_Inval
<1>3. CASE LocalAction(s)
    <2>1. Aloof(s)
        BY <1>3, LocalActionsAreAloof
    <2> QED
        BY <1>1, <2>1 DEF Aloof, Quiet
<1>4. CASE InsertLock(s) \/ CatchupLock(s)
    BY <1>1, <1>4 DEF InsertLock, CatchupLock, AcquireWriteLock
<1>5. CASE InsertSignal(s) \/ CatchupSignal(s)
    BY <1>1, <1>5 DEF InsertSignal, CatchupSignal, SendCatchupSignal, Caller
<1>6. CASE Kick(s)
    BY <1>1, <1>6 DEF Kick
<1>7. CASE InsertUnlock(s)
    BY <1>1, <1>7 DEF InsertUnlock
<1>8. CASE NothingToRead(s) \/ ReadLock(s)
    BY <1>1, <1>8 DEF NothingToRead, ReadLock
<1> QED
    BY <1>2, <1>3, <1>4, <1>5, <1>6, <1>7, <1>8, Zenon

LEMMA KeptNumbers ==
    ASSUME NumbersInv, NEW s \in Slots, NumbersKept(s)
    PROVE  NumbersInv'
<1>1. RangeInv'
    BY DEF NumbersInv, RangeInv, NumbersKept
<1>2. PositionsInv'
    BY DEF NumbersInv, PositionsInv, NumbersKept, Receivers
<1>3. PendingInv'
    <2> SUFFICES ASSUME NEW i \in Slots, pc'[i] = "w_max"
                 PROVE  /\ maxMsgNum' + nthistime(i)' <= minMsgNum' + MAXNUMMESSAGES
                        /\ \A k \in 1 .. nthistime(i)' :
                              buffer'[(maxMsgNum' + k - 1) % MAXNUMMESSAGES] = left'[i][k]
        BY DEF PendingInv, At
    <2>1. i # s /\ pc[i] = "w_max" /\ left'[i] = left[i]
        BY DEF NumbersKept
    <2>2. nthistime(i)' = nthistime(i)
        BY <2>1 DEF nthistime
    <2> QED
        BY <2>1, <2>2, Zenon DEF NumbersInv, PendingInv, At, NumbersKept
<1>4. ContentsInv'
    BY Zenon DEF NumbersInv, ContentsInv, NumbersKept, At
<1> QED
    BY <1>1, <1>2, <1>3, <1>4 DEF NumbersInv

\* Nobody else is in the middle of an insertion.
LEMMA OneWriter ==
    ASSUME LocksInv, NEW s \in Slots, pc[s] \in Writing, NEW i \in Slots \ {s}
    PROVE  pc[i] \notin Writing
    BY DEF LocksInv

\* What a read takes.
nRead(s) == IF maxRead[s] - nextMsgNum[s] <= MAXINVALMSGS
            THEN maxRead[s] - nextMsgNum[s] ELSE MAXINVALMSGS

LEMMA GetEntriesEffect ==
    ASSUME TypeOK, NumbersInv, ThreadInv, SlotsInv, NEW s \in Slots, GetEntries(s)
    PROVE  /\ s \in Receivers /\ pc[s] = "r_get" /\ ~resetState[s]
           /\ nRead(s) \in 0 .. MAXINVALMSGS
           /\ minMsgNum <= nextMsgNum[s] /\ nextMsgNum[s] + nRead(s) <= maxRead[s]
           /\ maxRead[s] <= maxMsgNum
           /\ nextMsgNum' = [nextMsgNum EXCEPT ![s] = @ + nRead(s)]
           /\ nummsgs' = [nummsgs EXCEPT ![s] = nRead(s)]
           /\ messages' = [messages EXCEPT ![s] = [k \in 1 .. nRead(s) |->
                              At(nextMsgNum[s] + k - 1)]]
           /\ hasMessages' = [hasMessages EXCEPT ![s] =
                 @ \/ ~(nextMsgNum[s] + nRead(s) >= maxRead[s])]
           /\ pc' = [pc EXCEPT ![s] = "r_loop"]
           /\ maxRead' = [maxRead EXCEPT ![s] = 0]
           /\ UNCHANGED <<active, resetState, minMsgNum, maxMsgNum, buffer, left, kick>>
<1> DEFINE d == maxRead[s] - nextMsgNum[s]
           n == Min({MAXINVALMSGS, Max({0, d})})
<1>1. pc[s] = "r_get" /\ ~resetState[s]
    BY Zenon DEF GetEntries
<1>2. s \in Receivers
    BY <1>1 DEF ThreadInv, ThreadOK, SlotsInv, Receivers, Receiving
<1>3. /\ minMsgNum \in Nat /\ maxMsgNum \in Nat /\ nextMsgNum[s] \in Nat
      /\ maxRead[s] \in Nat /\ MAXINVALMSGS \in Nat
    BY NumberFacts, Sizes
<1>4. /\ minMsgNum <= nextMsgNum[s] /\ nextMsgNum[s] <= maxRead[s]
      /\ maxRead[s] <= maxMsgNum
    <2>1. nextMsgNum[s] \in minMsgNum .. maxMsgNum
        BY <1>1, <1>2, Zenon DEF NumbersInv, PositionsInv
    <2>2. maxRead[s] \in minMsgNum .. maxMsgNum /\ nextMsgNum[s] <= maxRead[s]
        BY <1>1, Zenon DEF NumbersInv, PositionsInv
    <2> QED
        BY <1>3, <2>1, <2>2
<1>5. d \in Nat
    BY <1>3, <1>4
<1>6. Max({0, d}) = d
    <2>1. 0 \in Int /\ d \in Int /\ 0 <= d
        BY <1>5
    <2> HIDE DEF d
    <2> QED
        BY <2>1, MaxOfTwo
<1>7. n = nRead(s)
    <2>0. n = Min({MAXINVALMSGS, d})
        BY <1>6, Zenon
    <2>1. n = Min({MAXINVALMSGS, d}) /\ MAXINVALMSGS \in Int /\ d \in Int
        <3> HIDE DEF n
        <3> QED
            BY <1>3, <1>5, <2>0
    <2>2. n = IF MAXINVALMSGS <= d THEN MAXINVALMSGS ELSE d
        BY <2>1, MinOfTwo, Zenon
    <2> HIDE DEF n
    <2> QED
        BY <1>3, <2>2 DEF nRead
<1>8. nRead(s) \in 0 .. MAXINVALMSGS /\ nextMsgNum[s] + nRead(s) <= maxRead[s]
    BY <1>3, <1>4 DEF nRead
<1>9. /\ messages' = [messages EXCEPT ![s] =
             [k \in 1 .. n |-> buffer[(nextMsgNum[s] + k - 1) % MAXNUMMESSAGES]]]
      /\ nummsgs' = [nummsgs EXCEPT ![s] = n]
      /\ nextMsgNum' = [nextMsgNum EXCEPT ![s] = @ + n]
      /\ hasMessages' = [hasMessages EXCEPT ![s] =
            @ \/ ~(nextMsgNum[s] + n >= maxRead[s])]
      /\ pc' = [pc EXCEPT ![s] = "r_loop"]
      /\ maxRead' = [maxRead EXCEPT ![s] = 0]
      /\ UNCHANGED <<active, resetState, minMsgNum, maxMsgNum, buffer, left, kick>>
    BY Zenon DEF GetEntries, Goto, segVars, writerVars
<1> HIDE DEF n
<1> QED
    BY <1>1, <1>2, <1>4, <1>7, <1>8, <1>9, Zenon DEF At

LEMMA AttachNumbers ==
    ASSUME TypeOK, NumbersInv, SlotsInv, NEW s \in Slots, Attach(s)
    PROVE  NumbersInv'
<1>1. /\ pc \in [Slots -> Pcs] /\ active \in [Slots -> BOOLEAN]
      /\ nextMsgNum \in [Slots -> MsgNums] /\ resetState \in [Slots -> BOOLEAN]
    BY DEF TypeOK
<1>2. /\ active' = [active EXCEPT ![s] = TRUE]
      /\ nextMsgNum' = [nextMsgNum EXCEPT ![s] = maxMsgNum]
      /\ resetState' = [resetState EXCEPT ![s] = FALSE]
      /\ pc' = [pc EXCEPT ![s] = "idle"]
      /\ UNCHANGED <<minMsgNum, maxMsgNum, buffer, left, maxRead>>
    BY AttachEffect DEF Occupy, Goto, segVars, writerVars, readerVars
<1>3. RangeInv'
    BY <1>2 DEF NumbersInv, RangeInv
<1>4. PositionsInv'
    BY <1>1, <1>2, NumberFacts DEF NumbersInv, PositionsInv, Receivers
<1>5. PendingInv'
    BY <1>1, <1>2, Zenon DEF NumbersInv, PendingInv, nthistime, At
<1>6. ContentsInv'
    BY <1>2, Zenon DEF NumbersInv, ContentsInv, At
<1> QED
    BY <1>3, <1>4, <1>5, <1>6 DEF NumbersInv

LEMMA DetachNumbers ==
    ASSUME TypeOK, NumbersInv, SlotsInv, NEW s \in Slots, Detach(s)
    PROVE  NumbersInv'
<1>1. /\ pc \in [Slots -> Pcs] /\ active \in [Slots -> BOOLEAN]
      /\ nextMsgNum \in [Slots -> MsgNums] /\ resetState \in [Slots -> BOOLEAN]
    BY DEF TypeOK
<1>2. /\ active' = [active EXCEPT ![s] = FALSE]
      /\ nextMsgNum' = [nextMsgNum EXCEPT ![s] = 0]
      /\ resetState' = [resetState EXCEPT ![s] = FALSE]
      /\ pc' = [pc EXCEPT ![s] = "off"]
      /\ UNCHANGED <<minMsgNum, maxMsgNum, buffer, left, maxRead>>
    BY DetachEffect DEF Vacate, Goto, segVars, readerVars
<1>3. RangeInv'
    BY <1>2 DEF NumbersInv, RangeInv
<1>4. PositionsInv'
    BY <1>1, <1>2, NumberFacts DEF NumbersInv, PositionsInv, Receivers
<1>5. PendingInv'
    BY <1>1, <1>2, Zenon DEF NumbersInv, PendingInv, nthistime, At
<1>6. ContentsInv'
    BY <1>2, Zenon DEF NumbersInv, ContentsInv, At
<1> QED
    BY <1>3, <1>4, <1>5, <1>6 DEF NumbersInv

LEMMA ReadNumbers ==
    ASSUME TypeOK, NumbersInv, ThreadInv, SlotsInv, NEW s \in Slots,
           ReadMax(s) \/ GetReset(s) \/ GetEntries(s)
    PROVE  NumbersInv'
<1>1. /\ pc \in [Slots -> Pcs] /\ maxRead \in [Slots -> MsgNums]
      /\ nextMsgNum \in [Slots -> MsgNums] /\ resetState \in [Slots -> BOOLEAN]
    BY DEF TypeOK
<1>2. \A i \in Slots : nextMsgNum[i] \in Nat /\ maxRead[i] \in Nat
    BY NumberFacts
<1>3. /\ UNCHANGED <<active, minMsgNum, maxMsgNum, buffer, left>>
      /\ \E l \in {"r_get", "r_inval", "r_loop"} : pc' = [pc EXCEPT ![s] = l]
    <2>1. CASE ReadMax(s)
        BY <2>1 DEF ReadMax, procStateVars, segVars, writerVars, Goto
    <2>2. CASE GetReset(s)
        BY <2>2 DEF GetReset, segVars, writerVars, Goto
    <2>3. CASE GetEntries(s)
        BY <2>3, GetEntriesEffect
    <2> QED
        BY <2>1, <2>2, <2>3
<1>4. RangeInv'
    BY <1>3 DEF NumbersInv, RangeInv
<1>5. PositionsInv'
    <2>1. CASE ReadMax(s)
        <3>1. /\ pc' = [pc EXCEPT ![s] = "r_get"] /\ pc[s] = "r_max"
              /\ maxRead' = [maxRead EXCEPT ![s] = maxMsgNum]
              /\ UNCHANGED <<active, nextMsgNum, resetState, minMsgNum, maxMsgNum>>
            BY <2>1 DEF ReadMax, procStateVars, segVars, Goto
        <3>2. s \in Receivers
            BY <3>1 DEF ThreadInv, ThreadOK, SlotsInv, Receivers, Receiving
        <3> QED
            BY <1>1, <3>1, <3>2, NumberFacts DEF NumbersInv, PositionsInv, Receivers
    <2>2. CASE GetReset(s)
        <3>1. /\ pc[s] = "r_get" /\ pc' = [pc EXCEPT ![s] = "r_inval"]
              /\ nextMsgNum' = [nextMsgNum EXCEPT ![s] = maxRead[s]]
              /\ resetState' = [resetState EXCEPT ![s] = FALSE]
              /\ maxRead' = [maxRead EXCEPT ![s] = 0]
              /\ UNCHANGED <<active, minMsgNum, maxMsgNum>>
            BY <2>2 DEF GetReset, segVars, Goto
        <3> QED
            BY <1>1, <3>1, NumberFacts DEF NumbersInv, PositionsInv, Receivers
    <2>3. CASE GetEntries(s)
        <3> DEFINE n == nRead(s)
        <3>1. /\ pc[s] = "r_get" /\ pc' = [pc EXCEPT ![s] = "r_loop"]
              /\ n \in Nat
              /\ minMsgNum <= nextMsgNum[s] /\ nextMsgNum[s] + n <= maxRead[s]
              /\ maxRead[s] <= maxMsgNum
              /\ nextMsgNum' = [nextMsgNum EXCEPT ![s] = @ + n]
              /\ maxRead' = [maxRead EXCEPT ![s] = 0]
              /\ UNCHANGED <<active, resetState, minMsgNum, maxMsgNum>>
            BY <2>3, GetEntriesEffect
        <3> HIDE DEF n
        <3>2. nextMsgNum[s] + n \in minMsgNum .. maxMsgNum
            BY <1>2, <3>1, NumberFacts
        <3> QED
            BY <1>1, <3>1, <3>2 DEF NumbersInv, PositionsInv, Receivers
    <2> QED
        BY <2>1, <2>2, <2>3
<1>6. PendingInv'
    <2>1. \A i \in Slots : pc'[i] = "w_max" => pc[i] = "w_max"
        BY <1>1, <1>3
    <2> QED
        BY <1>3, <2>1, Zenon DEF NumbersInv, PendingInv, nthistime, At
<1>7. ContentsInv'
    BY <1>3, Zenon DEF NumbersInv, ContentsInv, At
<1> QED
    BY <1>4, <1>5, <1>6, <1>7 DEF NumbersInv

LEMMA WriteNumbers ==
    ASSUME TypeOK, LocksInv, NumbersInv, NEW s \in Slots, WriteEntries(s)
    PROVE  NumbersInv'
<1>1. pc \in [Slots -> Pcs]
    BY DEF TypeOK
<1>2. /\ pc' = [pc EXCEPT ![s] = "w_max"] /\ pc[s] = "w_check"
      /\ UNCHANGED <<active, nextMsgNum, resetState, minMsgNum, maxMsgNum, maxRead, left>>
    BY Zenon DEF WriteEntries, Goto, procStateVars, segVars, writerVars, readerVars
<1>3. /\ maxMsgNum + nthistime(s) <= minMsgNum + MAXNUMMESSAGES
      /\ \A n \in minMsgNum .. maxMsgNum - 1 :
            buffer'[n % MAXNUMMESSAGES] = buffer[n % MAXNUMMESSAGES]
      /\ \A k \in 1 .. nthistime(s) :
            buffer'[(maxMsgNum + k - 1) % MAXNUMMESSAGES] = left[s][k]
    BY WriteEntriesEffect
<1>4. RangeInv'
    BY <1>2 DEF NumbersInv, RangeInv
<1>5. PositionsInv'
    BY <1>1, <1>2 DEF NumbersInv, PositionsInv, Receivers
<1>6. PendingInv'
    <2> SUFFICES ASSUME NEW i \in Slots, pc'[i] = "w_max"
                 PROVE  /\ maxMsgNum' + nthistime(i)' <= minMsgNum' + MAXNUMMESSAGES
                        /\ \A k \in 1 .. nthistime(i)' :
                              buffer'[(maxMsgNum' + k - 1) % MAXNUMMESSAGES] = left'[i][k]
        BY Zenon DEF PendingInv, At
    <2>1. nthistime(i)' = nthistime(i)
        BY <1>2, Zenon DEF nthistime
    <2>2. CASE i = s
        BY <1>2, <1>3, <2>1, <2>2, Zenon
    <2>3. CASE i # s
        <3>1. pc[i] = "w_max"
            BY <1>1, <1>2, <2>3
        <3> QED
            BY <1>2, <2>3, <3>1, OneWriter DEF Writing
    <2> QED
        BY <2>2, <2>3
<1>7. ContentsInv'
    BY <1>2, <1>3, Zenon DEF NumbersInv, ContentsInv, At
<1> QED
    BY <1>4, <1>5, <1>6, <1>7 DEF NumbersInv

LEMMA PublishNumbers ==
    ASSUME TypeOK, LocksInv, NumbersInv, NEW s \in Slots, PublishMax(s)
    PROVE  NumbersInv'
<1> DEFINE n == nthistime(s)
<1>1. pc \in [Slots -> Pcs] /\ n \in Nat /\ left[s] \in Seq(Rels)
      /\ \A k \in 1 .. n : left[s][k] \in Rels
    <2>1. left[s] \in Seq(Rels) /\ n \in 0 .. Len(left[s])
        BY Nthistime DEF TypeOK
    <2> HIDE DEF n
    <2>2. n \in Nat /\ \A k \in 1 .. n : k \in 1 .. Len(left[s])
        BY <2>1
    <2>3. \A k \in 1 .. n : left[s][k] \in Rels
        BY <2>1, <2>2, ElementOfSeq
    <2>4. pc \in [Slots -> Pcs]
        BY DEF TypeOK
    <2> QED
        BY <2>1, <2>2, <2>3, <2>4
<1>2. /\ pc' = [pc EXCEPT ![s] = "w_kick"] /\ pc[s] = "w_max"
      /\ maxMsgNum' = maxMsgNum + n
      /\ UNCHANGED <<active, nextMsgNum, resetState, minMsgNum, maxRead, buffer>>
    BY Zenon DEF PublishMax, Goto, procStateVars, readerVars
<1>3. /\ maxMsgNum + n <= minMsgNum + MAXNUMMESSAGES
      /\ \A k \in 1 .. n : At(maxMsgNum + k - 1) = left[s][k]
    BY <1>2, Zenon DEF NumbersInv, PendingInv
<1> HIDE DEF n
<1>4. RangeInv'
    BY <1>1, <1>2, <1>3, NumberFacts DEF RangeInv
<1>5. PositionsInv'
    <2>1. \A x \in minMsgNum .. maxMsgNum : x \in minMsgNum' .. maxMsgNum'
        BY <1>1, <1>2, NumberFacts
    <2> QED
        BY <1>1, <1>2, <2>1 DEF NumbersInv, PositionsInv, Receivers
<1>6. PendingInv'
    <2> SUFFICES ASSUME NEW i \in Slots, pc'[i] = "w_max" PROVE FALSE
        BY Zenon DEF PendingInv
    <2>1. pc[i] = "w_max" /\ i # s
        BY <1>1, <1>2
    <2> QED
        BY <1>2, <2>1, OneWriter DEF Writing
<1>7. ContentsInv'
    <2> SUFFICES ASSUME NEW x \in minMsgNum' .. maxMsgNum' - 1
                 PROVE  At(x) \in Rels
        BY <1>2, Zenon DEF ContentsInv, At
    <2>1. CASE x < maxMsgNum
        <3>1. x \in minMsgNum .. maxMsgNum - 1
            BY <1>1, <1>2, <2>1, NumberFacts
        <3> QED
            BY <3>1, Zenon DEF NumbersInv, ContentsInv
    <2>2. CASE ~(x < maxMsgNum)
        <3> DEFINE k == x - maxMsgNum + 1
        <3>1. k \in 1 .. n /\ x = maxMsgNum + k - 1
            BY <1>1, <1>2, <2>2, NumberFacts
        <3> HIDE DEF k
        <3> QED
            BY <1>1, <1>3, <3>1, Zenon
    <2> QED
        BY <2>1, <2>2
<1> QED
    BY <1>4, <1>5, <1>6, <1>7 DEF NumbersInv

LEMMA ShiftedRange ==
    ASSUME NEW min \in Nat, NEW max \in Nat, NEW min1 \in Nat, NEW max1 \in Nat,
           NEW shift \in Nat, NEW x \in Int,
           max1 = max - shift, min <= min1 + shift, min1 <= x, x < max1
    PROVE  x + shift \in min .. max - 1
    OBVIOUS

LEMMA CleanupNumbers ==
    ASSUME TypeOK, LocksInv, SlotsInv, NumbersInv, NEW s \in Slots,
           pc[s] \in {"w_check", "c_clean"},
           NEW minFree \in 0 .. MAXNUMMESSAGES,
           NEW done \in {"w_check", "idle", "r_inval"},
           SICleanupQueue(s, minFree, done)
    PROVE  NumbersInv'
<1>1. /\ pc \in [Slots -> Pcs] /\ readers = {}
      /\ \E l \in {"w_check", "idle", "r_inval", "w_signal", "c_signal"} :
            pc' = [pc EXCEPT ![s] = l]
      /\ UNCHANGED <<active, maxRead, buffer, left>>
    BY Zenon DEF SICleanupQueue, Goto, readerVars, TypeOK
<1>2. PICK shift \in Nat : CleanedBy(shift) /\ shift \in {0, MSGNUMWRAPAROUND}
    BY CleanupEffect, Sizes
<1>3. \A i \in Slots : pc'[i] \notin {"r_get", "w_max"}
    <2> TAKE i \in Slots
    <2>1. CASE i = s
        BY <1>1, <2>1
    <2>2. CASE i # s
        <3>1. pc'[i] = pc[i]
            BY <1>1, <2>2
        <3>2. pc[i] \notin Writing /\ pc[i] \notin Reading
            BY <1>1, <2>2, OneWriter DEF LocksInv, Writing
        <3> QED
            BY <3>1, <3>2 DEF Writing, Reading
    <2> QED
        BY <2>1, <2>2
<1>4. RangeInv'
    BY <1>2 DEF CleanedBy, RangeInv
<1>5. PositionsInv'
    <2>1. Receivers' = Receivers /\ Receivers \subseteq Slots
        BY <1>1 DEF Receivers
    <2> QED
        BY <1>2, <1>3, <2>1 DEF CleanedBy, PositionsInv
<1>6. PendingInv'
    BY <1>3, Zenon DEF PendingInv
<1>7. ContentsInv'
    <2>0. /\ maxMsgNum' = maxMsgNum - shift /\ maxMsgNum' \in Nat
          /\ minMsgNum' \in Nat /\ minMsgNum <= minMsgNum' + shift
          /\ shift \in Nat /\ minMsgNum \in Nat /\ maxMsgNum \in Nat
        <3>1. /\ maxMsgNum' = maxMsgNum - shift /\ maxMsgNum' \in Nat
              /\ minMsgNum' \in Nat /\ minMsgNum <= minMsgNum' + shift
            BY <1>2, Zenon DEF CleanedBy
        <3> QED
            BY <3>1, NumberFacts, Sizes
    <2> SUFFICES ASSUME NEW x \in Int, minMsgNum' <= x, x < maxMsgNum'
                 PROVE  At(x) \in Rels
        BY <1>1, <2>0 DEF ContentsInv, At
    <2>1. /\ x + shift \in Int /\ x = (x + shift) - shift
          /\ x + shift \in minMsgNum .. maxMsgNum - 1
        <3>1. x + shift \in Int /\ x = (x + shift) - shift
            OBVIOUS
        <3>2. x + shift \in minMsgNum .. maxMsgNum - 1
            BY <2>0, ShiftedRange, Zenon
        <3> QED
            BY <3>1, <3>2
    <2>2. At(x) = At(x + shift)
        <3>1. CASE shift = 0
            BY <2>1, <3>1
        <3>2. CASE shift = MSGNUMWRAPAROUND
            BY <2>1, <3>2, AtShift, Zenon
        <3> QED
            BY <1>2, <3>1, <3>2
    <2> QED
        BY <2>1, <2>2, Zenon DEF NumbersInv, ContentsInv
<1> QED
    BY <1>4, <1>5, <1>6, <1>7 DEF NumbersInv

LEMMA NumbersStep ==
    ASSUME IInv, NEW s \in Slots, Step(s)
    PROVE  NumbersInv'
<1>1. TypeOK /\ LocksInv /\ SlotsInv /\ NumbersInv /\ ThreadInv
    BY DEF IInv
<1>2. CASE Attach(s)
    BY <1>1, <1>2, AttachNumbers
<1>3. CASE Detach(s)
    BY <1>1, <1>3, DetachNumbers
<1>4. CASE NumbersKept(s)
    BY <1>1, <1>4, KeptNumbers
<1>5. CASE ReceiveReset(s) \/ ReadMax(s) \/ GetEntries(s)
    BY <1>1, <1>5, ReadNumbers DEF ReceiveReset
<1>6. CASE WriteEntries(s)
    BY <1>1, <1>6, WriteNumbers
<1>7. CASE PublishMax(s)
    BY <1>1, <1>7, PublishNumbers
<1>8. CASE InsertCleanup(s)
    <2>1. nthistime(s) \in 0 .. MAXNUMMESSAGES
        BY <1>1, RoomForBatch
    <2> QED
        BY <1>1, <1>8, <2>1, CleanupNumbers DEF InsertCleanup
<1>9. CASE CatchupCleanup(s)
    <2>1. 0 \in 0 .. MAXNUMMESSAGES /\ Caller(s) \in {"w_check", "idle", "r_inval"}
        BY Sizes DEF Caller
    <2> QED
        BY <1>1, <1>9, <2>1, CleanupNumbers DEF CatchupCleanup
<1> QED
    BY <1>1, <1>2, <1>3, <1>4, <1>5, <1>6, <1>7, <1>8, <1>9, StepKeepsNumbers,
       Zenon DEF Step, QueueAction

-----------------------------------------------------------------------------
(* The flags                                                               *)

\* A step that sets no flag and moves nobody.
FlagsKept(s) ==
    /\ pc[s] \notin {"r_max", "r_get", "w_kick"} /\ pc'[s] \notin {"r_max", "r_get", "w_kick"}
    /\ \A i \in Slots \ {s} : pc'[i] = pc[i]
    /\ UNCHANGED <<active, nextMsgNum, resetState, hasMessages, maxMsgNum, maxRead, kick>>

LEMMA StepKeepsFlags ==
    ASSUME TypeOK, ThreadInv, NEW s \in Slots,
           \/ \E rels \in Sends : AtEOXact_Inval(s, rels)
           \/ LocalAction(s)
           \/ InsertLock(s) \/ CatchupLock(s)
           \/ InsertSignal(s) \/ CatchupSignal(s)
           \/ WriteEntries(s)
           \/ NothingToRead(s)
    PROVE  FlagsKept(s)
<1>1. pc \in [Slots -> Pcs]
    BY DEF TypeOK
<1> USE DEF Goto, FlagsKept, procStateVars, segVars, readerVars, writerVars
<1>2. CASE \E rels \in Sends : AtEOXact_Inval(s, rels)
    BY <1>1, <1>2 DEF AtEOXact_Inval
<1>3. CASE LocalAction(s)
    <2>1. Aloof(s)
        BY <1>3, LocalActionsAreAloof
    <2> QED
        BY <1>1, <2>1 DEF Aloof, Quiet
<1>4. CASE InsertLock(s) \/ CatchupLock(s)
    BY <1>1, <1>4 DEF InsertLock, CatchupLock, AcquireWriteLock
<1>5. CASE InsertSignal(s) \/ CatchupSignal(s)
    BY <1>1, <1>5 DEF InsertSignal, CatchupSignal, SendCatchupSignal, Caller
<1>6. CASE WriteEntries(s)
    <2>1. /\ pc[s] = "w_check" /\ pc' = [pc EXCEPT ![s] = "w_max"]
          /\ UNCHANGED <<active, nextMsgNum, resetState, hasMessages, maxMsgNum, maxRead, kick>>
        BY <1>6, Zenon DEF WriteEntries
    <2> QED
        BY <1>1, <2>1
<1>7. CASE NothingToRead(s)
    BY <1>1, <1>7 DEF NothingToRead
<1> QED
    BY <1>2, <1>3, <1>4, <1>5, <1>6, <1>7, Zenon

LEMMA KeptFlags ==
    ASSUME FlagsInv, NEW s \in Slots, FlagsKept(s)
    PROVE  FlagsInv'
<1>1. Receivers' = Receivers /\ Receivers \subseteq Slots
    BY DEF FlagsKept, Receivers
<1>2. \A i \in Slots : Kicked(i) => Kicked(i)'
    BY Zenon DEF FlagsKept, Kicked
<1>3. \A i \in Slots : /\ pc'[i] \notin Reading => pc[i] \notin Reading
                       /\ pc'[i] = "r_get" => pc[i] = "r_get"
    BY DEF FlagsKept, Reading
<1>4. UNCHANGED <<nextMsgNum, resetState, maxMsgNum, maxRead>>
    BY DEF FlagsKept
<1> QED
    BY <1>1, <1>2, <1>3, <1>4, Zenon DEF FlagsInv

LEMMA AttachFlags ==
    ASSUME TypeOK, SlotsInv, NumbersInv, FlagsInv, NEW s \in Slots, Attach(s)
    PROVE  FlagsInv'
<1>1. /\ pc \in [Slots -> Pcs] /\ active \in [Slots -> BOOLEAN]
      /\ nextMsgNum \in [Slots -> MsgNums] /\ resetState \in [Slots -> BOOLEAN]
      /\ hasMessages \in [Slots -> BOOLEAN] /\ maxMsgNum \in Nat
    BY NumberFacts DEF TypeOK
<1>2. /\ active' = [active EXCEPT ![s] = TRUE]
      /\ nextMsgNum' = [nextMsgNum EXCEPT ![s] = maxMsgNum]
      /\ resetState' = [resetState EXCEPT ![s] = FALSE]
      /\ hasMessages' = [hasMessages EXCEPT ![s] = FALSE]
      /\ pc' = [pc EXCEPT ![s] = "idle"] /\ pc[s] = "off"
      /\ UNCHANGED <<maxMsgNum, maxRead, kick>>
    BY AttachEffect DEF Occupy, Goto, segVars, writerVars, readerVars
<1>3. ASSUME NEW i \in Receivers', i # s
      PROVE  /\ i \in Receivers /\ i \in Slots
             /\ pc'[i] = pc[i] /\ nextMsgNum'[i] = nextMsgNum[i]
             /\ resetState'[i] = resetState[i] /\ hasMessages'[i] = hasMessages[i]
    BY <1>1, <1>2, <1>3 DEF Receivers
<1>4. ASSUME NEW i \in Slots, i # s, Kicked(i), hasMessages'[i] = hasMessages[i]
      PROVE  Kicked(i)'
    <2>1. \A w \in Slots : pc[w] = "w_kick" => pc'[w] = "w_kick" /\ kick'[w] = kick[w]
        BY <1>1, <1>2
    <2> QED
        BY <1>4, <2>1, Zenon DEF Kicked
<1>5. resetState'[s] = FALSE /\ ~(nextMsgNum'[s] < maxMsgNum') /\ pc'[s] # "r_get"
    BY <1>1, <1>2
<1> QED
    BY <1>2, <1>3, <1>4, <1>5, Zenon DEF FlagsInv

LEMMA DetachFlags ==
    ASSUME TypeOK, SlotsInv, FlagsInv, NEW s \in Slots, Detach(s)
    PROVE  FlagsInv'
<1>1. /\ pc \in [Slots -> Pcs] /\ active \in [Slots -> BOOLEAN]
      /\ nextMsgNum \in [Slots -> MsgNums] /\ resetState \in [Slots -> BOOLEAN]
    BY DEF TypeOK
<1>2. /\ active' = [active EXCEPT ![s] = FALSE]
      /\ nextMsgNum' = [nextMsgNum EXCEPT ![s] = 0]
      /\ resetState' = [resetState EXCEPT ![s] = FALSE]
      /\ pc' = [pc EXCEPT ![s] = "off"] /\ pc[s] = "idle"
      /\ UNCHANGED <<maxMsgNum, maxRead, kick, hasMessages>>
    BY DetachEffect DEF Vacate, Goto, segVars, readerVars
<1>3. ASSUME NEW i \in Receivers'
      PROVE  /\ i \in Receivers /\ i \in Slots
             /\ pc'[i] = pc[i] /\ nextMsgNum'[i] = nextMsgNum[i]
             /\ resetState'[i] = resetState[i]
    BY <1>1, <1>2 DEF Receivers
<1>4. ASSUME NEW i \in Slots, Kicked(i) PROVE Kicked(i)'
    <2>1. \A w \in Slots : pc[w] = "w_kick" => pc'[w] = "w_kick" /\ kick'[w] = kick[w]
        BY <1>1, <1>2
    <2> QED
        BY <1>2, <1>4, <2>1, Zenon DEF Kicked
<1> QED
    BY <1>2, <1>3, <1>4, Zenon DEF FlagsInv

\* Who is put into reset state had messages, and no writer is at work.
LEMMA CleanupFlags ==
    ASSUME TypeOK, LocksInv, SlotsInv, NumbersInv, FlagsInv, NEW s \in Slots,
           pc[s] \in {"w_check", "c_clean"},
           NEW minFree \in 0 .. MAXNUMMESSAGES,
           NEW done \in {"w_check", "idle", "r_inval"},
           SICleanupQueue(s, minFree, done)
    PROVE  FlagsInv'
<1>1. /\ pc \in [Slots -> Pcs] /\ readers = {}
      /\ \E l \in {"w_check", "idle", "r_inval", "w_signal", "c_signal"} :
            pc' = [pc EXCEPT ![s] = l]
      /\ UNCHANGED <<active, hasMessages, kick>>
    BY Zenon DEF SICleanupQueue, Goto, TypeOK
<1>2. PICK shift \in Nat : CleanedBy(shift)
    BY CleanupEffect, Sizes
<1>3. Receivers' = Receivers /\ Receivers \subseteq Slots
    BY <1>1 DEF Receivers
<1>4. \A i \in Slots : pc[i] \notin Reading /\ pc'[i] # "r_get"
    BY <1>1 DEF LocksInv, Reading
<1>5. \A i \in Slots : Kicked(i) => Kicked(i)'
    <2>1. \A i \in Slots : pc[i] # "w_kick"
        BY OneWriter DEF Writing
    <2> QED
        BY <1>1, <2>1, Zenon DEF Kicked
<1>6. ASSUME NEW i \in Receivers, resetState'[i] PROVE Kicked(i)
    <2>1. CASE resetState[i]
        BY <1>3, <1>4, <2>1, Zenon DEF FlagsInv
    <2>2. CASE ~resetState[i]
        <3>1. maxMsgNum - nextMsgNum[i] + minFree > MAXNUMMESSAGES
            BY <1>6, <2>2, CleanupEffect, Zenon
        <3>2. nextMsgNum[i] < maxMsgNum
            BY <1>3, <3>1, NumberFacts, Sizes
        <3> QED
            BY <1>3, <1>4, <3>2, Zenon DEF FlagsInv
    <2> QED
        BY <2>1, <2>2
<1>7. ASSUME NEW i \in Receivers, ~resetState'[i], nextMsgNum'[i] < maxMsgNum'
      PROVE  Kicked(i)
    <2>1. nextMsgNum'[i] = nextMsgNum[i] - shift /\ maxMsgNum' = maxMsgNum - shift
        BY <1>2, <1>7, Zenon DEF CleanedBy
    <2>2. nextMsgNum[i] < maxMsgNum
        BY <1>3, <1>7, <2>1, NumberFacts
    <2> QED
        BY <1>3, <1>4, <2>2, Zenon DEF FlagsInv
<1> QED
    BY <1>3, <1>4, <1>5, <1>6, <1>7, Zenon DEF FlagsInv

\* The writer goes through everybody before it lets go of the lock.
LEMMA WriterFlags ==
    ASSUME TypeOK, LocksInv, SlotsInv, ThreadInv, FlagsInv, NEW s \in Slots,
           PublishMax(s) \/ Kick(s) \/ InsertUnlock(s)
    PROVE  FlagsInv'
<1>1. /\ pc \in [Slots -> Pcs] /\ kick \in [Slots -> 0 .. maxBackends]
      /\ hasMessages \in [Slots -> BOOLEAN]
      /\ lastBackend \in 0 .. maxBackends /\ maxBackends \in Nat
      /\ Slots = 0 .. maxBackends - 1
    BY Sizes DEF TypeOK
<1>2. /\ UNCHANGED <<active, nextMsgNum, resetState, maxRead>>
      /\ pc[s] \in {"w_max", "w_kick"}
      /\ \E l \in {"w_kick", "idle", "w_lock"} : pc' = [pc EXCEPT ![s] = l]
    <2>1. CASE PublishMax(s)
        BY <2>1, Zenon DEF PublishMax, procStateVars, readerVars, Goto
    <2>2. CASE Kick(s)
        BY <1>1, <2>2 DEF Kick, readerVars
    <2>3. CASE InsertUnlock(s)
        BY <2>3 DEF InsertUnlock, procStateVars, readerVars, Goto
    <2> QED
        BY <2>1, <2>2, <2>3
<1>3. Receivers' = Receivers /\ Receivers \subseteq Slots
    BY <1>2 DEF Receivers
<1>4. \A i \in Slots : /\ pc'[i] \notin Reading => pc[i] \notin Reading
                       /\ pc'[i] = "r_get" => pc[i] = "r_get"
    BY <1>1, <1>2 DEF Reading
<1>5. CASE PublishMax(s)
    <2>1. kick'[s] = 0 /\ pc'[s] = "w_kick"
        BY <1>1, <1>5 DEF PublishMax, Goto, ThreadInv, ThreadOK
    <2>2. \A i \in Slots : 0 <= i
        BY <1>1
    <2>3. \A i \in Slots : Kicked(i)'
        BY <2>1, <2>2, Zenon DEF Kicked
    <2> QED
        BY <1>3, <2>3, Zenon DEF FlagsInv
<1>6. ASSUME Kick(s) \/ InsertUnlock(s), NEW i \in Receivers, Kicked(i)
      PROVE  Kicked(i)'
    <2>1. i \in Nat /\ active[i] /\ i < lastBackend /\ i \in Slots
        BY <1>1, <1>3 DEF Receivers, SlotsInv
    <2>2. ASSUME NEW w \in Slots, pc[w] = "w_kick" PROVE w = s
        BY <1>2, <2>2, OneWriter DEF Writing
    <2>3. CASE Kick(s)
        <3>1. /\ pc' = pc /\ pc[s] = "w_kick" /\ kick[s] < lastBackend
              /\ kick' = [kick EXCEPT ![s] = @ + 1]
              /\ hasMessages' = [hasMessages EXCEPT ![kick[s]] = @ \/ active[kick[s]]]
            BY <2>3 DEF Kick
        <3>2. hasMessages[i] => hasMessages'[i]
            BY <1>1, <2>1, <3>1, Zenon
        <3>3. CASE hasMessages[i]
            BY <3>2, <3>3 DEF Kicked
        <3>4. CASE kick[s] = i
            <4>1. hasMessages'[i]
                BY <1>1, <2>1, <3>1, <3>4, Zenon
            <4> QED
                BY <4>1 DEF Kicked
        <3>5. CASE kick[s] < i
            <4>1. kick'[s] <= i
                BY <1>1, <2>1, <3>1, <3>5
            <4> QED
                BY <3>1, <4>1 DEF Kicked
        <3>6. hasMessages[i] \/ kick[s] <= i
            BY <1>6, <2>2, Zenon DEF Kicked
        <3>7. kick[s] \in Int
            BY <1>1
        <3> QED
            BY <2>1, <3>3, <3>4, <3>5, <3>6, <3>7
    <2>4. CASE InsertUnlock(s)
        <3>1. kick[s] = lastBackend /\ hasMessages' = hasMessages
            BY <2>4 DEF InsertUnlock, procStateVars
        <3>2. ~(kick[s] <= i)
            BY <1>1, <2>1, <3>1
        <3>3. hasMessages[i]
            BY <1>6, <2>2, <3>2, Zenon DEF Kicked
        <3> QED
            BY <3>1, <3>3 DEF Kicked
    <2> QED
        BY <1>6, <2>3, <2>4
<1>7. CASE Kick(s) \/ InsertUnlock(s)
    <2>1. maxMsgNum' = maxMsgNum
        BY <1>7 DEF Kick, InsertUnlock, segVars
    <2> QED
        BY <1>2, <1>3, <1>4, <1>6, <1>7, <2>1, Zenon DEF FlagsInv
<1> QED
    BY <1>5, <1>7

\* What a writer published after maxMsgNum was read it also announces after that.
LEMMA ReaderFlags ==
    ASSUME TypeOK, SlotsInv, NumbersInv, ThreadInv, FlagsInv, NEW s \in Slots,
           ReadLock(s) \/ ReadMax(s) \/ GetReset(s) \/ GetEntries(s)
    PROVE  FlagsInv'
<1>1. /\ pc \in [Slots -> Pcs] /\ maxRead \in [Slots -> MsgNums]
      /\ nextMsgNum \in [Slots -> MsgNums] /\ resetState \in [Slots -> BOOLEAN]
      /\ hasMessages \in [Slots -> BOOLEAN]
    BY DEF TypeOK
<1>2. /\ UNCHANGED <<active, maxMsgNum, kick>>
      /\ pc[s] \in {"r_test", "r_max", "r_get"}
      /\ \E l \in {"r_max", "r_get", "r_inval", "r_loop"} : pc' = [pc EXCEPT ![s] = l]
    <2>1. CASE ReadLock(s)
        BY <2>1 DEF ReadLock, segVars, writerVars, Goto
    <2>2. CASE ReadMax(s)
        BY <2>2 DEF ReadMax, procStateVars, segVars, writerVars, Goto
    <2>3. CASE GetReset(s)
        BY <2>3 DEF GetReset, segVars, writerVars, Goto
    <2>4. CASE GetEntries(s)
        BY <2>4, GetEntriesEffect
    <2> QED
        BY <2>1, <2>2, <2>3, <2>4
<1>3. \A i \in Slots \ {s} : /\ pc'[i] = pc[i] /\ nextMsgNum'[i] = nextMsgNum[i]
                             /\ resetState'[i] = resetState[i]
                             /\ hasMessages'[i] = hasMessages[i]
                             /\ maxRead'[i] = maxRead[i]
    <2>1. CASE ReadLock(s)
        BY <1>1, <2>1 DEF ReadLock, readerVars, Goto
    <2>2. CASE ReadMax(s)
        BY <1>1, <2>2 DEF ReadMax, procStateVars, Goto
    <2>3. CASE GetReset(s)
        BY <1>1, <2>3 DEF GetReset, Goto
    <2>4. CASE GetEntries(s)
        <3>1. /\ nextMsgNum' = [nextMsgNum EXCEPT ![s] = @ + nRead(s)]
              /\ hasMessages' = [hasMessages EXCEPT ![s] =
                    @ \/ ~(nextMsgNum[s] + nRead(s) >= maxRead[s])]
              /\ pc' = [pc EXCEPT ![s] = "r_loop"]
              /\ maxRead' = [maxRead EXCEPT ![s] = 0]
              /\ resetState' = resetState
            BY <2>4, GetEntriesEffect, Zenon
        <3> QED
            BY <1>1, <3>1, Zenon
    <2> QED
        BY <2>1, <2>2, <2>3, <2>4
<1>4. Receivers' = Receivers /\ Receivers \subseteq Slots
    BY <1>2 DEF Receivers
<1>5. \A i \in Slots : \A w \in Slots :
         pc[w] = "w_kick" /\ kick[w] <= i => pc'[w] = "w_kick" /\ kick'[w] <= i
    BY <1>1, <1>2
<1>6. ASSUME NEW i \in Receivers, i # s
      PROVE  /\ pc'[i] \notin Reading /\ (resetState'[i] \/ nextMsgNum'[i] < maxMsgNum')
                => Kicked(i)'
             /\ pc'[i] = "r_get" /\ maxRead'[i] < maxMsgNum' => Kicked(i)'
    <2>1. Kicked(i) => Kicked(i)'
        BY <1>3, <1>4, <1>5, <1>6, Zenon DEF Kicked
    <2> QED
        BY <1>2, <1>3, <1>4, <1>6, <2>1, Zenon DEF FlagsInv
<1>7. ASSUME s \in Receivers
      PROVE  /\ pc'[s] \notin Reading /\ (resetState'[s] \/ nextMsgNum'[s] < maxMsgNum')
                => Kicked(s)'
             /\ pc'[s] = "r_get" /\ maxRead'[s] < maxMsgNum' => Kicked(s)'
    <2>1. CASE ReadLock(s)
        <3>1. pc'[s] = "r_max"
            BY <1>1, <2>1 DEF ReadLock, Goto
        <3> QED
            BY <3>1 DEF Reading
    <2>2. CASE ReadMax(s)
        <3>1. pc'[s] = "r_get" /\ maxRead'[s] = maxMsgNum'
            BY <1>1, <1>2, <2>2 DEF ReadMax, Goto
        <3>2. ~(maxRead'[s] < maxMsgNum')
            BY <1>2, <3>1, NumberFacts
        <3> QED
            BY <3>1, <3>2 DEF Reading
    <2>3. CASE GetReset(s)
        <3>1. /\ pc[s] = "r_get" /\ pc'[s] = "r_inval" /\ ~resetState'[s]
              /\ nextMsgNum'[s] = maxRead[s] /\ hasMessages' = hasMessages
            BY <1>1, <2>3 DEF GetReset, Goto
        <3>2. maxRead[s] < maxMsgNum => Kicked(s)
            BY <1>7, <3>1, Zenon DEF FlagsInv
        <3>3. Kicked(s) => Kicked(s)'
            BY <1>5, <3>1, Zenon DEF Kicked
        <3> QED
            BY <1>2, <3>1, <3>2, <3>3
    <2>4. CASE GetEntries(s)
        <3> DEFINE n == nRead(s)
        <3>1. /\ nextMsgNum' = [nextMsgNum EXCEPT ![s] = @ + n]
              /\ hasMessages' = [hasMessages EXCEPT ![s] =
                    @ \/ ~(nextMsgNum[s] + n >= maxRead[s])]
              /\ pc' = [pc EXCEPT ![s] = "r_loop"] /\ pc[s] = "r_get"
              /\ nextMsgNum[s] + n <= maxRead[s] /\ n \in 0 .. MAXINVALMSGS
              /\ resetState' = resetState /\ ~resetState[s]
            BY <2>4, GetEntriesEffect, Zenon
        <3>2. /\ hasMessages'[s] <=> hasMessages[s] \/ ~(nextMsgNum[s] + n >= maxRead[s])
              /\ nextMsgNum'[s] = nextMsgNum[s] + n /\ pc'[s] = "r_loop"
              /\ ~resetState'[s]
            BY <1>1, <3>1, Zenon
        <3>3. maxRead[s] < maxMsgNum => Kicked(s)
            BY <1>7, <3>1, Zenon DEF FlagsInv
        <3>4. Kicked(s) => Kicked(s)'
            BY <1>5, <3>2, Zenon DEF Kicked
        <3> HIDE DEF n
        <3>5. nextMsgNum[s] + n >= maxRead[s] => nextMsgNum'[s] = maxRead[s]
            BY <3>1, <3>2, NumberFacts, Sizes
        <3>6. ASSUME nextMsgNum'[s] < maxMsgNum' PROVE Kicked(s)'
            <4>1. CASE nextMsgNum[s] + n >= maxRead[s]
                <5>1. maxRead[s] < maxMsgNum
                    BY <1>2, <3>5, <3>6, <4>1
                <5> QED
                    BY <3>3, <3>4, <5>1
            <4>2. CASE ~(nextMsgNum[s] + n >= maxRead[s])
                BY <3>2, <4>2, Zenon DEF Kicked
            <4> QED
                BY <4>1, <4>2
        <3> QED
            BY <3>2, <3>6
    <2> QED
        BY <2>1, <2>2, <2>3, <2>4
<1> QED
    BY <1>4, <1>6, <1>7, Zenon DEF FlagsInv

LEMMA FlagsStep ==
    ASSUME IInv, NEW s \in Slots, Step(s)
    PROVE  FlagsInv'
<1>1. TypeOK /\ LocksInv /\ SlotsInv /\ NumbersInv /\ ThreadInv /\ FlagsInv
    BY DEF IInv
<1>2. CASE Attach(s)
    BY <1>1, <1>2, AttachFlags
<1>3. CASE Detach(s)
    BY <1>1, <1>3, DetachFlags
<1>4. CASE FlagsKept(s)
    BY <1>1, <1>4, KeptFlags
<1>5. CASE ReceiveReset(s) \/ ReadLock(s) \/ ReadMax(s) \/ GetEntries(s)
    BY <1>1, <1>5, ReaderFlags DEF ReceiveReset
<1>6. CASE PublishMax(s) \/ Kick(s) \/ InsertUnlock(s)
    BY <1>1, <1>6, WriterFlags
<1>7. CASE InsertCleanup(s)
    <2>1. nthistime(s) \in 0 .. MAXNUMMESSAGES
        BY <1>1, RoomForBatch
    <2> QED
        BY <1>1, <1>7, <2>1, CleanupFlags DEF InsertCleanup
<1>8. CASE CatchupCleanup(s)
    <2>1. 0 \in 0 .. MAXNUMMESSAGES /\ Caller(s) \in {"w_check", "idle", "r_inval"}
        BY Sizes DEF Caller
    <2> QED
        BY <1>1, <1>8, <2>1, CleanupFlags DEF CatchupCleanup
<1> QED
    BY <1>1, <1>2, <1>3, <1>4, <1>5, <1>6, <1>7, <1>8, StepKeepsFlags,
       Zenon DEF Step, QueueAction

-----------------------------------------------------------------------------
(* What a thread keeps to itself                                           *)

\* The other threads are left alone.
OthersKept(s) ==
    \A i \in Slots \ {s} :
       /\ pc'[i] = pc[i] /\ left'[i] = left[i] /\ kick'[i] = kick[i]
       /\ stack'[i] = stack[i] /\ messages'[i] = messages[i]
       /\ pc[i] = "w_kick" => lastBackend' = lastBackend
       /\ pc[i] = "off" => stale'[i] = stale[i]

LEMMA OthersStayOK ==
    ASSUME ThreadInv, NEW s \in Slots, OthersKept(s), NEW i \in Slots \ {s}
    PROVE  ThreadOK(i)'
    BY DEF ThreadInv, ThreadOK, OthersKept, Top

LEMMA StepKeepsOthers ==
    ASSUME IInv, NEW s \in Slots, Step(s)
    PROVE  OthersKept(s)
<1>1. /\ pc \in [Slots -> Pcs] /\ left \in [Slots -> Seq(Rels)]
      /\ kick \in [Slots -> 0 .. maxBackends] /\ stack \in [Slots -> Seq(Frames)]
      /\ messages \in [Slots -> Seq(Rels)] /\ stale \in [Slots -> SUBSET Rels]
    BY DEF IInv, TypeOK
<1>2. TypeOK /\ LocksInv /\ SlotsInv /\ NumbersInv /\ ThreadInv
    BY DEF IInv
<1>3. writeLock = NoSlot => \A i \in Slots : pc[i] # "w_kick"
    BY <1>2, NullAssumption DEF LocksInv, Writing
<1> USE DEF OthersKept, Goto
<1>4. CASE Attach(s)
    <2>1. Occupy(s) /\ writeLock = NoSlot /\ UNCHANGED <<stack, stale>>
        BY <1>2, <1>4, AttachEffect DEF Attach, histVars
    <2> QED
        BY <1>1, <1>3, <2>1 DEF Occupy, writerVars, readerVars
<1>5. CASE Detach(s)
    <2>1. Vacate(s) /\ stale' = [stale EXCEPT ![s] = {}] /\ stack' = stack
        BY <1>2, <1>5, DetachEffect DEF Detach
    <2> QED
        BY <1>1, <1>3, <2>1 DEF Vacate, readerVars
<1>6. CASE \E rels \in Sends : AtEOXact_Inval(s, rels)
    <2>1. PICK rels \in Sends : AtEOXact_Inval(s, rels)
        BY <1>6
    <2>2. \A t \in Slots : pc[t] = "off" => stale'[t] = stale[t]
        BY <1>2, <2>1 DEF AtEOXact_Inval, SlotsInv
    <2>3. /\ pc' = [pc EXCEPT ![s] = "w_lock"] /\ left' = [left EXCEPT ![s] = rels]
          /\ UNCHANGED <<kick, stack, messages, lastBackend>>
        BY <2>1 DEF AtEOXact_Inval, slotVars, readerVars
    <2> QED
        BY <1>1, <2>2, <2>3
<1>7. CASE LocalAction(s)
    <2>1. Aloof(s)
        BY <1>2, <1>7, LocalActionsAreAloof
    <2>2. \A i \in Slots \ {s} : /\ stack'[i] = stack[i] /\ messages'[i] = messages[i]
                                 /\ stale'[i] = stale[i]
        <3> USE DEF cacheVars, histVars, Push
        <3>1. CASE AcceptInvalidationMessages(s)
            BY <1>1, <3>1 DEF AcceptInvalidationMessages
        <3>2. CASE SkipPending(s)
            BY <1>1, <3>2 DEF SkipPending
        <3>3. CASE ProcessPending(s)
            BY <1>1, <3>3 DEF ProcessPending
        <3>4. CASE NonePending(s)
            BY <1>1, <3>4 DEF NonePending
        <3>5. CASE ProcessNext(s)
            BY <1>1, <3>5 DEF ProcessNext
        <3>6. CASE LoopEnd(s)
            BY <1>1, <3>6 DEF LoopEnd
        <3>7. CASE Recurse(s)
            BY <1>1, <3>7, Zenon DEF Recurse
        <3>8. CASE Rebuild(s)
            BY <1>1, <3>8 DEF Rebuild
        <3>9. CASE ReceiveEnd(s)
            BY <1>1, <3>9 DEF ReceiveEnd
        <3>10. CASE CatchupComplete(s)
            BY <1>1, <3>10 DEF CatchupComplete
        <3> QED
            BY <1>7, <3>1, <3>2, <3>3, <3>4, <3>5, <3>6, <3>7, <3>8, <3>9, <3>10
               DEF LocalAction
    <2> QED
        BY <1>1, <2>1, <2>2 DEF Aloof
<1>8. CASE ReceiveReset(s)
    BY <1>1, <1>8 DEF ReceiveReset, GetReset, Push, writerVars, slotVars, histVars
<1>9. CASE QueueAction(s) /\ UNCHANGED cacheVars
    <2>1. UNCHANGED <<stack, stale>> /\ StaysAttached(s)
        BY <1>2, <1>9, StepStaysAttached DEF cacheVars, histVars
    <2>2. \A i \in Slots \ {s} : /\ left'[i] = left[i] /\ kick'[i] = kick[i]
                                 /\ messages'[i] = messages[i]
        <3> USE DEF writerVars, readerVars
        <3>1. CASE InsertLock(s) \/ CatchupLock(s)
            BY <3>1 DEF InsertLock, CatchupLock, AcquireWriteLock
        <3>2. CASE InsertCleanup(s) \/ CatchupCleanup(s)
            BY <3>2, Zenon DEF InsertCleanup, CatchupCleanup, SICleanupQueue
        <3>3. CASE InsertSignal(s) \/ CatchupSignal(s)
            BY <3>3 DEF InsertSignal, CatchupSignal, SendCatchupSignal
        <3>4. CASE WriteEntries(s)
            BY <3>4, Zenon DEF WriteEntries
        <3>5. CASE PublishMax(s)
            BY <1>1, <3>5, Zenon DEF PublishMax
        <3>6. CASE Kick(s) \/ InsertUnlock(s)
            BY <1>1, <3>6 DEF Kick, InsertUnlock
        <3>7. CASE NothingToRead(s) \/ ReadLock(s) \/ ReadMax(s)
            BY <3>7 DEF NothingToRead, ReadLock, ReadMax
        <3>8. CASE GetEntries(s)
            <4>1. /\ messages' = [messages EXCEPT ![s] = [k \in 1 .. nRead(s) |->
                                     At(nextMsgNum[s] + k - 1)]]
                  /\ left' = left /\ kick' = kick
                BY <1>2, <3>8, GetEntriesEffect, Zenon
            <4> QED
                BY <1>1, <4>1, Zenon
        <3> QED
            BY <1>9, <3>1, <3>2, <3>3, <3>4, <3>5, <3>6, <3>7, <3>8 DEF QueueAction
    <2> QED
        BY <1>1, <2>1, <2>2 DEF StaysAttached
<1> QED
    BY <1>4, <1>5, <1>6, <1>7, <1>8, <1>9 DEF Step

LEMMA Appended ==
    ASSUME NEW q \in Seq(Frames), NEW f \in Frames
    PROVE  /\ Append(q, f) \in Seq(Frames) /\ Len(Append(q, f)) = Len(q) + 1
           /\ Append(q, f) # <<>>
           /\ Append(q, f)[Len(q) + 1] = f
           /\ \A i \in 1 .. Len(q) : Append(q, f)[i] = q[i]
<1>1. /\ Append(q, f) \in Seq(Frames) /\ Len(Append(q, f)) = Len(q) + 1
      /\ Append(q, f)[Len(q) + 1] = f
      /\ \A i \in 1 .. Len(q) : Append(q, f)[i] = q[i]
    BY AppendProperties
<1>2. Append(q, f) # <<>>
    <2>1. Len(q) \in Nat
        OBVIOUS
    <2>2. Len(Append(q, f)) # 0
        BY <1>1, <2>1
    <2>3. Len(<<>>) = 0
        OBVIOUS
    <2> QED
        BY <2>2, <2>3, Zenon
<1> QED
    BY <1>1, <1>2

\* A message that is taken up becomes the frame on top.
LEMMA PushMessage ==
    ASSUME TypeOK, NEW s \in Slots, ProcessPending(s) \/ ProcessNext(s)
    PROVE  \E f \in Frames :
              /\ f.at \in {"pending", "loop"} /\ f.rel = Head(messages[s])
              /\ stack' = [stack EXCEPT ![s] = Append(@, f)]
              /\ stack'[s] = Append(stack[s], f)
              /\ Head(messages[s]) \in Rels
              /\ messages'[s] = Tail(messages[s])
<1>1. /\ stack \in [Slots -> Seq(Frames)] /\ messages \in [Slots -> Seq(Rels)]
      /\ messages[s] \in Seq(Rels)
    BY DEF TypeOK
<1>2. messages[s] # <<>> /\ messages'[s] = Tail(messages[s])
    BY <1>1 DEF ProcessPending, ProcessNext
<1>3. Head(messages[s]) \in Rels
    BY <1>1, <1>2
<1> DEFINE f(from) == [at |-> from, rel |-> Head(messages[s]), nested |-> FALSE]
<1>4. \E from \in {"pending", "loop"} : stack' = [stack EXCEPT ![s] = Append(@, f(from))]
    BY Zenon DEF ProcessPending, ProcessNext, Push
<1>5. PICK from \in {"pending", "loop"} : stack' = [stack EXCEPT ![s] = Append(@, f(from))]
    BY <1>4
<1>6. f(from) \in Frames /\ f(from).at = from /\ f(from).rel = Head(messages[s])
    BY <1>3 DEF Frames
<1> HIDE DEF f
<1>7. stack'[s] = Append(stack[s], f(from))
    BY <1>1, <1>5
<1> QED
    BY <1>2, <1>3, <1>5, <1>6, <1>7

LEMMA ThreadStep ==
    ASSUME IInv, NEW s \in Slots, Step(s)
    PROVE  ThreadInv'
<1>1. /\ pc \in [Slots -> Pcs] /\ left \in [Slots -> Seq(Rels)]
      /\ kick \in [Slots -> 0 .. maxBackends] /\ stack \in [Slots -> Seq(Frames)]
      /\ messages \in [Slots -> Seq(Rels)] /\ stale \in [Slots -> SUBSET Rels]
      /\ lastBackend \in Nat /\ MaxDepth \in Nat \ {0}
    <2>1. /\ pc \in [Slots -> Pcs] /\ left \in [Slots -> Seq(Rels)]
          /\ kick \in [Slots -> 0 .. maxBackends] /\ stack \in [Slots -> Seq(Frames)]
          /\ messages \in [Slots -> Seq(Rels)] /\ stale \in [Slots -> SUBSET Rels]
          /\ lastBackend \in 0 .. maxBackends
        BY Zenon DEF IInv, TypeOK
    <2>2. lastBackend \in Nat /\ MaxDepth \in Nat \ {0}
        BY <2>1, Sizes, BoundAssumption
    <2> QED
        BY <2>1, <2>2, Zenon
<1>2. TypeOK /\ LocksInv /\ SlotsInv /\ NumbersInv /\ ThreadInv /\ ThreadOK(s)
    BY DEF IInv, ThreadInv
<1>3. Len(stack[s]) \in Nat /\ (stack[s] = <<>> => Len(stack[s]) = 0)
    BY <1>1
<1> SUFFICES ThreadOK(s)'
    BY <1>2, StepKeepsOthers, OthersStayOK, Zenon DEF ThreadInv
<1> USE DEF Goto, Sending, Receiving
<1>4. CASE Attach(s)
    <2>1. Occupy(s) /\ pc[s] = "off" /\ UNCHANGED <<stack, stale>>
        BY <1>2, <1>4, AttachEffect DEF Attach, histVars
    <2>2. pc'[s] = "idle" /\ UNCHANGED <<left, stack, messages, kick>>
        BY <1>1, <2>1 DEF Occupy, writerVars, readerVars
    <2> QED
        BY <1>2, <2>1, <2>2 DEF ThreadOK
<1>5. CASE Detach(s)
    <2>1. Vacate(s) /\ stale'[s] = {} /\ stack' = stack
        BY <1>1, <1>2, <1>5, DetachEffect DEF Detach
    <2>2. pc[s] = "idle" /\ pc'[s] = "off" /\ UNCHANGED <<left, stack, messages, kick>>
        BY <1>1, <2>1 DEF Vacate, readerVars
    <2> QED
        BY <1>2, <2>1, <2>2 DEF ThreadOK
<1>6. CASE \E rels \in Sends : AtEOXact_Inval(s, rels)
    <2>1. pc[s] = "idle" /\ pc'[s] = "w_lock" /\ UNCHANGED <<kick, stack, messages>>
        BY <1>1, <1>6 DEF AtEOXact_Inval, readerVars
    <2> QED
        BY <1>2, <2>1 DEF ThreadOK
<1>7. CASE LocalAction(s)
    <2>1. Aloof(s)
        BY <1>2, <1>7, LocalActionsAreAloof
    <2>2. /\ left' = left /\ kick' = kick /\ lastBackend' = lastBackend
          /\ pc[s] \in Quiet /\ pc'[s] \in Quiet
        BY <2>1 DEF Aloof
    <2> USE DEF Quiet, LocalStep, ThreadOK
    <2>3. CASE AcceptInvalidationMessages(s)
        BY <1>1, <1>2, <2>2, <2>3 DEF AcceptInvalidationMessages
    <2>4. CASE SkipPending(s)
        BY <1>1, <1>2, <2>2, <2>4 DEF SkipPending
    <2>5. CASE ProcessPending(s) \/ ProcessNext(s)
        <3>1. PICK f \in Frames : f.at \in {"pending", "loop"} /\ stack'[s] = Append(stack[s], f)
            BY <1>2, <2>5, PushMessage
        <3>2. pc[s] \in {"r_pending", "r_loop"} /\ pc'[s] = "r_inval"
            BY <1>1, <2>5 DEF ProcessPending, ProcessNext
        <3>3. stack[s] \in Seq(Frames)
            BY <1>1
        <3>4. /\ stack'[s] # <<>> /\ Len(stack'[s]) = Len(stack[s]) + 1
              /\ stack'[s][Len(stack[s]) + 1] = f
            BY <3>1, <3>3, Appended
        <3>5. Top(s)' = f
            BY <3>4, Zenon DEF Top
        <3> QED
            BY <1>2, <2>2, <3>1, <3>2, <3>4, <3>5
    <2>6. CASE NonePending(s)
        BY <1>1, <1>2, <2>2, <2>6 DEF NonePending, cacheVars, histVars
    <2>7. CASE LoopEnd(s)
        BY <1>1, <1>2, <2>2, <2>7 DEF LoopEnd, cacheVars, histVars
    <2>8. CASE Recurse(s)
        <3>1. pc[s] = "r_inval" /\ pc'[s] = "r_pending" /\ Len(stack[s]) < MaxDepth
            BY <1>1, <2>8 DEF Recurse
        <3>2. stack'[s] = [stack[s] EXCEPT ![Len(stack[s])].nested = TRUE]
            BY <1>1, <2>8, Zenon DEF Recurse
        <3>3. Len(stack'[s]) = Len(stack[s])
            BY <1>1, <3>2
        <3> QED
            BY <1>2, <2>2, <3>1, <3>3
    <2>9. CASE Rebuild(s)
        <3>1. /\ pc[s] = "r_inval" /\ messages' = messages
              /\ pc'[s] = CASE Top(s).at = "pending" -> "r_pending"
                            [] Top(s).at = "loop" -> "r_loop"
                            [] Top(s).at = "reset" -> "r_end"
              /\ stack'[s] = SubSeq(stack[s], 1, Len(stack[s]) - 1)
            BY <1>1, <2>9 DEF Rebuild
        <3>2. /\ Len(stack[s]) \in Nat \ {0} /\ Len(stack[s]) <= MaxDepth
              /\ Top(s).at \in {"pending", "loop", "reset"}
            BY <1>2, <3>1, TopIsFrame
        <3>3. Len(stack'[s]) < MaxDepth
            BY <1>1, <3>1, <3>2
        <3> QED
            BY <1>2, <2>2, <3>1, <3>2, <3>3
    <2>10. CASE ReceiveEnd(s)
        BY <1>1, <1>2, <2>2, <2>10 DEF ReceiveEnd, Caller, cacheVars, histVars
    <2>11. CASE CatchupComplete(s)
        BY <1>1, <1>2, <2>2, <2>11 DEF CatchupComplete, cacheVars, histVars
    <2> QED
        BY <1>7, <2>3, <2>4, <2>5, <2>6, <2>7, <2>8, <2>9, <2>10, <2>11 DEF LocalAction
<1>8. CASE ReceiveReset(s)
    <2>1. /\ pc[s] = "r_get" /\ pc'[s] = "r_inval"
          /\ stack'[s] = Append(stack[s], [at |-> "reset", rel |-> NoMsg, nested |-> FALSE])
          /\ UNCHANGED <<left, messages, kick>>
        BY <1>1, <1>8 DEF ReceiveReset, GetReset, Push, writerVars
    <2>2. stack'[s] # <<>>
        <3>1. [at |-> "reset", rel |-> NoMsg, nested |-> FALSE] \in Frames
            BY DEF Frames
        <3>2. stack[s] \in Seq(Frames)
            BY <1>1
        <3> QED
            BY <2>1, <3>1, <3>2, Appended
    <2> QED
        BY <1>2, <2>1, <2>2 DEF ThreadOK
<1>9. CASE QueueAction(s) /\ UNCHANGED cacheVars
    <2>1. UNCHANGED <<stack, stale, lastBackend>> /\ pc'[s] # "off"
        BY <1>2, <1>9, StepStaysAttached DEF cacheVars, histVars, StaysAttached
    <2> USE DEF writerVars, readerVars, ThreadOK
    <2>2. CASE InsertLock(s) \/ CatchupLock(s)
        BY <1>1, <1>2, <2>1, <2>2 DEF InsertLock, CatchupLock, AcquireWriteLock
    <2>3. CASE InsertCleanup(s)
        <3>1. /\ pc[s] = "w_check" /\ pc'[s] \in {"w_check", "w_signal"}
              /\ UNCHANGED <<left, kick, messages>>
            BY <1>1, <2>3, Zenon DEF InsertCleanup, SICleanupQueue
        <3> QED
            BY <1>2, <2>1, <3>1
    <2>4. CASE CatchupCleanup(s)
        <3>1. /\ pc[s] = "c_clean" /\ pc'[s] \in {Caller(s), "c_signal"}
              /\ UNCHANGED <<left, kick, messages>>
            <4>1. Caller(s) # "w_check"
                BY DEF Caller
            <4>2. pc[s] = "c_clean" /\ UNCHANGED <<left, kick, messages>>
                BY <2>4, Zenon DEF CatchupCleanup, SICleanupQueue
            <4>3. pc' = [pc EXCEPT ![s] = Caller(s)] \/ pc' = [pc EXCEPT ![s] = "c_signal"]
                BY <2>4, <4>1, Zenon DEF CatchupCleanup, SICleanupQueue
            <4> QED
                BY <1>1, <4>2, <4>3
        <3> QED
            BY <1>2, <2>1, <3>1 DEF Caller
    <2>5. CASE InsertSignal(s) \/ CatchupSignal(s)
        BY <1>1, <1>2, <2>1, <2>5 DEF InsertSignal, CatchupSignal, SendCatchupSignal, Caller
    <2>6. CASE WriteEntries(s)
        <3>1. /\ pc[s] = "w_check" /\ pc'[s] = "w_max"
              /\ UNCHANGED <<left, kick, messages>>
            BY <1>1, <2>6, Zenon DEF WriteEntries
        <3> QED
            BY <1>2, <2>1, <3>1
    <2>7. CASE PublishMax(s)
        <3>1. pc[s] = "w_max" /\ pc'[s] = "w_kick" /\ UNCHANGED <<kick, messages>>
            BY <1>1, <2>7 DEF PublishMax
        <3> QED
            BY <1>1, <1>2, <2>1, <3>1
    <2>8. CASE Kick(s)
        <3>1. /\ pc[s] = "w_kick" /\ pc' = pc /\ kick[s] < lastBackend
              /\ kick'[s] = kick[s] + 1 /\ UNCHANGED <<left, messages>>
            BY <1>1, <2>8 DEF Kick
        <3>2. kick'[s] <= lastBackend
            BY <1>1, <3>1
        <3> QED
            BY <1>2, <2>1, <3>1, <3>2
    <2>9. CASE InsertUnlock(s)
        BY <1>1, <1>2, <2>1, <2>9 DEF InsertUnlock
    <2>10. CASE NothingToRead(s) \/ ReadLock(s) \/ ReadMax(s)
        BY <1>1, <1>2, <2>1, <2>10 DEF NothingToRead, ReadLock, ReadMax
    <2>11. CASE GetEntries(s)
        <3>1. /\ pc[s] = "r_get" /\ pc' = [pc EXCEPT ![s] = "r_loop"]
              /\ UNCHANGED <<left, kick>>
            BY <1>2, <2>11, GetEntriesEffect
        <3>2. pc'[s] = "r_loop"
            BY <1>1, <3>1
        <3> QED
            BY <1>2, <2>1, <3>1, <3>2
    <2> QED
        BY <1>9, <2>2, <2>3, <2>4, <2>5, <2>6, <2>7, <2>8, <2>9, <2>10, <2>11
           DEF QueueAction
<1> QED
    BY <1>4, <1>5, <1>6, <1>7, <1>8, <1>9 DEF Step

-----------------------------------------------------------------------------
(* What is on its way                                                      *)

\* For i nothing is taken away.
NothingLost(i) ==
    /\ \A r \in Rels : ToBeSent(r, i) => Announced(r, i)'
    /\ \A r \in Rels : InQueue(r, i) => Announced(r, i)'
    /\ \A r \in Rels : InHand(r, i) => Announced(r, i)' \/ r \notin stale'[i] \/ r \in skipped'[i]
    /\ resetState[i] => resetState'[i]

LEMMA StillAnnounced ==
    ASSUME TypeOK, AnnouncedInv, NEW i \in Receivers, NothingLost(i),
           stale'[i] \subseteq stale[i],
           \A r \in skipped[i] : r \in skipped'[i] \/ r \notin stale'[i]
    PROVE  \A r \in stale'[i] : Announced(r, i)' \/ r \in skipped'[i]
<1>1. stale[i] \subseteq Rels
    BY DEF TypeOK, Receivers
<1> TAKE r \in stale'[i]
<1>2. r \in Rels /\ r \in stale[i]
    BY <1>1
<1>3. Announced(r, i) \/ r \in skipped[i]
    BY <1>2, Zenon DEF AnnouncedInv
<1>4. CASE r \in skipped[i]
    BY <1>4
<1>5. CASE Announced(r, i)
    <2>1. resetState'[i] => Announced(r, i)'
        BY Zenon DEF Announced
    <2> QED
        BY <1>2, <1>5, <2>1, Zenon DEF Announced, NothingLost
<1> QED
    BY <1>3, <1>4, <1>5

\* A backend for which nothing at all changes.
Untouched(i) ==
    /\ nextMsgNum'[i] = nextMsgNum[i] /\ resetState'[i] = resetState[i]
    /\ messages'[i] = messages[i] /\ stack'[i] = stack[i]
    /\ stale'[i] = stale[i] /\ skipped'[i] = skipped[i]

LEMMA UntouchedAnnounced ==
    ASSUME AnnouncedInv, NEW i \in Receivers, Untouched(i),
           UNCHANGED <<maxMsgNum, buffer, left>>
    PROVE  \A r \in stale'[i] : Announced(r, i)' \/ r \in skipped'[i]
<1> TAKE r \in stale'[i]
<1>1. Announced(r, i) \/ r \in skipped[i]
    BY Zenon DEF AnnouncedInv, Untouched
<1>2. Announced(r, i) => Announced(r, i)'
    BY Zenon DEF Untouched, Announced, ToBeSent, InQueue, InHand, At
<1> QED
    BY <1>1, <1>2, Zenon DEF Untouched

LEMMA AttachAnnounced ==
    ASSUME IInv, NEW s \in Slots, Attach(s) \/ Detach(s)
    PROVE  AnnouncedInv'
<1>1. /\ active \in [Slots -> BOOLEAN] /\ nextMsgNum \in [Slots -> MsgNums]
      /\ resetState \in [Slots -> BOOLEAN] /\ stale \in [Slots -> SUBSET Rels]
      /\ skipped \in [Slots -> SUBSET Rels]
    BY DEF IInv, TypeOK
<1>2. /\ UNCHANGED <<maxMsgNum, buffer, left>>
      /\ \A i \in Slots \ {s} : active'[i] = active[i] /\ Untouched(i)
      /\ ~active'[s] \/ stale'[s] = {}
    <2>1. CASE Attach(s)
        <3>1. Occupy(s) /\ pc[s] = "off" /\ UNCHANGED <<stack, stale, skipped>>
            BY <2>1, AttachEffect DEF IInv, Attach, histVars
        <3>2. stale[s] = {}
            BY <3>1 DEF IInv, ThreadInv, ThreadOK
        <3> QED
            BY <1>1, <3>1, <3>2 DEF Occupy, Untouched, segVars, writerVars, readerVars
    <2>2. CASE Detach(s)
        <3>1. /\ Vacate(s) /\ stack' = stack
              /\ stale' = [stale EXCEPT ![s] = {}] /\ skipped' = [skipped EXCEPT ![s] = {}]
            BY <2>2, DetachEffect DEF IInv, Detach
        <3> QED
            BY <1>1, <3>1 DEF Vacate, Untouched, segVars, readerVars
    <2> QED
        BY <2>1, <2>2
<1>3. ASSUME NEW i \in Receivers'
      PROVE  \A r \in stale'[i] : Announced(r, i)' \/ r \in skipped'[i]
    <2>1. i \in Slots /\ active'[i] /\ i \notin SendOnly
        BY DEF Receivers
    <2>2. CASE i = s
        BY <1>2, <2>1, <2>2
    <2>3. CASE i # s
        <3>1. i \in Receivers /\ Untouched(i)
            BY <1>2, <2>1, <2>3 DEF Receivers
        <3> QED
            BY <1>2, <3>1, UntouchedAnnounced DEF IInv
    <2> QED
        BY <2>2, <2>3
<1> QED
    BY <1>3, Zenon DEF AnnouncedInv

\* The change to the catalog comes with its messages.
LEMMA CommitAnnounced ==
    ASSUME IInv, NEW s \in Slots, NEW rels \in Sends, AtEOXact_Inval(s, rels)
    PROVE  AnnouncedInv'
<1>1. /\ left \in [Slots -> Seq(Rels)] /\ stale \in [Slots -> SUBSET Rels]
      /\ rels \in Seq(Rels)
    BY BoundAssumption DEF IInv, TypeOK
<1>2. /\ left' = [left EXCEPT ![s] = rels]
      /\ stale' = [t \in Slots |->
            IF t # s /\ active[t] /\ t \notin SendOnly
            THEN stale[t] \cup {rels[i] : i \in DOMAIN rels} ELSE stale[t]]
      /\ UNCHANGED <<active, nextMsgNum, resetState, maxMsgNum, buffer, messages, stack,
                     skipped>>
      /\ pc[s] = "idle"
    BY DEF AtEOXact_Inval, procStateVars, segVars, readerVars
<1>3. left[s] = <<>>
    BY <1>2 DEF IInv, ThreadInv, ThreadOK, Sending
<1>4. left'[s] = rels /\ \A w \in Slots \ {s} : left'[w] = left[w]
    BY <1>1, <1>2
<1>5. ASSUME NEW i \in Receivers, NEW r \in stale'[i]
      PROVE  Announced(r, i)' \/ r \in skipped'[i]
    <2>1. i \in Slots /\ active[i] /\ i \notin SendOnly
        BY DEF Receivers
    <2>2. CASE r \in stale[i]
        <3>1. Announced(r, i) \/ r \in skipped[i]
            BY <2>2, Zenon DEF IInv, AnnouncedInv
        <3>2. ToBeSent(r, i) => ToBeSent(r, i)'
            <4>1. \A w \in Slots : \A k \in DOMAIN left[w] : left'[w] = left[w]
                BY <1>3, <1>4
            <4> QED
                BY <4>1, Zenon DEF ToBeSent
        <3>3. /\ InQueue(r, i) => InQueue(r, i)'
              /\ InHand(r, i) => InHand(r, i)'
              /\ resetState[i] => resetState'[i]
            BY <1>2, Zenon DEF InQueue, InHand, At
        <3> QED
            BY <1>2, <3>1, <3>2, <3>3, Zenon DEF Announced
    <2>3. CASE r \notin stale[i]
        <3>1. i # s /\ \E k \in DOMAIN rels : rels[k] = r
            BY <1>2, <2>1, <2>3
        <3>2. ToBeSent(r, i)'
            BY <1>4, <3>1, Zenon DEF ToBeSent
        <3> QED
            BY <3>2, Zenon DEF Announced
    <2> QED
        BY <2>2, <2>3
<1>6. Receivers' = Receivers
    BY <1>2 DEF Receivers
<1> QED
    BY <1>5, <1>6, Zenon DEF AnnouncedInv

LEMMA TailKeeps ==
    ASSUME NEW q \in Seq(Rels), q # <<>>, NEW k \in DOMAIN q
    PROVE  q[k] = Head(q) \/ \E j \in DOMAIN Tail(q) : Tail(q)[j] = q[k]
<1>1. Len(q) \in Nat \ {0} /\ k \in 1 .. Len(q)
    OBVIOUS
<1>2. CASE k = 1
    BY <1>2
<1>3. CASE k # 1
    <2>1. k - 1 \in 1 .. Len(q) - 1
        BY <1>1, <1>3
    <2>2. k - 1 \in DOMAIN Tail(q) /\ Tail(q)[k - 1] = q[k]
        BY <1>1, <2>1
    <2> QED
        BY <2>2
<1> QED
    BY <1>2, <1>3

\* A backend that processes its messages.
LEMMA LocalAnnounced ==
    ASSUME IInv, NEW s \in Slots, LocalAction(s)
    PROVE  AnnouncedInv'
<1>1. /\ messages \in [Slots -> Seq(Rels)] /\ stack \in [Slots -> Seq(Frames)]
      /\ stale \in [Slots -> SUBSET Rels] /\ skipped \in [Slots -> SUBSET Rels]
      /\ messages[s] \in Seq(Rels) /\ stack[s] \in Seq(Frames)
      /\ Len(stack[s]) \in Nat /\ Len(messages[s]) \in Nat
    BY DEF IInv, TypeOK
<1>2. UNCHANGED <<active, nextMsgNum, resetState, maxMsgNum, buffer, left>>
    BY LocalActionsAreAloof DEF IInv, Aloof
<1>3. Receivers' = Receivers /\ Receivers \subseteq Slots
    BY <1>2 DEF Receivers
<1>4. \A r \in Rels : /\ ToBeSent(r, s) => Announced(r, s)'
                      /\ InQueue(r, s) => Announced(r, s)'
    BY <1>2, Zenon DEF Announced, ToBeSent, InQueue, At
<1>5. \A i \in Slots \ {s} : /\ messages'[i] = messages[i] /\ stack'[i] = stack[i]
                             /\ stale'[i] = stale[i] /\ skipped'[i] = skipped[i]
    <2> USE DEF cacheVars, histVars, Push
    <2>1. CASE AcceptInvalidationMessages(s) \/ NonePending(s) \/ LoopEnd(s)
        BY <1>1, <2>1 DEF AcceptInvalidationMessages, NonePending, LoopEnd
    <2>2. CASE SkipPending(s)
        BY <1>1, <2>2 DEF SkipPending
    <2>3. CASE ProcessPending(s) \/ ProcessNext(s)
        BY <1>1, <2>3 DEF ProcessPending, ProcessNext
    <2>4. CASE Recurse(s)
        BY <1>1, <2>4, Zenon DEF Recurse
    <2>5. CASE Rebuild(s)
        BY <1>1, <2>5 DEF Rebuild
    <2>6. CASE ReceiveEnd(s) \/ CatchupComplete(s)
        BY <1>1, <2>6 DEF ReceiveEnd, CatchupComplete
    <2> QED
        BY <2>1, <2>2, <2>3, <2>4, <2>5, <2>6 DEF LocalAction
<1>6. ASSUME NEW i \in Receivers, i # s
      PROVE  \A r \in stale'[i] : Announced(r, i)' \/ r \in skipped'[i]
    <2>1. Untouched(i)
        BY <1>2, <1>3, <1>5, <1>6 DEF Untouched
    <2> QED
        BY <1>2, <2>1, UntouchedAnnounced DEF IInv
<1>7. ASSUME s \in Receivers,
             stale'[s] \subseteq stale[s],
             \A r \in skipped[s] : r \in skipped'[s] \/ r \notin stale'[s],
             \A r \in Rels : InHand(r, s) =>
                Announced(r, s)' \/ r \notin stale'[s] \/ r \in skipped'[s]
      PROVE  \A r \in stale'[s] : Announced(r, s)' \/ r \in skipped'[s]
    <2>1. NothingLost(s)
        BY <1>2, <1>4, <1>7, Zenon DEF NothingLost
    <2> QED
        BY <1>7, <2>1, StillAnnounced DEF IInv
<1>8. ASSUME s \in Receivers
      PROVE  \A r \in stale'[s] : Announced(r, s)' \/ r \in skipped'[s]
    <2> USE DEF cacheVars, histVars
    <2>1. CASE \/ AcceptInvalidationMessages(s) \/ NonePending(s) \/ LoopEnd(s)
               \/ ReceiveEnd(s) \/ CatchupComplete(s)
        <3>1. UNCHANGED <<messages, stack, stale, skipped>>
            BY <2>1 DEF AcceptInvalidationMessages, NonePending, LoopEnd, ReceiveEnd,
                        CatchupComplete
        <3>2. Untouched(s)
            BY <1>2, <3>1 DEF Untouched
        <3> QED
            BY <1>2, <1>8, <3>2, UntouchedAnnounced DEF IInv
    <2>2. CASE SkipPending(s)
        <3>1. /\ messages[s] # <<>> /\ messages'[s] = Tail(messages[s])
              /\ skipped'[s] = skipped[s] \cup {Head(messages[s])}
              /\ UNCHANGED <<stack, stale>>
            BY <1>1, <2>2 DEF SkipPending
        <3>2. ASSUME NEW k \in DOMAIN messages[s]
              PROVE  \/ messages[s][k] = Head(messages[s])
                     \/ \E j \in DOMAIN messages'[s] : messages'[s][j] = messages[s][k]
            BY <1>1, <3>1, TailKeeps
        <3>3. ASSUME NEW r \in Rels, InHand(r, s) PROVE Announced(r, s)' \/ r \in skipped'[s]
            BY <3>1, <3>2, <3>3, Zenon DEF InHand, Announced
        <3> QED
            BY <1>7, <1>8, <3>1, <3>3
    <2>3. CASE ProcessPending(s) \/ ProcessNext(s)
        <3>1. /\ messages[s] # <<>> /\ UNCHANGED <<stale, skipped>>
            BY <2>3 DEF ProcessPending, ProcessNext
        <3>2. PICK f \in Frames : /\ f.rel = Head(messages[s])
                                  /\ stack'[s] = Append(stack[s], f)
                                  /\ messages'[s] = Tail(messages[s])
            BY <2>3, PushMessage DEF IInv
        <3>3. /\ Len(stack'[s]) = Len(stack[s]) + 1 /\ stack'[s] \in Seq(Frames)
              /\ stack'[s][Len(stack[s]) + 1] = f
              /\ \A k \in 1 .. Len(stack[s]) : stack'[s][k] = stack[s][k]
            BY <1>1, <3>2, Appended
        <3>4. /\ \A k \in DOMAIN stack[s] : k \in DOMAIN stack'[s] /\ stack'[s][k] = stack[s][k]
              /\ \E k \in DOMAIN stack'[s] : stack'[s][k].rel = Head(messages[s])
            <4>1. DOMAIN stack[s] = 1 .. Len(stack[s]) /\ DOMAIN stack'[s] = 1 .. Len(stack[s]) + 1
                BY <1>1, <3>3
            <4>2. Len(stack[s]) + 1 \in DOMAIN stack'[s]
                BY <1>1, <4>1
            <4>3. \A k \in DOMAIN stack[s] : k \in DOMAIN stack'[s]
                BY <1>1, <4>1
            <4> QED
                BY <3>2, <3>3, <4>1, <4>2, <4>3, Zenon
        <3>5. ASSUME NEW k \in DOMAIN messages[s]
              PROVE  \/ messages[s][k] = Head(messages[s])
                     \/ \E j \in DOMAIN messages'[s] : messages'[s][j] = messages[s][k]
            BY <1>1, <3>1, <3>2, TailKeeps
        <3>6. ASSUME NEW r \in Rels, InHand(r, s) PROVE Announced(r, s)'
            BY <3>4, <3>5, <3>6, Zenon DEF InHand, Announced
        <3> QED
            BY <1>7, <1>8, <3>1, <3>6
    <2>4. CASE Recurse(s)
        <3>1. UNCHANGED <<messages, stale, skipped>> /\ pc[s] = "r_inval"
            BY <2>4 DEF Recurse
        <3>2. stack'[s] = [stack[s] EXCEPT ![Len(stack[s])].nested = TRUE]
            BY <1>1, <2>4, Zenon DEF Recurse
        <3>3. DOMAIN stack'[s] = DOMAIN stack[s]
            BY <3>2
        <3>4. ASSUME NEW k \in DOMAIN stack[s]
              PROVE  stack'[s][k].rel = stack[s][k].rel /\ stack'[s][k].at = stack[s][k].at
            <4>1. stack[s][k] \in Frames
                BY <1>1
            <4>2. CASE k # Len(stack[s])
                BY <3>2, <4>2
            <4>3. CASE k = Len(stack[s])
                <5>1. stack'[s][k] = [stack[s][k] EXCEPT !.nested = TRUE]
                    BY <3>2, <4>3
                <5> QED
                    BY <4>1, <5>1 DEF Frames
            <4> QED
                BY <4>2, <4>3
        <3>5. ASSUME NEW r \in Rels, InHand(r, s) PROVE Announced(r, s)'
            BY <3>1, <3>3, <3>4, <3>5, Zenon DEF InHand, Announced
        <3> QED
            BY <1>7, <1>8, <3>1, <3>5
    <2>5. CASE Rebuild(s)
        <3> DEFINE fresh == IF Top(s).at = "reset" THEN Rels ELSE {Top(s).rel}
        <3>1. /\ pc[s] = "r_inval" /\ messages' = messages
              /\ stale'[s] = stale[s] \ fresh /\ skipped'[s] = skipped[s] \ fresh
              /\ stack'[s] = SubSeq(stack[s], 1, Len(stack[s]) - 1)
            BY <1>1, <2>5 DEF Rebuild
        <3>2. Len(stack[s]) \in Nat \ {0} /\ stale[s] \subseteq Rels /\ stale'[s] \subseteq stale[s]
            BY <1>1, <3>1, TopIsFrame DEF IInv
        <3>3. ASSUME NEW k \in DOMAIN stack[s], k # Len(stack[s])
              PROVE  k \in DOMAIN stack'[s] /\ stack'[s][k] = stack[s][k]
            BY <1>1, <3>1, <3>2, <3>3
        <3>4. ASSUME NEW k \in DOMAIN stack[s], k = Len(stack[s]), NEW r \in stale'[s]
              PROVE  stack[s][k].rel # r /\ stack[s][k].at # "reset"
            <4>1. stack[s][k] = Top(s)
                BY <3>4 DEF Top
            <4> QED
                BY <3>1, <3>2, <3>4, <4>1
        <3>5. ASSUME NEW r \in Rels, InHand(r, s)
              PROVE  Announced(r, s)' \/ r \notin stale'[s]
            <4> SUFFICES ASSUME r \in stale'[s] PROVE InHand(r, s)'
                BY Zenon DEF Announced
            <4>1. CASE \E i \in DOMAIN messages[s] : messages[s][i] = r
                BY <3>1, <4>1, Zenon DEF InHand
            <4>2. CASE \E i \in DOMAIN stack[s] : stack[s][i].rel = r \/ stack[s][i].at = "reset"
                BY <3>3, <3>4, <4>2, Zenon DEF InHand
            <4> QED
                BY <3>5, <4>1, <4>2, Zenon DEF InHand
        <3>6. \A r \in skipped[s] : r \in skipped'[s] \/ r \notin stale'[s]
            BY <3>1
        <3> QED
            BY <1>7, <1>8, <3>2, <3>5, <3>6
    <2> QED
        BY <2>1, <2>2, <2>3, <2>4, <2>5 DEF LocalAction
<1> QED
    BY <1>3, <1>6, <1>8, Zenon DEF AnnouncedInv

\* The steps on the queue that leave the positions, the messages and the senders.
LEMMA QuietAnnounced ==
    ASSUME IInv, NEW s \in Slots, UNCHANGED cacheVars,
           \/ InsertLock(s) \/ CatchupLock(s)
           \/ InsertSignal(s) \/ CatchupSignal(s)
           \/ Kick(s) \/ InsertUnlock(s)
           \/ NothingToRead(s) \/ ReadLock(s) \/ ReadMax(s)
    PROVE  AnnouncedInv'
<1>1. UNCHANGED <<active, nextMsgNum, resetState, maxMsgNum, buffer, left, messages>>
    BY DEF InsertLock, CatchupLock, AcquireWriteLock, InsertSignal, CatchupSignal,
           SendCatchupSignal, Kick, InsertUnlock, NothingToRead, ReadLock, ReadMax,
           procStateVars, segVars, writerVars, readerVars
<1>2. UNCHANGED <<stack, stale, skipped>>
    BY DEF cacheVars, histVars
<1>3. Receivers' = Receivers /\ \A i \in Receivers : Untouched(i)
    BY <1>1, <1>2 DEF Receivers, Untouched
<1> QED
    BY <1>1, <1>3, UntouchedAnnounced, Zenon DEF IInv, AnnouncedInv

\* A reset is pending before as well as after it is noticed.
LEMMA ResetAnnounced ==
    ASSUME IInv, NEW s \in Slots, ReceiveReset(s)
    PROVE  AnnouncedInv'
<1>1. /\ nextMsgNum \in [Slots -> MsgNums] /\ resetState \in [Slots -> BOOLEAN]
      /\ stack \in [Slots -> Seq(Frames)] /\ stack[s] \in Seq(Frames)
      /\ Len(stack[s]) \in Nat
    <2>1. /\ nextMsgNum \in [Slots -> MsgNums] /\ resetState \in [Slots -> BOOLEAN]
          /\ stack \in [Slots -> Seq(Frames)]
        BY Zenon DEF IInv, TypeOK
    <2>2. stack[s] \in Seq(Frames) /\ Len(stack[s]) \in Nat
        BY <2>1
    <2> QED
        BY <2>1, <2>2, Zenon
<1> DEFINE f == [at |-> "reset", rel |-> NoMsg, nested |-> FALSE]
<1>2. /\ UNCHANGED <<active, maxMsgNum, buffer, left, messages, stale, skipped>>
      /\ nextMsgNum' = [nextMsgNum EXCEPT ![s] = maxRead[s]]
      /\ resetState' = [resetState EXCEPT ![s] = FALSE]
      /\ stack' = [stack EXCEPT ![s] = Append(@, f)]
    BY DEF ReceiveReset, GetReset, Push, segVars, writerVars, histVars
<1>3. \A i \in Slots \ {s} : Untouched(i)
    BY <1>1, <1>2 DEF Untouched
<1>4. Receivers' = Receivers /\ Receivers \subseteq Slots
    BY <1>2 DEF Receivers
<1>5. \A r : Announced(r, s)'
    <2>1. f \in Frames /\ f.at = "reset"
        BY DEF Frames
    <2> HIDE DEF f
    <2>2. stack'[s] = Append(stack[s], f)
        BY <1>1, <1>2
    <2>3. /\ Len(stack'[s]) = Len(stack[s]) + 1 /\ stack'[s] \in Seq(Frames)
          /\ stack'[s][Len(stack[s]) + 1] = f
        BY <1>1, <2>1, <2>2, Appended
    <2>4. Len(stack[s]) + 1 \in DOMAIN stack'[s]
        BY <1>1, <2>3
    <2> QED
        BY <2>1, <2>3, <2>4, Zenon DEF Announced, InHand
<1>6. \A i \in Receivers : \A r \in stale'[i] : Announced(r, i)' \/ r \in skipped'[i]
    BY <1>2, <1>3, <1>4, <1>5, UntouchedAnnounced, Zenon DEF IInv
<1> QED
    BY <1>4, <1>6, Zenon DEF AnnouncedInv

\* The messages that are read come into hand.
LEMMA ReadAnnounced ==
    ASSUME IInv, NEW s \in Slots, GetEntries(s), UNCHANGED cacheVars
    PROVE  AnnouncedInv'
<1> DEFINE n == nRead(s)
<1>1. /\ nextMsgNum \in [Slots -> MsgNums] /\ messages \in [Slots -> Seq(Rels)]
      /\ nextMsgNum[s] \in Nat /\ maxMsgNum \in Nat
    BY NumberFacts DEF IInv, TypeOK
<1>2. /\ UNCHANGED <<active, resetState, maxMsgNum, buffer, left, stack, stale, skipped>>
      /\ nextMsgNum' = [nextMsgNum EXCEPT ![s] = @ + n]
      /\ messages' = [messages EXCEPT ![s] =
                         [k \in 1 .. n |-> At(nextMsgNum[s] + k - 1)]]
      /\ pc[s] = "r_get" /\ n \in 0 .. MAXINVALMSGS
    BY GetEntriesEffect, Zenon DEF IInv, cacheVars, histVars
<1>3. \A i \in Slots \ {s} : Untouched(i)
    BY <1>1, <1>2, Zenon DEF Untouched
<1>4. Receivers' = Receivers /\ Receivers \subseteq Slots
    BY <1>2 DEF Receivers
<1>5. messages[s] = <<>>
    BY <1>2 DEF IInv, ThreadInv, ThreadOK
<1>6. n \in Nat
    <2> HIDE DEF n
    <2> QED
        BY <1>2, Sizes
<1> HIDE DEF n
<1>7. ASSUME NEW r, InQueue(r, s) PROVE Announced(r, s)'
    <2>1. PICK x \in Int : nextMsgNum[s] <= x /\ x < maxMsgNum /\ At(x) = r
        BY <1>7, Zenon DEF InQueue
    <2>2. CASE x < nextMsgNum[s] + n
        <3> DEFINE k == x - nextMsgNum[s] + 1
        <3>1. k \in 1 .. n /\ nextMsgNum[s] + k - 1 = x
            BY <1>1, <1>6, <2>1, <2>2
        <3>2. messages'[s] = [j \in 1 .. n |-> At(nextMsgNum[s] + j - 1)]
            BY <1>1, <1>2, Zenon
        <3> HIDE DEF k
        <3>3. k \in DOMAIN messages'[s] /\ messages'[s][k] = At(x)
            BY <3>1, <3>2, Zenon
        <3> QED
            BY <2>1, <3>3, Zenon DEF Announced, InHand
    <2>3. CASE ~(x < nextMsgNum[s] + n)
        <3>1. nextMsgNum'[s] = nextMsgNum[s] + n
            BY <1>1, <1>2, Zenon
        <3>2. nextMsgNum'[s] <= x
            BY <1>1, <1>6, <2>3, <3>1
        <3> QED
            BY <1>2, <2>1, <3>2, Zenon DEF Announced, InQueue, At
    <2> QED
        BY <2>2, <2>3
<1>8. ASSUME s \in Receivers
      PROVE  \A r \in stale'[s] : Announced(r, s)' \/ r \in skipped'[s]
    <2>1. \A r \in Rels : /\ ToBeSent(r, s) => Announced(r, s)'
                          /\ InHand(r, s) => Announced(r, s)'
        <3>1. \A r : ToBeSent(r, s) => Announced(r, s)'
            BY <1>2, Zenon DEF Announced, ToBeSent
        <3>2. DOMAIN messages[s] = {}
            BY <1>5
        <3>3. \A r : InHand(r, s) => Announced(r, s)'
            BY <1>2, <3>2, Zenon DEF Announced, InHand
        <3> QED
            BY <3>1, <3>3
    <2>2. NothingLost(s)
        BY <1>2, <1>7, <2>1, Zenon DEF NothingLost
    <2> QED
        BY <1>2, <1>8, <2>2, StillAnnounced DEF IInv
<1>9. \A i \in Receivers : \A r \in stale'[i] : Announced(r, i)' \/ r \in skipped'[i]
    BY <1>2, <1>3, <1>4, <1>8, UntouchedAnnounced, Zenon DEF IInv
<1> QED
    BY <1>4, <1>9, Zenon DEF AnnouncedInv

\* The messages of others stay where they are while new ones are written.
LEMMA WriteAnnounced ==
    ASSUME IInv, NEW s \in Slots, WriteEntries(s), UNCHANGED cacheVars
    PROVE  AnnouncedInv'
<1>1. /\ UNCHANGED <<active, nextMsgNum, resetState, maxMsgNum, left, messages>>
      /\ UNCHANGED <<stack, stale, skipped>>
    BY Zenon DEF WriteEntries, procStateVars, segVars, writerVars, readerVars, cacheVars,
                 histVars
<1>2. \A n \in minMsgNum .. maxMsgNum - 1 :
         buffer'[n % MAXNUMMESSAGES] = buffer[n % MAXNUMMESSAGES]
    BY WriteEntriesEffect DEF IInv
<1>3. Receivers' = Receivers /\ Receivers \subseteq Slots
    BY <1>1 DEF Receivers
<1>4. ASSUME NEW i \in Receivers
      PROVE  \A r \in stale'[i] : Announced(r, i)' \/ r \in skipped'[i]
    <2>1. ASSUME NEW r, InQueue(r, i), ~resetState[i] PROVE InQueue(r, i)'
        <3>1. PICK x \in Int : nextMsgNum[i] <= x /\ x < maxMsgNum /\ At(x) = r
            BY <2>1, Zenon DEF InQueue
        <3>2. nextMsgNum[i] \in minMsgNum .. maxMsgNum
            BY <2>1, Zenon DEF IInv, NumbersInv, PositionsInv
        <3>3. x \in minMsgNum .. maxMsgNum - 1
            BY <3>1, <3>2, NumberFacts DEF IInv
        <3>4. buffer'[x % MAXNUMMESSAGES] = r
            BY <1>2, <3>1, <3>3, Zenon DEF At
        <3> QED
            BY <1>1, <3>1, <3>4, Zenon DEF InQueue, At
    <2>2. \A r \in Rels : /\ ToBeSent(r, i) => Announced(r, i)'
                          /\ InHand(r, i) => Announced(r, i)'
                          /\ resetState[i] => Announced(r, i)'
        BY <1>1, Zenon DEF Announced, ToBeSent, InHand
    <2>3. NothingLost(i)
        BY <1>1, <2>1, <2>2, Zenon DEF NothingLost, Announced
    <2> QED
        BY <1>1, <2>3, StillAnnounced DEF IInv
<1> QED
    BY <1>3, <1>4, Zenon DEF AnnouncedInv

\* From the sender into the queue, for everybody who reads it.
LEMMA PublishAnnounced ==
    ASSUME IInv, NEW s \in Slots, PublishMax(s), UNCHANGED cacheVars
    PROVE  AnnouncedInv'
<1> DEFINE n == nthistime(s)
<1>1. /\ left \in [Slots -> Seq(Rels)] /\ left[s] \in Seq(Rels) /\ Len(left[s]) \in Nat
      /\ maxMsgNum \in Nat /\ n \in 0 .. Len(left[s])
      /\ \A i \in Slots : nextMsgNum[i] \in Nat
    <2>1. n \in 0 .. Len(left[s])
        BY Nthistime DEF IInv
    <2>2. left \in [Slots -> Seq(Rels)] /\ left[s] \in Seq(Rels) /\ Len(left[s]) \in Nat
        BY DEF IInv, TypeOK
    <2>3. maxMsgNum \in Nat /\ \A i \in Slots : nextMsgNum[i] \in Nat
        BY NumberFacts DEF IInv
    <2> QED
        BY <2>1, <2>2, <2>3
<1>2. /\ pc[s] = "w_max" /\ maxMsgNum' = maxMsgNum + n
      /\ left' = [left EXCEPT ![s] = SubSeq(@, n + 1, Len(@))]
      /\ UNCHANGED <<active, nextMsgNum, resetState, buffer, messages, stack, stale, skipped>>
    BY Zenon DEF PublishMax, procStateVars, readerVars, cacheVars, histVars
<1>3. \A k \in 1 .. n : At(maxMsgNum + k - 1) = left[s][k]
    BY <1>2, Zenon DEF IInv, NumbersInv, PendingInv
<1> HIDE DEF n
<1>4. /\ left'[s] = SubSeq(left[s], n + 1, Len(left[s]))
      /\ \A w \in Slots \ {s} : left'[w] = left[w]
    BY <1>1, <1>2
<1>5. Receivers' = Receivers /\ Receivers \subseteq Slots
    BY <1>2 DEF Receivers
<1>6. ASSUME NEW i \in Receivers
      PROVE  \A r \in stale'[i] : Announced(r, i)' \/ r \in skipped'[i]
    <2>0. i \in Slots /\ nextMsgNum[i] \in Nat
        BY <1>1, <1>5
    <2>1. ASSUME NEW r, InQueue(r, i) PROVE Announced(r, i)'
        <3>1. PICK x \in Int : nextMsgNum[i] <= x /\ x < maxMsgNum /\ At(x) = r
            BY <2>1, Zenon DEF InQueue
        <3>2. x < maxMsgNum'
            BY <1>1, <1>2, <3>1
        <3> QED
            BY <1>2, <3>1, <3>2, Zenon DEF Announced, InQueue, At
    <2>2. ASSUME NEW r, ToBeSent(r, i) PROVE Announced(r, i)'
        <3>1. PICK w \in Slots \ {i} : \E k \in DOMAIN left[w] : left[w][k] = r
            BY <2>2, Zenon DEF ToBeSent
        <3>2. CASE w # s
            BY <1>4, <3>1, <3>2, Zenon DEF Announced, ToBeSent
        <3>3. CASE w = s
            <4>1. PICK k \in 1 .. Len(left[s]) : left[s][k] = r
                BY <1>1, <3>1, <3>3
            <4>2. CASE k <= n
                <5>1. CASE resetState[i]
                    BY <1>2, <5>1, Zenon DEF Announced
                <5>2. CASE ~resetState[i]
                    <6> DEFINE x == maxMsgNum + k - 1
                    <6>1. nextMsgNum[i] \in minMsgNum .. maxMsgNum
                        BY <5>2, Zenon DEF IInv, NumbersInv, PositionsInv
                    <6>2. k \in 1 .. n
                        BY <1>1, <4>2
                    <6>3. x \in Int /\ nextMsgNum[i] <= x /\ x < maxMsgNum'
                        BY <1>1, <1>2, <2>0, <6>1, <6>2
                    <6>4. At(x) = r
                        BY <1>3, <4>1, <6>2, Zenon
                    <6> HIDE DEF x
                    <6> QED
                        BY <1>2, <6>3, <6>4, Zenon DEF Announced, InQueue, At
                <5> QED
                    BY <5>1, <5>2
            <4>3. CASE ~(k <= n)
                <5>1. k - n \in DOMAIN left'[s] /\ left'[s][k - n] = r
                    BY <1>1, <1>4, <4>1, <4>3
                <5> QED
                    BY <3>3, <5>1, Zenon DEF Announced, ToBeSent
            <4> QED
                BY <4>2, <4>3
        <3> QED
            BY <3>2, <3>3
    <2>3. \A r \in Rels : InHand(r, i) => Announced(r, i)'
        BY <1>2, Zenon DEF Announced, InHand
    <2>4. NothingLost(i)
        BY <1>2, <2>1, <2>2, <2>3, Zenon DEF NothingLost
    <2> QED
        BY <1>2, <2>4, StillAnnounced DEF IInv
<1> QED
    BY <1>5, <1>6, Zenon DEF AnnouncedInv

\* Who loses messages in the clean-up is in reset state.
LEMMA CleanupAnnounced ==
    ASSUME IInv, NEW s \in Slots, NEW minFree \in 0 .. MAXNUMMESSAGES, NEW done,
           SICleanupQueue(s, minFree, done), UNCHANGED cacheVars
    PROVE  AnnouncedInv'
<1>1. UNCHANGED <<active, buffer, left, messages, stack, stale, skipped>>
    BY Zenon DEF SICleanupQueue, readerVars, cacheVars, histVars
<1>2. PICK shift \in Nat : CleanedBy(shift) /\ shift \in {0, MSGNUMWRAPAROUND}
    BY CleanupEffect, Sizes DEF IInv
<1>3. Receivers' = Receivers /\ Receivers \subseteq Slots
    BY <1>1 DEF Receivers
<1>4. ASSUME NEW i \in Receivers
      PROVE  \A r \in stale'[i] : Announced(r, i)' \/ r \in skipped'[i]
    <2>1. ASSUME NEW r, InQueue(r, i), ~resetState'[i] PROVE InQueue(r, i)'
        <3>1. PICK x \in Int : nextMsgNum[i] <= x /\ x < maxMsgNum /\ At(x) = r
            BY <2>1, Zenon DEF InQueue
        <3>2. /\ nextMsgNum'[i] = nextMsgNum[i] - shift
              /\ maxMsgNum' = maxMsgNum - shift
            BY <1>2, <2>1, Zenon DEF CleanedBy
        <3>3. nextMsgNum[i] \in Nat /\ maxMsgNum \in Nat
            BY <1>3, NumberFacts DEF IInv
        <3>4. x - shift \in Int /\ nextMsgNum'[i] <= x - shift /\ x - shift < maxMsgNum'
            BY <3>1, <3>2, <3>3
        <3>5. At(x - shift) = r
            <4>1. CASE shift = 0
                BY <3>1, <4>1
            <4>2. CASE shift = MSGNUMWRAPAROUND
                BY <3>1, <4>2, AtShift, Zenon
            <4> QED
                BY <1>2, <4>1, <4>2
        <3> QED
            BY <1>1, <3>4, <3>5, Zenon DEF InQueue, At
    <2>2. \A r \in Rels : /\ ToBeSent(r, i) => Announced(r, i)'
                          /\ InHand(r, i) => Announced(r, i)'
                          /\ resetState'[i] => Announced(r, i)'
        BY <1>1, Zenon DEF Announced, ToBeSent, InHand
    <2>3. resetState[i] => resetState'[i]
        BY <1>2, Zenon DEF CleanedBy
    <2>4. NothingLost(i)
        BY <2>1, <2>2, <2>3, Zenon DEF NothingLost, Announced
    <2> QED
        BY <1>1, <2>4, StillAnnounced DEF IInv
<1> QED
    BY <1>3, <1>4, Zenon DEF AnnouncedInv

LEMMA AnnouncedStep ==
    ASSUME IInv, NEW s \in Slots, Step(s)
    PROVE  AnnouncedInv'
<1>1. CASE Attach(s) \/ Detach(s)
    BY <1>1, AttachAnnounced
<1>2. CASE \E rels \in Sends : AtEOXact_Inval(s, rels)
    BY <1>2, CommitAnnounced
<1>3. CASE LocalAction(s)
    BY <1>3, LocalAnnounced
<1>4. CASE ReceiveReset(s)
    BY <1>4, ResetAnnounced
<1>5. CASE QueueAction(s) /\ UNCHANGED cacheVars
    <2>1. CASE InsertCleanup(s) \/ CatchupCleanup(s)
        <3>1. nthistime(s) \in 0 .. MAXNUMMESSAGES /\ 0 \in 0 .. MAXNUMMESSAGES
            BY RoomForBatch, Sizes DEF IInv
        <3> QED
            BY <1>5, <2>1, <3>1, CleanupAnnounced DEF InsertCleanup, CatchupCleanup
    <2>2. CASE WriteEntries(s)
        BY <1>5, <2>2, WriteAnnounced
    <2>3. CASE PublishMax(s)
        BY <1>5, <2>3, PublishAnnounced
    <2>4. CASE GetEntries(s)
        BY <1>5, <2>4, ReadAnnounced
    <2> QED
        BY <1>5, <2>1, <2>2, <2>3, <2>4, QuietAnnounced, Zenon DEF QueueAction
<1> QED
    BY <1>1, <1>2, <1>3, <1>4, <1>5, Zenon DEF Step

-----------------------------------------------------------------------------
(* Types                                                                   *)

LEMMA MsgNumsAre ==
    /\ MsgNums \subseteq Nat /\ 0 \in MsgNums
    /\ \A x \in Nat : x <= MSGNUMWRAPAROUND + MAXNUMMESSAGES => x \in MsgNums
    BY Sizes DEF MsgNums

LEMMA AttachTypes ==
    ASSUME TypeOK, SlotsInv, NEW s \in Slots, Attach(s) \/ Detach(s)
    PROVE  TypeOK'
<1> USE DEF procStateVars, segVars, slotVars, writerVars, readerVars, histVars, Goto
<1>1. CASE Attach(s)
    <2>1. /\ Occupy(s) /\ rcData' = [rcData EXCEPT ![s] = {}] /\ UNCHANGED <<stack, histVars>>
          /\ lastBackend' \in 0 .. maxBackends
          /\ lastreserveBackend' \in 0 .. maxreserveBackends
        BY <1>1, AttachEffect DEF Attach
    <2> QED
        BY <2>1 DEF Occupy, TypeOK, Pcs
<1>2. CASE Detach(s)
    <2>1. /\ Vacate(s) /\ UNCHANGED <<stack, rcData>>
          /\ stale' = [stale EXCEPT ![s] = {}] /\ skipped' = [skipped EXCEPT ![s] = {}]
          /\ lastBackend' \in 0 .. maxBackends
          /\ lastreserveBackend' \in 0 .. maxreserveBackends
        BY <1>2, DetachEffect DEF Detach
    <2> QED
        BY <2>1, MsgNumsAre DEF Vacate, TypeOK, Pcs
<1> QED
    BY <1>1, <1>2

LEMMA CommitTypes ==
    ASSUME TypeOK, NEW s \in Slots, NEW rels \in Sends, AtEOXact_Inval(s, rels)
    PROVE  TypeOK'
<1>1. rels \in Seq(Rels)
    BY BoundAssumption
<1>2. {rels[i] : i \in DOMAIN rels} \subseteq Rels
    BY <1>1
<1>3. stale' \in [Slots -> SUBSET Rels]
    BY <1>2 DEF AtEOXact_Inval, TypeOK
<1> QED
    BY <1>1, <1>3 DEF AtEOXact_Inval, TypeOK, Pcs, Goto, procStateVars, segVars, slotVars,
                      readerVars

LEMMA LocalTypes ==
    ASSUME TypeOK, ThreadInv, NEW s \in Slots, LocalAction(s)
    PROVE  TypeOK'
<1>1. /\ messages \in [Slots -> Seq(Rels)] /\ nummsgs \in [Slots -> 0 .. MAXINVALMSGS]
      /\ \A i \in Slots : Len(messages[i]) <= MAXINVALMSGS
      /\ catchupInterruptPending \in [Slots -> BOOLEAN]
      /\ stack \in [Slots -> Seq(Frames)]
      /\ \A i \in Slots : Len(stack[i]) <= MaxDepth
      /\ rcData \in [Slots -> SUBSET Rels]
      /\ stale \in [Slots -> SUBSET Rels] /\ skipped \in [Slots -> SUBSET Rels]
      /\ messages[s] \in Seq(Rels) /\ stack[s] \in Seq(Frames)
      /\ Len(stack[s]) \in Nat /\ Len(messages[s]) \in Nat
      /\ MAXINVALMSGS \in Nat /\ MaxDepth \in Nat
    <2>1. /\ messages \in [Slots -> Seq(Rels)] /\ nummsgs \in [Slots -> 0 .. MAXINVALMSGS]
          /\ \A i \in Slots : Len(messages[i]) <= MAXINVALMSGS
          /\ catchupInterruptPending \in [Slots -> BOOLEAN]
          /\ stack \in [Slots -> Seq(Frames)]
          /\ \A i \in Slots : Len(stack[i]) <= MaxDepth
          /\ rcData \in [Slots -> SUBSET Rels]
          /\ stale \in [Slots -> SUBSET Rels] /\ skipped \in [Slots -> SUBSET Rels]
        BY Zenon DEF TypeOK
    <2>2. /\ messages[s] \in Seq(Rels) /\ stack[s] \in Seq(Frames)
          /\ Len(stack[s]) \in Nat /\ Len(messages[s]) \in Nat
        BY <2>1
    <2>3. MAXINVALMSGS \in Nat /\ MaxDepth \in Nat
        BY Sizes, BoundAssumption
    <2> QED
        BY <2>1, <2>2, <2>3, Zenon
<1>2. /\ messages' \in [Slots -> Seq(Rels)] /\ nummsgs' \in [Slots -> 0 .. MAXINVALMSGS]
      /\ \A i \in Slots : Len(messages'[i]) <= MAXINVALMSGS
      /\ catchupInterruptPending' \in [Slots -> BOOLEAN]
      /\ stack' \in [Slots -> Seq(Frames)]
      /\ \A i \in Slots : Len(stack'[i]) <= MaxDepth
      /\ rcData' \in [Slots -> SUBSET Rels]
      /\ stale' \in [Slots -> SUBSET Rels] /\ skipped' \in [Slots -> SUBSET Rels]
    <2> USE DEF cacheVars, histVars
    <2>1. CASE AcceptInvalidationMessages(s)
        BY <1>1, <2>1 DEF AcceptInvalidationMessages
    <2>2. CASE NonePending(s) \/ LoopEnd(s)
        <3>1. /\ nummsgs' = [nummsgs EXCEPT ![s] = 0]
              /\ UNCHANGED <<messages, catchupInterruptPending, stack, rcData, stale, skipped>>
            BY <2>2 DEF NonePending, LoopEnd
        <3> QED
            BY <1>1, <3>1
    <2>3. CASE ReceiveEnd(s) \/ CatchupComplete(s)
        BY <1>1, <2>3 DEF ReceiveEnd, CatchupComplete
    <2>4. CASE SkipPending(s)
        <3>1. /\ messages[s] # <<>> /\ messages' = [messages EXCEPT ![s] = Tail(@)]
              /\ skipped' = [skipped EXCEPT ![s] = @ \cup {Head(messages[s])}]
              /\ UNCHANGED <<nummsgs, catchupInterruptPending, stack, rcData, stale>>
            BY <2>4 DEF SkipPending
        <3>2. /\ Head(messages[s]) \in Rels /\ Tail(messages[s]) \in Seq(Rels)
              /\ Len(Tail(messages[s])) <= MAXINVALMSGS
            BY <1>1, <3>1
        <3> QED
            BY <1>1, <3>1, <3>2
    <2>5. CASE ProcessPending(s) \/ ProcessNext(s)
        <3>1. /\ messages[s] # <<>> /\ messages' = [messages EXCEPT ![s] = Tail(@)]
              /\ UNCHANGED <<nummsgs, catchupInterruptPending, stale, skipped>>
              /\ pc[s] # "r_inval"
            BY <2>5 DEF ProcessPending, ProcessNext
        <3>2. /\ Head(messages[s]) \in Rels /\ Tail(messages[s]) \in Seq(Rels)
              /\ Len(Tail(messages[s])) <= MAXINVALMSGS
            BY <1>1, <3>1
        <3>3. PICK f \in Frames : stack' = [stack EXCEPT ![s] = Append(@, f)]
            BY <2>5, PushMessage
        <3>4. Append(stack[s], f) \in Seq(Frames) /\ Len(Append(stack[s], f)) = Len(stack[s]) + 1
            BY <1>1, Appended
        <3>5. Len(stack[s]) < MaxDepth
            BY <3>1 DEF ThreadInv, ThreadOK
        <3>6. /\ stack' \in [Slots -> Seq(Frames)]
              /\ \A i \in Slots : Len(stack'[i]) <= MaxDepth
            BY <1>1, <3>3, <3>4, <3>5
        <3>7. rcData' \in [Slots -> SUBSET Rels]
            <4>1. CASE ProcessPending(s)
                <5> DEFINE d == (IF Cardinality(rcData[s]) >= RC_MAX_NUM THEN {} ELSE rcData[s])
                                   \cup {Head(messages[s])}
                <5>1. d \in SUBSET Rels
                    BY <1>1, <3>2
                <5>2. rcData' = [rcData EXCEPT ![s] = d]
                    BY <4>1, Zenon DEF ProcessPending
                <5> HIDE DEF d
                <5> QED
                    BY <1>1, <5>1, <5>2
            <4>2. CASE ProcessNext(s)
                BY <1>1, <4>2 DEF ProcessNext
            <4> QED
                BY <2>5, <4>1, <4>2
        <3> QED
            BY <1>1, <3>1, <3>2, <3>6, <3>7
    <2>6. CASE Recurse(s)
        <3>1. /\ UNCHANGED <<messages, nummsgs, catchupInterruptPending, rcData, stale, skipped>>
              /\ pc[s] = "r_inval"
            BY <2>6 DEF Recurse
        <3>2. stack' = [stack EXCEPT ![s] = [stack[s] EXCEPT ![Len(stack[s])] =
                           [stack[s][Len(stack[s])] EXCEPT !.nested = TRUE]]]
            BY <2>6, Zenon DEF Recurse
        <3> DEFINE f == [Top(s) EXCEPT !.nested = TRUE]
        <3>3. f \in Frames
            <4>1. Top(s) \in Frames
                BY <3>1, TopIsFrame
            <4> QED
                BY <4>1 DEF Frames
        <3>4. stack' = [stack EXCEPT ![s] = [stack[s] EXCEPT ![Len(stack[s])] = f]]
            BY <3>2, Zenon DEF Top
        <3> HIDE DEF f
        <3>5. /\ [stack[s] EXCEPT ![Len(stack[s])] = f] \in Seq(Frames)
              /\ Len([stack[s] EXCEPT ![Len(stack[s])] = f]) = Len(stack[s])
            <4>1. Len(stack[s]) \in 1 .. Len(stack[s])
                BY <3>1, TopIsFrame
            <4> QED
                BY <1>1, <3>3, <4>1, ExceptSeq
        <3> QED
            BY <1>1, <3>1, <3>4, <3>5
    <2>7. CASE Rebuild(s)
        <3>1. /\ UNCHANGED <<messages, nummsgs, catchupInterruptPending, rcData>>
              /\ pc[s] = "r_inval"
              /\ \E fresh : /\ stale' = [stale EXCEPT ![s] = @ \ fresh]
                            /\ skipped' = [skipped EXCEPT ![s] = @ \ fresh]
              /\ stack' = [stack EXCEPT ![s] = SubSeq(@, 1, Len(@) - 1)]
            BY <2>7, Zenon DEF Rebuild
        <3>2. Len(stack[s]) \in Nat \ {0}
            BY <3>1, TopIsFrame
        <3>3. /\ SubSeq(stack[s], 1, Len(stack[s]) - 1) \in Seq(Frames)
              /\ Len(SubSeq(stack[s], 1, Len(stack[s]) - 1)) <= MaxDepth
            BY <1>1, <3>2
        <3>4. stale' \in [Slots -> SUBSET Rels] /\ skipped' \in [Slots -> SUBSET Rels]
            BY <1>1, <3>1
        <3> QED
            BY <1>1, <3>1, <3>3, <3>4
    <2> QED
        BY <2>1, <2>2, <2>3, <2>4, <2>5, <2>6, <2>7 DEF LocalAction
<1>3. /\ UNCHANGED <<active, nextMsgNum, resetState, signaled, hasMessages, minMsgNum,
                     maxMsgNum, nextThreshold, lastBackend, lastreserveBackend, buffer,
                     writeLock, readers, left, kick, sigTo, maxRead>>
      /\ pc' \in [Slots -> Pcs]
    <2>1. Aloof(s)
        BY LocalActionsAreAloof
    <2>2. pc'[s] \in Pcs /\ pc' = [pc EXCEPT ![s] = pc'[s]]
        BY <2>1 DEF Aloof, Quiet, Pcs
    <2>3. pc' \in [Slots -> Pcs]
        BY <2>2 DEF TypeOK
    <2> QED
        BY <2>1, <2>3 DEF Aloof
<1> QED
    BY <1>2, <1>3 DEF TypeOK

LEMMA ResetTypes ==
    ASSUME TypeOK, ThreadInv, NEW s \in Slots, ReceiveReset(s)
    PROVE  TypeOK'
<1> DEFINE f == [at |-> "reset", rel |-> NoMsg, nested |-> FALSE]
<1>1. /\ stack \in [Slots -> Seq(Frames)] /\ stack[s] \in Seq(Frames) /\ f \in Frames
      /\ \A i \in Slots : Len(stack[i]) <= MaxDepth
      /\ Len(stack[s]) \in Nat /\ MaxDepth \in Nat
    <2>1. f \in Frames /\ MaxDepth \in Nat
        BY BoundAssumption DEF Frames
    <2>2. stack \in [Slots -> Seq(Frames)] /\ \A i \in Slots : Len(stack[i]) <= MaxDepth
        BY Zenon DEF TypeOK
    <2>3. stack[s] \in Seq(Frames) /\ Len(stack[s]) \in Nat
        BY <2>2
    <2> QED
        BY <2>1, <2>2, <2>3, Zenon
<1>2. /\ stack' = [stack EXCEPT ![s] = Append(@, f)] /\ pc[s] = "r_get"
      /\ UNCHANGED <<rcData, stale, skipped>>
    BY Zenon DEF ReceiveReset, GetReset, Push, histVars
<1> HIDE DEF f
<1>3. Append(stack[s], f) \in Seq(Frames) /\ Len(Append(stack[s], f)) = Len(stack[s]) + 1
    BY <1>1, Appended
<1>4. Len(stack[s]) < MaxDepth
    BY <1>2 DEF ThreadInv, ThreadOK
<1>5. stack' \in [Slots -> Seq(Frames)] /\ \A i \in Slots : Len(stack'[i]) <= MaxDepth
    BY <1>1, <1>2, <1>3, <1>4
<1> QED
    BY <1>2, <1>5, MsgNumsAre DEF ReceiveReset, GetReset, TypeOK, Pcs, Goto, segVars,
                                  slotVars, writerVars

\* Somebody is furthest back.
LEMMA FurthestBackIs ==
    ASSUME TypeOK, NEW S \in SUBSET Slots, S # {}
    PROVE  FurthestBack(S) \in S
<1> DEFINE ns == {nextMsgNum[i] : i \in S}
           back == {i \in S : \A j \in S : nextMsgNum[i] <= nextMsgNum[j]}
<1>0. \A i \in S : nextMsgNum[i] \in Nat
    BY MsgNumsAre DEF TypeOK
<1>1. ns \in SUBSET Nat /\ ns # {}
    BY <1>0, Zenon
<1>2. Min(ns) \in ns /\ \A n \in ns : Min(ns) <= n
    BY <1>1, MinIsLeast
<1>3. back # {}
    <2>1. PICK i \in S : Min(ns) = nextMsgNum[i]
        BY <1>2, Zenon
    <2>2. \A j \in S : nextMsgNum[j] \in ns
        BY Zenon
    <2>3. i \in back
        BY <1>2, <2>1, <2>2, Zenon
    <2> QED
        BY <2>3, Zenon
<1>4. back \in SUBSET Nat
    <2>1. \A i \in Slots : i \in Nat
        BY Sizes
    <2> QED
        BY <2>1, Zenon
<1>5. Min(back) \in back
    BY <1>3, <1>4, MinIsLeast, Zenon
<1> QED
    BY <1>5, Zenon DEF FurthestBack

LEMMA NumberBounds ==
    ASSUME NEW W \in Nat, NEW M \in Nat, NEW min \in Nat, NEW max \in Nat,
           min <= W, max <= min + M
    PROVE  /\ min <= W + M /\ max <= W + M
           /\ \A n \in Nat : n <= max => n <= W + M
    OBVIOUS

LEMMA CleanupTypes ==
    ASSUME TypeOK, SlotsInv, NumbersInv, NEW s \in Slots,
           NEW minFree \in 0 .. MAXNUMMESSAGES,
           NEW done \in {"w_check", "idle", "r_inval"},
           SICleanupQueue(s, minFree, done), UNCHANGED cacheVars
    PROVE  TypeOK'
<1> DEFINE reset == TooFarBack(minFree)
           rest == Following \ reset
           behind == Behind(rest)
<1>1. rest \subseteq Slots /\ reset \subseteq Slots /\ behind \subseteq Slots
    BY FollowingIs DEF Receivers, TooFarBack, Behind
<1>2. PICK shift \in Nat : CleanedBy(shift)
    BY CleanupEffect, Sizes
<1>3. nextThreshold' \in CLEANUP_MIN .. MAXNUMMESSAGES + CLEANUP_QUANTUM
    BY CleanupEffect
<1>4. /\ resetState' = [i \in Slots |-> resetState[i] \/ i \in reset]
      /\ DOMAIN nextMsgNum' = Slots /\ nextMsgNum' = [i \in Slots |-> nextMsgNum'[i]]
      /\ writeLock' = s \/ writeLock' = NoSlot
      /\ UNCHANGED <<active, hasMessages, lastBackend, lastreserveBackend, buffer, readers,
                     left, kick, maxRead, messages, nummsgs, catchupInterruptPending>>
    BY DEF SICleanupQueue, slotVars, readerVars
<1>5. \/ UNCHANGED <<signaled, sigTo>>
      \/ /\ behind # {}
         /\ signaled' = [signaled EXCEPT ![FurthestBack(behind)] = TRUE]
         /\ sigTo' = [sigTo EXCEPT ![s] = FurthestBack(behind)]
    BY Zenon DEF SICleanupQueue
<1>6. \E l \in {"w_check", "idle", "r_inval", "w_signal", "c_signal"} :
            pc' = [pc EXCEPT ![s] = l]
    BY Zenon DEF SICleanupQueue, Goto
<1>7. minMsgNum' \in MsgNums /\ maxMsgNum' \in MsgNums /\ nextMsgNum' \in [Slots -> MsgNums]
    <2>1. /\ maxMsgNum' \in Nat /\ minMsgNum' \in Nat
          /\ minMsgNum' <= MSGNUMWRAPAROUND
          /\ maxMsgNum' <= minMsgNum' + MAXNUMMESSAGES
          /\ \A i \in Slots : nextMsgNum'[i] \in Nat /\ nextMsgNum'[i] <= maxMsgNum'
        BY <1>2, Zenon DEF CleanedBy
    <2>2. /\ minMsgNum' <= MSGNUMWRAPAROUND + MAXNUMMESSAGES
          /\ maxMsgNum' <= MSGNUMWRAPAROUND + MAXNUMMESSAGES
          /\ \A i \in Slots : nextMsgNum'[i] <= MSGNUMWRAPAROUND + MAXNUMMESSAGES
        BY <2>1, Sizes, NumberBounds, Zenon
    <2> QED
        BY <1>4, <2>1, <2>2, MsgNumsAre
<1>8. signaled' \in [Slots -> BOOLEAN] /\ sigTo' \in [Slots -> Slots \cup {NoSlot}]
    <2> HIDE DEF behind
    <2>1. behind # {} => FurthestBack(behind) \in Slots
        BY <1>1, FurthestBackIs
    <2>2. CASE UNCHANGED <<signaled, sigTo>>
        BY <2>2 DEF TypeOK
    <2>3. CASE /\ behind # {}
               /\ signaled' = [signaled EXCEPT ![FurthestBack(behind)] = TRUE]
               /\ sigTo' = [sigTo EXCEPT ![s] = FurthestBack(behind)]
        BY <2>1, <2>3 DEF TypeOK
    <2> QED
        BY <1>5, <2>2, <2>3
<1>9. pc' \in [Slots -> Pcs] /\ resetState' \in [Slots -> BOOLEAN]
    BY <1>4, <1>6 DEF TypeOK, Pcs
<1> HIDE DEF reset, rest, behind
<1> QED
    BY <1>3, <1>4, <1>7, <1>8, <1>9 DEF TypeOK, cacheVars, histVars

LEMMA ReadTypes ==
    ASSUME TypeOK, NumbersInv, ThreadInv, SlotsInv, NEW s \in Slots, GetEntries(s),
           UNCHANGED cacheVars
    PROVE  TypeOK'
<1> DEFINE n == nRead(s)
           ms == [k \in 1 .. n |-> At(nextMsgNum[s] + k - 1)]
<1>1. /\ n \in 0 .. MAXINVALMSGS /\ MAXINVALMSGS \in Nat
      /\ minMsgNum <= nextMsgNum[s] /\ nextMsgNum[s] + n <= maxRead[s]
      /\ maxRead[s] <= maxMsgNum
      /\ nextMsgNum[s] \in Nat /\ maxRead[s] \in Nat /\ maxMsgNum \in Nat
      /\ minMsgNum \in Nat
    BY GetEntriesEffect, Sizes, NumberFacts
<1>2. /\ nextMsgNum' = [nextMsgNum EXCEPT ![s] = @ + n]
      /\ nummsgs' = [nummsgs EXCEPT ![s] = n]
      /\ messages' = [messages EXCEPT ![s] = ms]
      /\ hasMessages' = [hasMessages EXCEPT ![s] =
             @ \/ ~(nextMsgNum[s] + n >= maxRead[s])]
    BY GetEntriesEffect
<1>3. /\ \E b \in BOOLEAN : signaled' = [signaled EXCEPT ![s] = signaled[s] /\ b]
      /\ maxRead' = [maxRead EXCEPT ![s] = 0]
      /\ readers' = readers \ {s}
      /\ pc' = [pc EXCEPT ![s] = "r_loop"]
      /\ UNCHANGED <<active, resetState, minMsgNum, maxMsgNum, nextThreshold, lastBackend,
                     lastreserveBackend, buffer, writeLock, left, kick, sigTo,
                     catchupInterruptPending, stack, rcData, stale, skipped>>
    BY DEF GetEntries, Goto, segVars, slotVars, writerVars, cacheVars, histVars
<1> HIDE DEF n
<1>4. ms \in Seq(Rels) /\ Len(ms) = n
    <2>1. ASSUME NEW k \in 1 .. n PROVE At(nextMsgNum[s] + k - 1) \in Rels
        <3>1. nextMsgNum[s] + k - 1 \in minMsgNum .. maxMsgNum - 1
            BY <1>1
        <3> QED
            BY <3>1, Zenon DEF NumbersInv, ContentsInv
    <2>2. n \in Nat
        BY <1>1
    <2> QED
        BY <2>1, <2>2
<1> HIDE DEF ms
<1>5. /\ messages' \in [Slots -> Seq(Rels)]
      /\ \A i \in Slots : Len(messages'[i]) <= MAXINVALMSGS
      /\ nummsgs' \in [Slots -> 0 .. MAXINVALMSGS]
    <2>1. /\ messages' \in [Slots -> Seq(Rels)]
          /\ nummsgs' \in [Slots -> 0 .. MAXINVALMSGS]
        BY <1>1, <1>2, <1>4 DEF TypeOK
    <2>2. ASSUME NEW i \in Slots PROVE Len(messages'[i]) <= MAXINVALMSGS
        <3>1. messages'[i] = IF i = s THEN ms ELSE messages[i]
            BY <1>2 DEF TypeOK
        <3>2. Len(messages[i]) <= MAXINVALMSGS /\ Len(ms) <= MAXINVALMSGS
            BY <1>1, <1>4 DEF TypeOK
        <3> QED
            BY <3>1, <3>2
    <2> QED
        BY <2>1, <2>2
<1>6. nextMsgNum' \in [Slots -> MsgNums] /\ maxRead' \in [Slots -> MsgNums]
    <2>1. nextMsgNum[s] + n \in MsgNums
        <3>1. maxRead[s] \in MsgNums
            BY DEF TypeOK
        <3>2. nextMsgNum[s] + n \in Nat /\ nextMsgNum[s] + n <= maxRead[s]
            BY <1>1
        <3> QED
            BY <1>1, <3>1, <3>2, Sizes DEF MsgNums
    <2> QED
        BY <1>2, <1>3, <2>1, MsgNumsAre DEF TypeOK
<1>7. hasMessages' \in [Slots -> BOOLEAN] /\ signaled' \in [Slots -> BOOLEAN]
    BY <1>2, <1>3 DEF TypeOK
<1> QED
    BY <1>3, <1>5, <1>6, <1>7 DEF TypeOK, Pcs

LEMMA PublishTypes ==
    ASSUME TypeOK, NumbersInv, NEW s \in Slots, PublishMax(s), UNCHANGED cacheVars
    PROVE  TypeOK'
<1> DEFINE n == nthistime(s)
<1>1. /\ pc' = [pc EXCEPT ![s] = "w_kick"] /\ pc[s] = "w_max"
      /\ maxMsgNum' = maxMsgNum + n
      /\ left' = [left EXCEPT ![s] = SubSeq(@, n + 1, Len(@))]
    BY Zenon DEF PublishMax, Goto
<1>2. maxMsgNum + n <= minMsgNum + MAXNUMMESSAGES
    BY <1>1, Zenon DEF NumbersInv, PendingInv
<1>3. /\ n \in 0 .. Len(left[s]) /\ left[s] \in Seq(Rels) /\ Len(left[s]) \in Nat
      /\ left \in [Slots -> Seq(Rels)]
    BY Nthistime DEF TypeOK
<1> HIDE DEF n
<1>4. SubSeq(left[s], n + 1, Len(left[s])) \in Seq(Rels)
    BY <1>3
<1>5. left' \in [Slots -> Seq(Rels)]
    BY <1>1, <1>3, <1>4
<1>6. maxMsgNum' \in MsgNums
    <2>1. n \in Nat /\ maxMsgNum + n <= MSGNUMWRAPAROUND + MAXNUMMESSAGES
        BY <1>2, <1>3, NumberFacts, Sizes
    <2> QED
        BY <1>1, <2>1, NumberFacts, MsgNumsAre
<1> QED
    BY <1>1, <1>5, <1>6 DEF PublishMax, TypeOK, Pcs, procStateVars, slotVars, readerVars,
                            cacheVars, histVars

LEMMA QueueTypes ==
    ASSUME TypeOK, SlotsInv, NumbersInv, ThreadInv, NEW s \in Slots, QueueAction(s),
           UNCHANGED cacheVars
    PROVE  TypeOK'
<1> USE DEF Goto, procStateVars, segVars, slotVars, writerVars, readerVars, cacheVars, histVars
<1>1. CASE InsertLock(s) \/ CatchupLock(s)
    <2>1. \E l \in {"w_check", "c_clean"} : AcquireWriteLock(s, l)
        BY <1>1, Zenon DEF InsertLock, CatchupLock
    <2> QED
        BY <2>1 DEF AcquireWriteLock, TypeOK, Pcs
<1>2. CASE InsertCleanup(s)
    <2>1. nthistime(s) \in 0 .. MAXNUMMESSAGES
        BY RoomForBatch
    <2> QED
        BY <1>2, <2>1, CleanupTypes DEF InsertCleanup
<1>3. CASE CatchupCleanup(s)
    <2>1. 0 \in 0 .. MAXNUMMESSAGES /\ Caller(s) \in {"w_check", "idle", "r_inval"}
        BY Sizes DEF Caller
    <2> QED
        BY <1>3, <2>1, CleanupTypes DEF CatchupCleanup
<1>4. CASE InsertSignal(s) \/ CatchupSignal(s)
    <2>1. \E l \in {"w_lock", "idle", "r_inval"} : SendCatchupSignal(s, l)
        BY <1>4, Zenon DEF InsertSignal, CatchupSignal, Caller
    <2>2. catchupInterruptPending' = [t \in Slots |->
              catchupInterruptPending[t] \/ sigTo[s] = t]
        BY <2>1, Zenon DEF SendCatchupSignal
    <2>3. catchupInterruptPending' \in [Slots -> BOOLEAN]
        BY <2>2 DEF TypeOK
    <2>4. pc' \in [Slots -> Pcs] /\ sigTo' \in [Slots -> Slots \cup {NoSlot}]
        BY <2>1 DEF SendCatchupSignal, Pcs, TypeOK
    <2>5. UNCHANGED <<procStateVars, segVars, slotVars, buffer, writeLock, readers,
                      left, kick, readerVars>>
        BY <2>1, Zenon DEF SendCatchupSignal
    <2> QED
        BY <2>3, <2>4, <2>5 DEF TypeOK
<1>5. CASE WriteEntries(s)
    <2>1. buffer' \in [0 .. MAXNUMMESSAGES - 1 -> Rels \cup {NoMsg}]
        BY <1>5, WriteEntriesEffect
    <2>2. pc' = [pc EXCEPT ![s] = "w_max"] /\ UNCHANGED <<procStateVars, segVars, slotVars,
              writeLock, readers, writerVars, readerVars, catchupInterruptPending>>
        BY <1>5, Zenon DEF WriteEntries
    <2> QED
        BY <2>1, <2>2 DEF TypeOK, Pcs
<1>6. CASE PublishMax(s)
    BY <1>6, PublishTypes
<1>7. CASE Kick(s)
    <2>1. kick[s] + 1 \in 0 .. maxBackends
        <3>1. /\ kick[s] \in 0 .. maxBackends /\ lastBackend \in 0 .. maxBackends
              /\ kick[s] < lastBackend
            BY <1>7 DEF Kick, TypeOK
        <3> QED
            BY <3>1, Sizes
    <2> QED
        BY <1>7, <2>1 DEF Kick, TypeOK
<1>8. CASE InsertUnlock(s)
    <2>1. 0 \in 0 .. maxBackends
        BY Sizes
    <2>2. \E l \in {"idle", "w_lock"} : pc' = [pc EXCEPT ![s] = l]
        BY <1>8, Zenon DEF InsertUnlock
    <2> QED
        BY <1>8, <2>1, <2>2 DEF InsertUnlock, TypeOK, Pcs
<1>9. CASE NothingToRead(s)
    BY <1>9 DEF NothingToRead, TypeOK, Pcs
<1>10. CASE ReadLock(s)
    BY <1>10 DEF ReadLock, TypeOK, Pcs
<1>11. CASE ReadMax(s)
    BY <1>11 DEF ReadMax, TypeOK, Pcs
<1>12. CASE GetEntries(s)
    BY <1>12, ReadTypes
<1> QED
    BY <1>1, <1>2, <1>3, <1>4, <1>5, <1>6, <1>7, <1>8, <1>9, <1>10, <1>11, <1>12,
       Zenon DEF QueueAction

LEMMA TypeStep ==
    ASSUME IInv, NEW s \in Slots, Step(s)
    PROVE  TypeOK'
<1>1. TypeOK /\ SlotsInv /\ NumbersInv /\ ThreadInv
    BY DEF IInv
<1> QED
    BY <1>1, AttachTypes, CommitTypes, LocalTypes, ResetTypes, QueueTypes, Zenon DEF Step

-----------------------------------------------------------------------------
(* The invariant                                                           *)

LEMMA InitInv ==
    ASSUME Init
    PROVE  IInv
<1> USE DEF Init, AdtInit
<1>1. TypeOK
    <2>1. /\ CLEANUP_MIN \in CLEANUP_MIN .. MAXNUMMESSAGES + CLEANUP_QUANTUM
          /\ 0 \in 0 .. maxBackends /\ 0 \in 0 .. maxreserveBackends
          /\ 0 \in 0 .. MAXINVALMSGS /\ 0 <= MAXINVALMSGS /\ 0 <= MaxDepth
        BY Sizes, BoundAssumption
    <2> QED
        BY <2>1, MsgNumsAre DEF TypeOK, Pcs
<1>2. LocksInv /\ FlagsInv /\ AnnouncedInv
    BY NullAssumption DEF LocksInv, FlagsInv, AnnouncedInv, Receivers, Writing, Reading
<1>3. SlotsInv
    BY Sizes DEF SlotsInv
<1>4. NumbersInv
    BY Sizes DEF NumbersInv, RangeInv, PositionsInv, PendingInv, ContentsInv, Receivers
<1>5. ThreadInv
    BY BoundAssumption DEF ThreadInv, ThreadOK, Sending, Receiving
<1> QED
    BY <1>1, <1>2, <1>3, <1>4, <1>5 DEF IInv

LEMMA IInvStutters ==
    ASSUME IInv, UNCHANGED vars
    PROVE  IInv'
<1>1. UNCHANGED <<active, nextMsgNum, resetState, signaled, hasMessages, minMsgNum,
                  maxMsgNum, nextThreshold, lastBackend, lastreserveBackend, buffer,
                  writeLock, readers, pc, left, kick, sigTo, maxRead, messages, nummsgs,
                  catchupInterruptPending, stack, rcData, stale, skipped>>
    BY DEF vars, adtVars, cacheVars, histVars, procStateVars, segVars, slotVars, writerVars,
           readerVars
<1>2. TypeOK'
    BY <1>1 DEF IInv, TypeOK
<1>3. LocksInv' /\ SlotsInv'
    BY <1>1 DEF IInv, LocksInv, SlotsInv
<1>4. NumbersInv'
    <2>1. RangeInv' /\ PositionsInv'
        BY <1>1 DEF IInv, NumbersInv, RangeInv, PositionsInv, Receivers
    <2>2. PendingInv' /\ ContentsInv'
        BY <1>1, Zenon DEF IInv, NumbersInv, PendingInv, ContentsInv, At, nthistime
    <2> QED
        BY <2>1, <2>2 DEF NumbersInv
<1>5. ThreadInv'
    BY <1>1, Zenon DEF IInv, ThreadInv, ThreadOK, Top
<1>6. FlagsInv'
    BY <1>1, Zenon DEF IInv, FlagsInv, Kicked, Receivers
<1>7. AnnouncedInv'
    BY <1>1, Zenon DEF IInv, AnnouncedInv, Announced, ToBeSent, InQueue, InHand, At, Receivers
<1> QED
    BY <1>2, <1>3, <1>4, <1>5, <1>6, <1>7 DEF IInv

(***************************************************************************)
(* The inductive invariant of the queue and of the threads around it:      *)
(* SICleanupQueue, SIInsertDataEntries, SIGetDataEntries and the receiving *)
(* loop keep it in every interleaving.                                     *)
(***************************************************************************)
THEOREM Invariance == Spec => []IInv
<1>1. Init => IInv
    BY InitInv
<1>2. IInv /\ [Next]_vars => IInv'
    <2> SUFFICES ASSUME IInv, [Next]_vars PROVE IInv'
        OBVIOUS
    <2>1. CASE Next
        <3>1. PICK s \in Slots : Step(s)
            BY <2>1, NextSteps
        <3> QED
            BY <3>1, TypeStep, LocksStep, SlotsStep, NumbersStep, ThreadStep, FlagsStep,
               AnnouncedStep DEF IInv
    <2>2. CASE UNCHANGED vars
        BY <2>2, IInvStutters
    <2> QED
        BY <2>1, <2>2
<1> QED
    BY <1>1, <1>2, PTL DEF Spec

-----------------------------------------------------------------------------
(* What a backend has not read                                             *)

\* The message with number n in a buffer b, and those from number f up to l.
Nth(b, n) == b[n % MAXNUMMESSAGES]
Piece(b, f, l) == [k \in 1 .. l - f |-> Nth(b, f + k - 1)]

\* The number a backend goes on from, unless it has lost messages.
Pos(s) == IF resetState[s] THEN maxRead[s] ELSE nextMsgNum[s]

LEMMA PieceIs ==
    ASSUME NEW b, NEW f \in Int, NEW l \in Int, f <= l,
           \A n \in f .. l - 1 : Nth(b, n) \in Rels
    PROVE  /\ Piece(b, f, l) \in Seq(Rels) /\ Len(Piece(b, f, l)) = l - f
           /\ \A k \in 1 .. l - f : Piece(b, f, l)[k] = Nth(b, f + k - 1)
<1>1. \A k \in 1 .. l - f : Nth(b, f + k - 1) \in Rels
    <2> TAKE k \in 1 .. l - f
    <2>1. f + k - 1 \in f .. l - 1
        OBVIOUS
    <2> QED
        BY <2>1, Zenon
<1>2. l - f \in Nat
    OBVIOUS
<1> QED
    BY <1>1, <1>2 DEF Piece

LEMMA PieceEmpty ==
    ASSUME NEW b, NEW n \in Int
    PROVE  Piece(b, n, n) = <<>>
<1>1. \A k \in n .. n - 1 : Nth(b, k) \in Rels
    OBVIOUS
<1>2. Piece(b, n, n) \in Seq(Rels) /\ Len(Piece(b, n, n)) = 0
    <2>1. n <= n /\ n - n = 0
        OBVIOUS
    <2> QED
        BY <1>1, <2>1, PieceIs
<1> QED
    BY <1>2, EmptySeq

LEMMA PieceShift ==
    ASSUME NEW b, NEW f \in Int, NEW l \in Int
    PROVE  Piece(b, f - MSGNUMWRAPAROUND, l - MSGNUMWRAPAROUND) = Piece(b, f, l)
<1> DEFINE W == MSGNUMWRAPAROUND
<1>1. W \in Int
    BY Sizes
<1>2. \A n \in Int : (n - W) % MAXNUMMESSAGES = n % MAXNUMMESSAGES
    BY <1>1, Sizes, ModShift, Zenon
<1>3. \A n \in Int : Nth(b, n - W) = Nth(b, n)
    BY <1>2, Zenon DEF Nth
<1> HIDE DEF W
<1>4. \A k \in 1 .. l - f : Nth(b, (f - W) + k - 1) = Nth(b, f + k - 1)
    <2> TAKE k \in 1 .. l - f
    <2>1. f + k - 1 \in Int /\ (f - W) + k - 1 = (f + k - 1) - W
        BY <1>1
    <2> QED
        BY <1>3, <2>1, Zenon
<1>5. (l - W) - (f - W) = l - f
    BY <1>1
<1>6. Piece(b, f - W, l - W) = Piece(b, f, l)
    BY <1>4, <1>5 DEF Piece
<1> QED
    BY <1>6 DEF W

LEMMA PieceSame ==
    ASSUME NEW b, NEW c, NEW f \in Int, NEW l \in Int,
           \A n \in f .. l - 1 : Nth(b, n) = Nth(c, n)
    PROVE  Piece(b, f, l) = Piece(c, f, l)
<1>1. ASSUME NEW k \in 1 .. l - f PROVE Nth(b, f + k - 1) = Nth(c, f + k - 1)
    <2>1. f + k - 1 \in f .. l - 1
        OBVIOUS
    <2> QED
        BY <2>1, Zenon
<1> QED
    BY <1>1 DEF Piece

\* The messages m follow, from number l on, those from f on.
Continues(m, n, b, f, l) ==
    /\ f \in Int /\ l \in Int /\ f <= l /\ n \in Nat /\ m \in Seq(Rels) /\ Len(m) = n
    /\ \A x \in f .. l - 1 : Nth(b, x) \in Rels
    /\ \A k \in 1 .. n : Nth(b, l + k - 1) = m[k]

LEMMA PieceExtends ==
    ASSUME NEW b, NEW f, NEW l, NEW n, NEW m, Continues(m, n, b, f, l)
    PROVE  Piece(b, f, l + n) = Piece(b, f, l) \o m
<1> USE DEF Continues
<1>1. /\ Piece(b, f, l) \in Seq(Rels) /\ Len(Piece(b, f, l)) = l - f
      /\ \A k \in 1 .. l - f : Piece(b, f, l)[k] = Nth(b, f + k - 1)
    BY PieceIs
<1>2. \A x \in f .. l + n - 1 : Nth(b, x) \in Rels
    <2> TAKE x \in f .. l + n - 1
    <2>1. CASE x < l
        BY <2>1
    <2>2. CASE ~(x < l)
        <3> DEFINE k == x - l + 1
        <3>1. k \in 1 .. n /\ x = l + k - 1
            BY <2>2
        <3>2. m[k] \in Rels
            BY <3>1, ElementOfSeq
        <3> HIDE DEF k
        <3> QED
            BY <3>1, <3>2
    <2> QED
        BY <2>1, <2>2
<1>3. /\ Piece(b, f, l + n) \in Seq(Rels) /\ Len(Piece(b, f, l + n)) = l + n - f
      /\ \A k \in 1 .. l + n - f : Piece(b, f, l + n)[k] = Nth(b, f + k - 1)
    <2>1. l + n \in Int /\ f <= l + n
        OBVIOUS
    <2> QED
        BY <1>2, <2>1, PieceIs
<1>4. /\ Piece(b, f, l) \o m \in Seq(Rels)
      /\ Len(Piece(b, f, l) \o m) = l - f + n
      /\ \A i \in 1 .. l - f + n : (Piece(b, f, l) \o m)[i] =
             IF i <= l - f THEN Piece(b, f, l)[i] ELSE m[i - (l - f)]
    BY <1>1, ConcatProperties
<1>5. ASSUME NEW i \in 1 .. l + n - f
      PROVE  Piece(b, f, l + n)[i] = (Piece(b, f, l) \o m)[i]
    <2>1. CASE i <= l - f
        BY <1>1, <1>3, <1>4, <2>1
    <2>2. CASE ~(i <= l - f)
        <3> DEFINE k == i - (l - f)
        <3>1. k \in 1 .. n /\ f + i - 1 = l + k - 1
            BY <2>2
        <3>2. (Piece(b, f, l) \o m)[i] = m[k]
            BY <1>4, <2>2
        <3> HIDE DEF k
        <3> QED
            BY <1>3, <3>1, <3>2
    <2> QED
        BY <2>1, <2>2
<1>6. Len(Piece(b, f, l + n)) = Len(Piece(b, f, l) \o m)
    BY <1>3, <1>4
<1> QED
    BY <1>3, <1>4, <1>5, <1>6, SeqEqual

\* The first n of a sequence, and the others.
First(q, n) == SubSeq(q, 1, n)
Rest(q, n) == SubSeq(q, n + 1, Len(q))

Divisible(b, f, l) ==
    /\ f \in Int /\ l \in Int
    /\ Piece(b, f, l) \in Seq(Rels) /\ Len(Piece(b, f, l)) = l - f
UpTo(f, n, l) == n \in Nat /\ f + n <= l

LEMMA PieceSplit ==
    ASSUME NEW b, NEW f, NEW l, Divisible(b, f, l), NEW n, UpTo(f, n, l)
    PROVE  /\ First(Piece(b, f, l), n) = Piece(b, f, f + n)
           /\ Rest(Piece(b, f, l), n) = Piece(b, f + n, l)
<1>1. /\ f \in Int /\ l \in Int /\ n \in Nat /\ f + n <= l
      /\ Piece(b, f, l) \in Seq(Rels) /\ Len(Piece(b, f, l)) = l - f
    BY DEF Divisible, UpTo
<1> DEFINE q == Piece(b, f, l)
<1>2. \A k \in 1 .. l - f : q[k] = Nth(b, f + k - 1) /\ q[k] \in Rels
    <2>1. \A k \in 1 .. l - f : q[k] = Nth(b, f + k - 1)
        BY Zenon DEF Piece
    <2>2. \A k \in 1 .. l - f : q[k] \in Rels
        BY <1>1, ElementOfSeq
    <2> QED
        BY <2>1, <2>2
<1>3. /\ q \in Seq(Rels) /\ Len(q) = l - f
      /\ \A k \in 1 .. l - f : q[k] = Nth(b, f + k - 1)
      /\ \A x \in f .. l - 1 : Nth(b, x) \in Rels
    <2>1. ASSUME NEW x \in f .. l - 1 PROVE Nth(b, x) \in Rels
        <3> DEFINE k == x - f + 1
        <3>1. k \in 1 .. l - f /\ f + k - 1 = x
            BY <1>1
        <3> HIDE DEF k, q
        <3> QED
            BY <1>1, <1>2, <3>1
    <2> QED
        BY <1>1, <1>2, <2>1
<1>4. /\ Piece(b, f, f + n) \in Seq(Rels) /\ Len(Piece(b, f, f + n)) = n
      /\ \A k \in 1 .. n : Piece(b, f, f + n)[k] = Nth(b, f + k - 1)
    <2>1. f + n \in Int /\ f <= f + n /\ (f + n) - f = n
          /\ \A x \in f .. f + n - 1 : x \in f .. l - 1
        BY <1>1
    <2> QED
        BY <1>1, <1>3, <2>1, PieceIs
<1>5. /\ Piece(b, f + n, l) \in Seq(Rels) /\ Len(Piece(b, f + n, l)) = l - f - n
      /\ \A k \in 1 .. l - f - n : Piece(b, f + n, l)[k] = Nth(b, f + n + k - 1)
    <2>1. f + n \in Int /\ f + n <= l /\ l - (f + n) = l - f - n
          /\ \A x \in f + n .. l - 1 : x \in f .. l - 1
        BY <1>1
    <2> QED
        BY <1>1, <1>3, <2>1, PieceIs
<1> HIDE DEF q
<1>6. SubSeq(q, 1, n) = Piece(b, f, f + n)
    <2>1. \A i \in 1 .. n : q[i] \in Rels
        BY <1>1, <1>3
    <2>2. /\ SubSeq(q, 1, n) \in Seq(Rels) /\ Len(SubSeq(q, 1, n)) = n
          /\ \A i \in 1 .. n : SubSeq(q, 1, n)[i] = q[i]
        BY <1>1, <2>1, SubSeqProperties
    <2>3. \A i \in 1 .. Len(SubSeq(q, 1, n)) : SubSeq(q, 1, n)[i] = Piece(b, f, f + n)[i]
        BY <1>1, <1>3, <1>4, <2>2
    <2> QED
        BY <1>4, <2>2, <2>3, SeqEqual, Zenon
<1>7. SubSeq(q, n + 1, Len(q)) = Piece(b, f + n, l)
    <2>1. \A i \in n + 1 .. Len(q) : q[i] \in Rels
        BY <1>1, <1>3
    <2>2. /\ SubSeq(q, n + 1, Len(q)) \in Seq(Rels)
          /\ Len(SubSeq(q, n + 1, Len(q))) = l - f - n
          /\ \A i \in 1 .. l - f - n : SubSeq(q, n + 1, Len(q))[i] = q[n + i]
        <3>1. n + 1 \in Int /\ Len(q) \in Int
            BY <1>1, <1>3
        <3> QED
            BY <1>1, <1>3, <2>1, <3>1, SubSeqProperties
    <2>3. \A i \in 1 .. l - f - n : q[n + i] = Nth(b, f + n + i - 1)
        BY <1>1, <1>3
    <2>4. /\ Len(SubSeq(q, n + 1, Len(q))) = Len(Piece(b, f + n, l))
          /\ \A i \in 1 .. Len(SubSeq(q, n + 1, Len(q))) :
                SubSeq(q, n + 1, Len(q))[i] = Piece(b, f + n, l)[i]
        BY <1>1, <1>5, <2>2, <2>3
    <2> QED
        BY <1>1, <1>5, <2>2, <2>4, SeqEqual, Zenon
<1> QED
    BY <1>1, <1>6, <1>7, Zenon DEF q, First, Rest

\* The messages a backend has not read, and the same after a step.
LEMMA UnreadIs ==
    ASSUME NEW s
    PROVE  /\ Unread(s) = IF s \in Receivers \ Lost THEN Piece(buffer, Pos(s), maxMsgNum)
                          ELSE <<>>
           /\ Unread(s)' = IF s \in Receivers' \ Lost' THEN Piece(buffer', Pos(s)', maxMsgNum')
                           ELSE <<>>
    BY Zenon DEF Unread, Piece, Pos, Nth

LEMMA PosIs ==
    ASSUME IInv, NEW s \in Receivers \ Lost
    PROVE  /\ s \in Slots /\ Pos(s) \in Nat /\ minMsgNum <= Pos(s) /\ Pos(s) <= maxMsgNum
           /\ minMsgNum \in Nat /\ maxMsgNum \in Nat
           /\ maxMsgNum - Pos(s) <= MAXNUMMESSAGES
           /\ \A n \in Pos(s) .. maxMsgNum - 1 :
                 n \in minMsgNum .. maxMsgNum - 1 /\ Nth(buffer, n) \in Rels
           /\ Unread(s) \in Seq(Rels) /\ Len(Unread(s)) = maxMsgNum - Pos(s)
<1>1. s \in Slots /\ (resetState[s] => pc[s] = "r_get")
    BY DEF Receivers, Lost
<1>2. /\ minMsgNum \in Nat /\ maxMsgNum \in Nat
      /\ minMsgNum <= maxMsgNum /\ maxMsgNum <= minMsgNum + MAXNUMMESSAGES
      /\ nextMsgNum[s] \in Nat /\ maxRead[s] \in Nat /\ MAXNUMMESSAGES \in Nat
    BY <1>1, NumberFacts, Sizes DEF IInv
<1>3. Pos(s) \in minMsgNum .. maxMsgNum
    BY <1>1 DEF IInv, NumbersInv, PositionsInv, Pos
<1>4. /\ Pos(s) \in Nat /\ minMsgNum <= Pos(s) /\ Pos(s) <= maxMsgNum
      /\ maxMsgNum - Pos(s) <= MAXNUMMESSAGES
    BY <1>2, <1>3
<1>5. ASSUME NEW n \in Pos(s) .. maxMsgNum - 1
      PROVE  n \in minMsgNum .. maxMsgNum - 1 /\ Nth(buffer, n) \in Rels
    <2>1. n \in minMsgNum .. maxMsgNum - 1
        BY <1>2, <1>4
    <2> QED
        BY <2>1, Zenon DEF IInv, NumbersInv, ContentsInv, At, Nth
<1>6. Unread(s) = Piece(buffer, Pos(s), maxMsgNum)
    BY UnreadIs
<1>7. Unread(s) \in Seq(Rels) /\ Len(Unread(s)) = maxMsgNum - Pos(s)
    <2>1. Pos(s) \in Int /\ maxMsgNum \in Int
        BY <1>2, <1>4
    <2> QED
        BY <1>4, <1>5, <1>6, <2>1, PieceIs
<1> QED
    BY <1>1, <1>2, <1>4, <1>5, <1>7

LEMMA FlagsReach ==
    ASSUME IInv
    PROVE  NothingOverlooked
<1> SUFFICES ASSUME NEW s \in Receivers, pc[s] \notin {"r_max", "r_get"},
                    Unread(s) # <<>> \/ resetState[s]
             PROVE  Kicked(s)
    BY DEF NothingOverlooked, Kicked
<1>1. CASE resetState[s]
    BY <1>1 DEF IInv, FlagsInv, Reading
<1>2. CASE ~resetState[s]
    <2>1. s \in Receivers \ Lost /\ Pos(s) = nextMsgNum[s]
        BY <1>2 DEF Lost, Pos
    <2>2. Unread(s) # <<>>
        BY <1>2
    <2>3. nextMsgNum[s] < maxMsgNum
        <3>1. /\ Pos(s) \in Nat /\ maxMsgNum \in Nat
              /\ Unread(s) \in Seq(Rels) /\ Len(Unread(s)) = maxMsgNum - Pos(s)
            BY <2>1, PosIs
        <3>2. Len(Unread(s)) \in Nat \ {0}
            BY <2>2, <3>1, EmptySeq
        <3> QED
            BY <2>1, <3>1, <3>2
    <2> QED
        BY <2>3 DEF IInv, FlagsInv, Reading
<1> QED
    BY <1>1, <1>2

LEMMA AnnouncedIsOnItsWay ==
    ASSUME IInv, NEW s \in Receivers, NEW r, Announced(r, s)
    PROVE  OnItsWay(r, s)
<1>1. CASE ToBeSent(r, s) \/ InHand(r, s) \/ resetState[s]
    BY <1>1, Zenon DEF ToBeSent, InHand, OnItsWay
<1>2. CASE InQueue(r, s) /\ ~resetState[s]
    <2>1. PICK n \in Int : nextMsgNum[s] <= n /\ n < maxMsgNum /\ At(n) = r
        BY <1>2, Zenon DEF InQueue
    <2>2. s \in Receivers \ Lost /\ Pos(s) = nextMsgNum[s]
        BY <1>2 DEF Lost, Pos
    <2>3. /\ Pos(s) \in Nat /\ maxMsgNum \in Nat /\ Pos(s) <= maxMsgNum
          /\ \A x \in Pos(s) .. maxMsgNum - 1 : Nth(buffer, x) \in Rels
          /\ Unread(s) \in Seq(Rels) /\ Len(Unread(s)) = maxMsgNum - Pos(s)
        BY <2>2, PosIs
    <2>4. Unread(s) = Piece(buffer, Pos(s), maxMsgNum)
        BY <2>2, UnreadIs
    <2> DEFINE k == n - Pos(s) + 1
    <2>5. k \in 1 .. maxMsgNum - Pos(s) /\ Pos(s) + k - 1 = n
        BY <2>1, <2>2, <2>3
    <2>6. DOMAIN Unread(s) = 1 .. maxMsgNum - Pos(s)
        BY <2>3
    <2>7. Nth(buffer, n) = r
        BY <2>1, Zenon DEF At, Nth
    <2> HIDE DEF k
    <2>8. Unread(s)[k] = r
        <3>1. Pos(s) \in Int /\ maxMsgNum \in Int
            BY <2>3
        <3>2. Piece(buffer, Pos(s), maxMsgNum)[k] = Nth(buffer, Pos(s) + k - 1)
            BY <2>3, <2>5, <3>1, PieceIs
        <3> QED
            BY <2>4, <2>5, <2>7, <3>2
    <2> QED
        BY <2>5, <2>6, <2>8, Zenon DEF OnItsWay
<1> QED
    BY <1>1, <1>2, Zenon DEF Announced

-----------------------------------------------------------------------------
(* What follows                                                            *)

(***************************************************************************)
(* The variables keep their types; in particular the message numbers never *)
(* leave the range up to MSGNUMWRAPAROUND + MAXNUMMESSAGES, so that the    *)
(* reduction in SICleanupQueue comes in time however the writers and the   *)
(* readers interleave.                                                     *)
(***************************************************************************)
THEOREM TypeCorrect == Spec => []TypeOK
<1>1. IInv => TypeOK
    BY DEF IInv
<1> QED
    BY <1>1, Invariance, PTL

(***************************************************************************)
(* The test of hasMessages without a lock in SIGetDataEntries hides no     *)
(* message and no reset, for any number of writers and readers.            *)
(***************************************************************************)
THEOREM Overlooked == Spec => []NothingOverlooked
<1>1. IInv => NothingOverlooked
    BY FlagsReach
<1> QED
    BY <1>1, Invariance, PTL

(***************************************************************************)
(* No cached entry stays out of date unannounced: between the commit that  *)
(* changes the catalog and the rebuild of the entry, the message is with   *)
(* its sender, in the queue or with the receiver, through the wrap-around, *)
(* resets and nested receiving, unless it was skipped as a duplicate.      *)
(***************************************************************************)
THEOREM Announcement == Spec => []StaleIsAnnounced
<1>1. IInv => StaleIsAnnounced
    <2> SUFFICES ASSUME IInv, NEW s \in Receivers, NEW r \in stale[s]
                 PROVE  OnItsWay(r, s) \/ r \in skipped[s]
        BY DEF StaleIsAnnounced
    <2>1. Announced(r, s) \/ r \in skipped[s]
        BY Zenon DEF IInv, AnnouncedInv
    <2> QED
        BY <2>1, AnnouncedIsOnItsWay
<1> QED
    BY <1>1, Invariance, PTL

-----------------------------------------------------------------------------
(* The queue delivers                                                      *)

Owed == [i \in Slots |-> Unread(i)]

LEMMA UnreadKept ==
    ASSUME IInv, NEW i \in Slots,
           i \in Receivers' \ Lost' <=> i \in Receivers \ Lost,
           i \in Receivers \ Lost => Pos(i)' = Pos(i),
           maxMsgNum' = maxMsgNum,
           \A n \in minMsgNum .. maxMsgNum - 1 : Nth(buffer', n) = Nth(buffer, n)
    PROVE  Unread(i)' = Unread(i)
<1>1. CASE i \in Receivers \ Lost
    <2>1. /\ Pos(i) \in Int /\ maxMsgNum \in Int
          /\ \A n \in Pos(i) .. maxMsgNum - 1 : n \in minMsgNum .. maxMsgNum - 1
        BY <1>1, PosIs
    <2>2. Piece(buffer', Pos(i), maxMsgNum) = Piece(buffer, Pos(i), maxMsgNum)
        BY <2>1, PieceSame, Zenon
    <2> QED
        BY <1>1, <2>2, UnreadIs, Zenon
<1>2. CASE i \notin Receivers \ Lost
    BY <1>2, UnreadIs, Zenon
<1> QED
    BY <1>1, <1>2

\* A step nobody can see in what the backends are owed.
OwedKept == UNCHANGED <<Receivers, Lost, Owed>>

LEMMA KeptOwed ==
    ASSUME IInv, NEW s \in Slots, NumbersKept(s), pc[s] # "r_get"
    PROVE  OwedKept
<1>1. Receivers' = Receivers
    BY DEF NumbersKept, Receivers
<1>2. \A i \in Slots : pc'[i] = "r_get" <=> pc[i] = "r_get"
    BY DEF NumbersKept
<1>3. Lost' = Lost
    BY <1>1, <1>2 DEF NumbersKept, Lost, Receivers
<1>4. \A i \in Slots : Pos(i)' = Pos(i)
    BY DEF NumbersKept, Pos
<1>5. \A n : Nth(buffer', n) = Nth(buffer, n)
    BY DEF NumbersKept
<1>6. \A i \in Slots : Unread(i)' = Unread(i)
    BY <1>1, <1>3, <1>4, <1>5, UnreadKept, Zenon DEF NumbersKept
<1> QED
    BY <1>1, <1>3, <1>6, Zenon DEF OwedKept, Owed

LEMMA QuietOwed ==
    ASSUME IInv, NEW s \in Slots,
           \/ \E rels \in Sends : AtEOXact_Inval(s, rels)
           \/ LocalAction(s)
           \/ InsertLock(s) \/ CatchupLock(s)
           \/ InsertSignal(s) \/ CatchupSignal(s)
           \/ Kick(s) \/ InsertUnlock(s)
           \/ NothingToRead(s) \/ ReadLock(s)
    PROVE  OwedKept
<1>1. NumbersKept(s)
    BY StepKeepsNumbers DEF IInv
<1>2. pc[s] # "r_get"
    <2>1. CASE LocalAction(s)
        BY <2>1, LocalActionsAreAloof DEF IInv, Aloof, Quiet
    <2>2. CASE ~LocalAction(s)
        BY <2>2 DEF AtEOXact_Inval, InsertLock, CatchupLock, InsertSignal, CatchupSignal,
                    Kick, InsertUnlock, NothingToRead, ReadLock
    <2> QED
        BY <2>1, <2>2
<1> QED
    BY <1>1, <1>2, KeptOwed

LEMMA AttachOwed ==
    ASSUME IInv, NEW s \in Slots, Attach(s)
    PROVE  /\ Receivers' = (IF s \in SendOnly THEN Receivers ELSE Receivers \cup {s})
           /\ UNCHANGED <<Lost, Owed, messages>>
<1>1. /\ ~active[s] /\ active' = [active EXCEPT ![s] = TRUE]
      /\ nextMsgNum' = [nextMsgNum EXCEPT ![s] = maxMsgNum]
      /\ resetState' = [resetState EXCEPT ![s] = FALSE]
      /\ pc' = [pc EXCEPT ![s] = "idle"] /\ pc[s] = "off"
      /\ UNCHANGED <<maxMsgNum, buffer, maxRead, messages>>
    BY AttachEffect DEF IInv, Occupy, Goto, segVars, readerVars
<1>2. /\ active \in [Slots -> BOOLEAN] /\ resetState \in [Slots -> BOOLEAN]
      /\ nextMsgNum \in [Slots -> MsgNums] /\ pc \in [Slots -> Pcs]
      /\ maxMsgNum \in Nat
    BY NumberFacts DEF IInv, TypeOK
<1>3. Receivers' = IF s \in SendOnly THEN Receivers ELSE Receivers \cup {s}
    BY <1>1, <1>2 DEF Receivers
<1>4. s \notin Receivers /\ s \notin Lost' /\ s \notin Lost
    BY <1>1, <1>2 DEF Receivers, Lost
<1>5. Lost' = Lost
    BY <1>1, <1>2, <1>3, <1>4 DEF Lost, Receivers
<1>6. ASSUME NEW i \in Slots PROVE Unread(i)' = Unread(i)
    <2>1. CASE i = s
        <3>1. Unread(s) = <<>>
            BY <1>4, UnreadIs
        <3>2. Pos(s)' = maxMsgNum
            BY <1>1, <1>2 DEF Pos
        <3>3. Piece(buffer', Pos(s)', maxMsgNum') = <<>>
            BY <1>1, <1>2, <3>2, PieceEmpty
        <3> QED
            BY <2>1, <3>1, <3>3, UnreadIs
    <2>2. CASE i # s
        <3>1. Pos(i)' = Pos(i)
            BY <1>1, <1>2, <2>2 DEF Pos
        <3>2. \A n : Nth(buffer', n) = Nth(buffer, n)
            BY <1>1
        <3> QED
            BY <1>1, <1>3, <1>5, <2>2, <3>1, <3>2, UnreadKept
    <2> QED
        BY <2>1, <2>2
<1> QED
    BY <1>1, <1>3, <1>5, <1>6, Zenon DEF Owed

LEMMA DetachOwed ==
    ASSUME IInv, NEW s \in Slots, Detach(s)
    PROVE  /\ Receivers' = Receivers \ {s} /\ Lost' = Lost \ {s}
           /\ Owed' = [Owed EXCEPT ![s] = <<>>]
           /\ messages' = messages /\ messages[s] = <<>>
           /\ s \notin Receivers => Owed[s] = <<>>
<1>1. /\ active[s] /\ active' = [active EXCEPT ![s] = FALSE]
      /\ nextMsgNum' = [nextMsgNum EXCEPT ![s] = 0]
      /\ resetState' = [resetState EXCEPT ![s] = FALSE]
      /\ pc' = [pc EXCEPT ![s] = "off"] /\ pc[s] = "idle"
      /\ UNCHANGED <<maxMsgNum, buffer, maxRead, messages>>
    BY DetachEffect DEF IInv, Vacate, Goto, segVars, readerVars
<1>2. /\ active \in [Slots -> BOOLEAN] /\ resetState \in [Slots -> BOOLEAN]
      /\ nextMsgNum \in [Slots -> MsgNums] /\ pc \in [Slots -> Pcs]
    BY DEF IInv, TypeOK
<1>3. messages[s] = <<>>
    BY <1>1 DEF IInv, ThreadInv, ThreadOK
<1>4. Receivers' = Receivers \ {s}
    BY <1>1, <1>2 DEF Receivers
<1>5. Lost' = Lost \ {s}
    BY <1>1, <1>2, <1>4 DEF Lost, Receivers
<1>6. Unread(s)' = <<>> /\ (s \notin Receivers => Unread(s) = <<>>)
    BY <1>4, UnreadIs
<1>7. ASSUME NEW i \in Slots, i # s PROVE Unread(i)' = Unread(i)
    <2>1. Pos(i)' = Pos(i)
        BY <1>1, <1>2, <1>7 DEF Pos
    <2>2. \A n : Nth(buffer', n) = Nth(buffer, n)
        BY <1>1
    <2> QED
        BY <1>1, <1>4, <1>5, <1>7, <2>1, <2>2, UnreadKept
<1>8. Owed' = [Owed EXCEPT ![s] = <<>>]
    BY <1>6, <1>7, Zenon DEF Owed
<1> QED
    BY <1>1, <1>3, <1>4, <1>5, <1>6, <1>8 DEF Owed

\* A backend that is told to reset goes on from the number it read before.
LEMMA ResetOwed ==
    ASSUME IInv, NEW s \in Slots, ReceiveReset(s)
    PROVE  OwedKept /\ UNCHANGED messages
<1>1. /\ pc[s] = "r_get" /\ resetState[s]
      /\ nextMsgNum' = [nextMsgNum EXCEPT ![s] = maxRead[s]]
      /\ resetState' = [resetState EXCEPT ![s] = FALSE]
      /\ maxRead' = [maxRead EXCEPT ![s] = 0]
      /\ pc' = [pc EXCEPT ![s] = "r_inval"]
      /\ UNCHANGED <<active, maxMsgNum, buffer, messages>>
    BY DEF ReceiveReset, GetReset, Goto, segVars
<1>2. /\ resetState \in [Slots -> BOOLEAN] /\ maxRead \in [Slots -> MsgNums]
      /\ nextMsgNum \in [Slots -> MsgNums] /\ pc \in [Slots -> Pcs]
    BY DEF IInv, TypeOK
<1>3. Receivers' = Receivers
    BY <1>1 DEF Receivers
<1>4. s \notin Lost /\ s \notin Lost'
    BY <1>1, <1>2 DEF Lost
<1>5. Lost' = Lost
    BY <1>1, <1>2, <1>3, <1>4 DEF Lost, Receivers
<1>6. \A i \in Slots : Pos(i)' = Pos(i)
    BY <1>1, <1>2 DEF Pos
<1>7. \A n : Nth(buffer', n) = Nth(buffer, n)
    BY <1>1
<1>8. \A i \in Slots : Unread(i)' = Unread(i)
    BY <1>1, <1>3, <1>5, <1>6, <1>7, UnreadKept, Zenon
<1> QED
    BY <1>1, <1>3, <1>5, <1>8, Zenon DEF OwedKept, Owed

\* What is written beyond maxMsgNum cannot be seen.
LEMMA WriteOwed ==
    ASSUME IInv, NEW s \in Slots, WriteEntries(s)
    PROVE  OwedKept /\ UNCHANGED messages
<1>1. /\ pc[s] = "w_check" /\ pc' = [pc EXCEPT ![s] = "w_max"]
      /\ UNCHANGED <<active, nextMsgNum, resetState, maxMsgNum, maxRead, messages>>
    BY Zenon DEF WriteEntries, Goto, procStateVars, segVars, readerVars
<1>2. Receivers' = Receivers /\ \A i \in Slots : Pos(i)' = Pos(i)
    BY <1>1 DEF Receivers, Pos
<1>3. \A i \in Slots : pc'[i] = "r_get" <=> pc[i] = "r_get"
    BY <1>1 DEF IInv, TypeOK
<1>4. Lost' = Lost
    BY <1>1, <1>2, <1>3 DEF Lost, Receivers
<1>5. \A n \in minMsgNum .. maxMsgNum - 1 : Nth(buffer', n) = Nth(buffer, n)
    BY WriteEntriesEffect, Zenon DEF IInv, Nth
<1>6. \A i \in Slots : Unread(i)' = Unread(i)
    BY <1>1, <1>2, <1>4, <1>5, UnreadKept, Zenon
<1> QED
    BY <1>1, <1>2, <1>4, <1>6, Zenon DEF OwedKept, Owed

\* A batch becomes visible to everybody who follows, and fits in.
LEMMA PublishOwed ==
    ASSUME IInv, NEW s \in Slots, PublishMax(s)
    PROVE  \E n \in 0 .. WRITE_QUANTUM : \E msgs \in [1 .. n -> Rels] :
              /\ Owed' = [i \in Slots |-> IF i \in Receivers \ Lost THEN Owed[i] \o msgs
                                          ELSE Owed[i]]
              /\ \A i \in Slots : Len(Owed'[i]) <= MAXNUMMESSAGES
              /\ n = 0 => Owed' = Owed
              /\ UNCHANGED <<Receivers, Lost, messages>>
<1> DEFINE n == nthistime(s)
           msgs == [k \in 1 .. n |-> left[s][k]]
<1>1. /\ pc[s] = "w_max" /\ pc' = [pc EXCEPT ![s] = "w_kick"]
      /\ maxMsgNum' = maxMsgNum + n
      /\ UNCHANGED <<active, nextMsgNum, resetState, maxRead, buffer, messages>>
    BY Zenon DEF PublishMax, Goto, procStateVars, readerVars
<1>2. /\ n \in Nat /\ n <= WRITE_QUANTUM /\ WRITE_QUANTUM \in Nat
      /\ n \in 0 .. Len(left[s]) /\ left[s] \in Seq(Rels) /\ Len(left[s]) \in Nat
    <2>1. n \in 0 .. Len(left[s]) /\ n <= WRITE_QUANTUM /\ left[s] \in Seq(Rels)
        BY Nthistime DEF IInv, TypeOK
    <2> HIDE DEF n
    <2> QED
        BY <2>1, Sizes
<1>3. /\ maxMsgNum + n <= minMsgNum + MAXNUMMESSAGES
      /\ \A k \in 1 .. n : Nth(buffer, maxMsgNum + k - 1) = left[s][k]
    BY <1>1, Zenon DEF IInv, NumbersInv, PendingInv, At, Nth
<1> HIDE DEF n
<1>4. msgs \in Seq(Rels) /\ Len(msgs) = n /\ msgs \in [1 .. n -> Rels]
    BY <1>2
<1>5. \A k \in 1 .. n : Nth(buffer, maxMsgNum + k - 1) = msgs[k]
    BY <1>3
<1> HIDE DEF msgs
<1>6. Receivers' = Receivers /\ \A i \in Slots : Pos(i)' = Pos(i)
    BY <1>1 DEF Receivers, Pos
<1>7. \A i \in Slots : pc'[i] = "r_get" <=> pc[i] = "r_get"
    BY <1>1 DEF IInv, TypeOK
<1>8. Lost' = Lost
    BY <1>1, <1>6, <1>7 DEF Lost, Receivers
<1>9. ASSUME NEW i \in Slots, i \in Receivers \ Lost
      PROVE  Unread(i)' = Unread(i) \o msgs /\ Len(Unread(i)') <= MAXNUMMESSAGES
    <2>1. /\ Pos(i) \in Nat /\ minMsgNum <= Pos(i) /\ Pos(i) <= maxMsgNum
          /\ minMsgNum \in Nat /\ maxMsgNum \in Nat
          /\ \A x \in Pos(i) .. maxMsgNum - 1 : Nth(buffer, x) \in Rels
          /\ Unread(i) \in Seq(Rels) /\ Len(Unread(i)) = maxMsgNum - Pos(i)
        BY <1>9, PosIs
    <2>2. Piece(buffer, Pos(i), maxMsgNum + n) = Piece(buffer, Pos(i), maxMsgNum) \o msgs
        <3>1. Continues(msgs, n, buffer, Pos(i), maxMsgNum)
            BY <1>2, <1>4, <1>5, <2>1 DEF Continues
        <3> QED
            BY <3>1, PieceExtends
    <2>3. Unread(i)' = Unread(i) \o msgs
        BY <1>1, <1>6, <1>8, <1>9, <2>2, UnreadIs, Zenon
    <2>4. Len(Unread(i) \o msgs) = maxMsgNum - Pos(i) + n
        BY <1>4, <2>1, ConcatProperties
    <2>5. maxMsgNum - Pos(i) + n <= MAXNUMMESSAGES
        BY <1>2, <1>3, <2>1, Sizes
    <2> QED
        BY <2>3, <2>4, <2>5
<1>10. ASSUME NEW i \in Slots, i \notin Receivers \ Lost
       PROVE  Unread(i)' = Unread(i) /\ Len(Unread(i)') <= MAXNUMMESSAGES
    <2>1. Unread(i)' = <<>> /\ Unread(i) = <<>>
        BY <1>6, <1>8, <1>10, UnreadIs, Zenon
    <2> QED
        BY <2>1, Sizes
<1>11. /\ Owed' = [i \in Slots |-> IF i \in Receivers \ Lost THEN Owed[i] \o msgs
                                   ELSE Owed[i]]
       /\ \A i \in Slots : Len(Owed'[i]) <= MAXNUMMESSAGES
    BY <1>9, <1>10, Zenon DEF Owed
<1>12. ASSUME n = 0 PROVE Owed' = Owed
    <2>1. maxMsgNum' = maxMsgNum
        BY <1>1, <1>12, NumberFacts DEF IInv
    <2>2. \A x : Nth(buffer', x) = Nth(buffer, x)
        BY <1>1
    <2>3. \A i \in Slots : Unread(i)' = Unread(i)
        BY <1>6, <1>8, <2>1, <2>2, UnreadKept, Zenon
    <2> QED
        BY <2>3, Zenon DEF Owed
<1>13. n \in 0 .. WRITE_QUANTUM
    BY <1>2
<1> QED
    BY <1>1, <1>4, <1>6, <1>8, <1>11, <1>12, <1>13, Zenon

\* Whoever is told to reset will go on from here.
LEMMA ReadMaxOwed ==
    ASSUME IInv, NEW s \in Slots, ReadMax(s)
    PROVE  /\ UNCHANGED <<Receivers, Owed, messages>>
           /\ IF s \in Lost THEN Lost' = Lost \ {s} ELSE Lost' = Lost
<1>1. /\ pc[s] = "r_max" /\ pc' = [pc EXCEPT ![s] = "r_get"]
      /\ maxRead' = [maxRead EXCEPT ![s] = maxMsgNum]
      /\ UNCHANGED <<active, nextMsgNum, resetState, maxMsgNum, buffer, messages>>
    BY Zenon DEF ReadMax, Goto, procStateVars, segVars
<1>2. /\ maxRead \in [Slots -> MsgNums] /\ pc \in [Slots -> Pcs] /\ maxMsgNum \in Nat
    BY NumberFacts DEF IInv, TypeOK
<1>3. Receivers' = Receivers
    BY <1>1 DEF Receivers
<1>4. s \notin Lost'
    BY <1>1, <1>2 DEF Lost
<1>5. \A i \in Slots \ {s} : i \in Lost' <=> i \in Lost
    BY <1>1, <1>2, <1>3 DEF Lost
<1>6. Lost' = Lost \ {s}
    BY <1>4, <1>5, <1>3 DEF Lost, Receivers
<1>7. ASSUME NEW i \in Slots PROVE Unread(i)' = Unread(i)
    <2>1. CASE i \notin Lost
        <3>1. Pos(i)' = Pos(i) \/ i \notin Receivers
            <4>1. CASE i = s
                BY <1>1, <2>1, <4>1 DEF Pos, Lost
            <4>2. CASE i # s
                BY <1>1, <1>2, <4>2 DEF Pos
            <4> QED
                BY <4>1, <4>2
        <3>2. \A n : Nth(buffer', n) = Nth(buffer, n)
            BY <1>1
        <3> QED
            BY <1>1, <1>3, <1>6, <2>1, <3>1, <3>2, UnreadKept
    <2>2. CASE i \in Lost /\ i # s
        BY <1>5, <2>2, UnreadIs
    <2>3. CASE i \in Lost /\ i = s
        <3>1. Unread(s) = <<>>
            BY <2>3, UnreadIs
        <3>2. Pos(s)' = maxMsgNum
            BY <1>1, <1>2, <2>3 DEF Pos, Lost
        <3>3. Piece(buffer', Pos(s)', maxMsgNum') = <<>>
            BY <1>1, <1>2, <3>2, PieceEmpty
        <3> QED
            BY <2>3, <3>1, <3>3, UnreadIs
    <2> QED
        BY <2>1, <2>2, <2>3
<1>8. Owed' = Owed
    BY <1>7, Zenon DEF Owed
<1>9. s \notin Lost => Lost' = Lost
    BY <1>6
<1> QED
    BY <1>1, <1>3, <1>6, <1>8, <1>9

\* A read takes the first of the unread messages.
LEMMA GetOwed ==
    ASSUME IInv, NEW s \in Slots, GetEntries(s)
    PROVE  /\ nRead(s) \in 0 .. Len(Owed[s])
           /\ messages[s] = <<>>
           /\ messages' = [messages EXCEPT ![s] = SubSeq(Owed[s], 1, nRead(s))]
           /\ Owed' = [Owed EXCEPT ![s] = SubSeq(@, nRead(s) + 1, Len(@))]
           /\ nRead(s) = 0 => UNCHANGED <<Owed, messages>>
           /\ UNCHANGED <<Receivers, Lost>>
<1> DEFINE n == nRead(s)
           f == nextMsgNum[s]
<1>1. TypeOK /\ NumbersInv /\ ThreadInv /\ SlotsInv
    BY DEF IInv
<1>2. /\ s \in Receivers /\ pc[s] = "r_get" /\ ~resetState[s]
      /\ n \in 0 .. MAXINVALMSGS
      /\ f + n <= maxRead[s] /\ maxRead[s] <= maxMsgNum
      /\ nextMsgNum' = [nextMsgNum EXCEPT ![s] = @ + n]
      /\ messages' = [messages EXCEPT ![s] = [k \in 1 .. n |-> At(f + k - 1)]]
      /\ pc' = [pc EXCEPT ![s] = "r_loop"]
      /\ maxRead' = [maxRead EXCEPT ![s] = 0]
      /\ UNCHANGED <<active, resetState, minMsgNum, maxMsgNum, buffer>>
    BY <1>1, GetEntriesEffect
<1>3. s \in Receivers \ Lost /\ Pos(s) = f
    BY <1>2 DEF Lost, Pos
<1>4. /\ f \in Nat /\ maxMsgNum \in Nat /\ maxRead[s] \in Nat /\ n \in Nat
      /\ \A x \in f .. maxMsgNum - 1 : Nth(buffer, x) \in Rels
      /\ Unread(s) \in Seq(Rels) /\ Len(Unread(s)) = maxMsgNum - f
      /\ nextMsgNum \in [Slots -> MsgNums] /\ pc \in [Slots -> Pcs]
      /\ maxRead \in [Slots -> MsgNums] /\ messages \in [Slots -> Seq(Rels)]
    <2>1. /\ f \in Nat /\ maxMsgNum \in Nat
          /\ \A x \in f .. maxMsgNum - 1 : Nth(buffer, x) \in Rels
          /\ Unread(s) \in Seq(Rels) /\ Len(Unread(s)) = maxMsgNum - f
        BY <1>3, PosIs
    <2>2. n \in Nat /\ maxRead[s] \in Nat
        BY <1>1, <1>2, NumberFacts, Sizes
    <2> QED
        BY <1>1, <2>1, <2>2 DEF TypeOK
<1> HIDE DEF n, f
<1>5. Unread(s) = Piece(buffer, f, maxMsgNum)
    BY <1>3, UnreadIs
<1>6. f + n <= maxMsgNum /\ f \in Int /\ maxMsgNum \in Int /\ n <= maxMsgNum - f
    BY <1>2, <1>4
<1>7. /\ First(Unread(s), n) = Piece(buffer, f, f + n)
      /\ Rest(Unread(s), n) = Piece(buffer, f + n, maxMsgNum)
    <2>1. Divisible(buffer, f, maxMsgNum) /\ UpTo(f, n, maxMsgNum)
        BY <1>4, <1>5, <1>6 DEF Divisible, UpTo
    <2>2. First(Piece(buffer, f, maxMsgNum), n) = Piece(buffer, f, f + n)
        BY <2>1, PieceSplit
    <2>3. Rest(Piece(buffer, f, maxMsgNum), n) = Piece(buffer, f + n, maxMsgNum)
        BY <2>1, PieceSplit
    <2> QED
        BY <1>5, <2>2, <2>3, Zenon
<1>8. [k \in 1 .. n |-> At(f + k - 1)] = Piece(buffer, f, f + n)
    <2>1. (f + n) - f = n
        BY <1>4
    <2> QED
        BY <2>1, Zenon DEF Piece, Nth, At
<1>9. messages[s] = <<>>
    BY <1>1, <1>2 DEF ThreadInv, ThreadOK
<1>10. Receivers' = Receivers
    BY <1>2 DEF Receivers
<1>11. Lost' = Lost
    BY <1>2, <1>4, <1>10 DEF Lost, Receivers
<1>12. Pos(s)' = f + n
    BY <1>2, <1>3, <1>4 DEF Pos, Receivers, f
<1>13. Unread(s)' = Rest(Unread(s), n)
    BY <1>2, <1>3, <1>7, <1>10, <1>11, <1>12, UnreadIs, Zenon
<1>14. ASSUME NEW i \in Slots, i # s PROVE Unread(i)' = Unread(i)
    <2>1. Pos(i)' = Pos(i)
        BY <1>2, <1>4, <1>14 DEF Pos
    <2>2. \A x : Nth(buffer', x) = Nth(buffer, x)
        BY <1>2
    <2> QED
        BY <1>2, <1>10, <1>11, <2>1, <2>2, UnreadKept
<1>15. Owed' = [Owed EXCEPT ![s] = SubSeq(@, n + 1, Len(@))]
    BY <1>13, <1>14, Zenon DEF Owed, Rest
<1>16. messages' = [messages EXCEPT ![s] = SubSeq(Owed[s], 1, n)]
    BY <1>2, <1>7, <1>8, Zenon DEF Owed, First
<1>17. ASSUME n = 0 PROVE UNCHANGED <<Owed, messages>>
    <2>1. Piece(buffer, f, f + n) = <<>>
        BY <1>4, <1>6, <1>17, PieceEmpty
    <2>2. messages' = [messages EXCEPT ![s] = <<>>]
        BY <1>2, <1>8, <2>1, Zenon
    <2>3. messages' = messages
        BY <1>4, <1>9, <2>2
    <2>4. f + n = f
        BY <1>4, <1>17
    <2>5. Unread(s)' = Unread(s)
        BY <1>5, <1>7, <1>13, <2>4
    <2> QED
        BY <1>14, <2>3, <2>5, Zenon DEF Owed
<1>18. n \in 0 .. Len(Owed[s])
    <2>1. Owed[s] = Unread(s)
        BY DEF Owed
    <2> QED
        BY <1>4, <1>6, <2>1
<1> QED
    BY <1>9, <1>10, <1>11, <1>15, <1>16, <1>17, <1>18, Zenon DEF n

(***************************************************************************)
(* A clean-up takes from those it puts into reset state what they have not *)
(* read, and changes nothing for the others although all numbers may have  *)
(* gone down by MSGNUMWRAPAROUND.                                          *)
(***************************************************************************)
LEMMA CleanupOwed ==
    ASSUME IInv, NEW s \in Slots, NEW minFree \in 0 .. MAXNUMMESSAGES,
           NEW done \in {"w_check", "idle", "r_inval"},
           pc[s] \in {"w_check", "c_clean"},
           SICleanupQueue(s, minFree, done)
    PROVE  \E S \in SUBSET Slots :
              /\ S \subseteq Receivers
              /\ \A i \in S : Len(Owed[i]) + minFree > MAXNUMMESSAGES
              /\ Lost' = Lost \cup S
              /\ Owed' = [i \in Slots |-> IF i \in S THEN <<>> ELSE Owed[i]]
              /\ UNCHANGED <<Receivers, messages>>
<1>1. /\ readers = {}
      /\ \E l \in {"w_check", "idle", "r_inval", "w_signal", "c_signal"} :
            pc' = [pc EXCEPT ![s] = l]
      /\ UNCHANGED <<active, buffer, messages>>
    BY Zenon DEF SICleanupQueue, Goto, readerVars
<1>2. PICK shift \in Nat : CleanedBy(shift) /\ shift \in {0, MSGNUMWRAPAROUND}
    BY CleanupEffect, Sizes DEF IInv
<1>3. Receivers' = Receivers /\ Receivers \subseteq Slots
    BY <1>1 DEF Receivers
<1>4. \A i \in Slots : pc[i] # "r_get" /\ pc'[i] # "r_get"
    <2>1. \A i \in Slots : pc[i] # "r_get"
        BY <1>1 DEF IInv, LocksInv, Reading
    <2> QED
        BY <1>1, <2>1 DEF IInv, TypeOK
<1>5. /\ Lost = {i \in Receivers : resetState[i]}
      /\ Lost' = {i \in Receivers : resetState'[i]}
    BY <1>3, <1>4 DEF Lost
<1> DEFINE S == {i \in Receivers : resetState'[i] /\ ~resetState[i]}
<1>6. S \in SUBSET Slots /\ S \subseteq Receivers
    BY <1>3
<1>7. Lost' = Lost \cup S
    <2>1. \A i \in Receivers : resetState[i] => resetState'[i]
        BY <1>2, Zenon DEF CleanedBy
    <2> QED
        BY <1>5, <2>1
<1>8. \A i \in S : Len(Owed[i]) + minFree > MAXNUMMESSAGES
    <2> TAKE i \in S
    <2>1. i \in Receivers \ Lost /\ i \in Slots /\ Pos(i) = nextMsgNum[i]
        BY <1>3, <1>5 DEF Pos
    <2>2. Len(Unread(i)) = maxMsgNum - nextMsgNum[i]
        BY <2>1, PosIs
    <2>3. maxMsgNum - nextMsgNum[i] + minFree > MAXNUMMESSAGES
        BY <2>1, CleanupEffect DEF IInv
    <2> QED
        BY <2>1, <2>2, <2>3 DEF Owed
<1>9. ASSUME NEW i \in Slots, i \in Lost' PROVE Unread(i)' = <<>>
    BY <1>9, UnreadIs
<1>10. ASSUME NEW i \in Slots, i \in Lost PROVE Unread(i) = <<>>
    BY <1>10, UnreadIs
<1>11. ASSUME NEW i \in Slots, i \notin Lost' PROVE Unread(i)' = Unread(i)
    <2>1. CASE i \notin Receivers
        BY <1>3, <2>1, UnreadIs
    <2>2. CASE i \in Receivers
        <3>1. ~resetState'[i] /\ ~resetState[i] /\ nextMsgNum'[i] = nextMsgNum[i] - shift
            BY <1>2, <1>5, <1>11, <2>2, Zenon DEF CleanedBy
        <3>2. i \in Receivers \ Lost /\ i \in Receivers' \ Lost'
            BY <1>3, <1>5, <2>2, <3>1
        <3>3. Pos(i) = nextMsgNum[i] /\ Pos(i)' = nextMsgNum[i] - shift
            BY <3>1 DEF Pos
        <3>4. nextMsgNum[i] \in Int /\ maxMsgNum \in Int
            BY NumberFacts DEF IInv
        <3>5. maxMsgNum' = maxMsgNum - shift
            BY <1>2, Zenon DEF CleanedBy
        <3>6. Piece(buffer, nextMsgNum[i] - shift, maxMsgNum - shift)
                = Piece(buffer, nextMsgNum[i], maxMsgNum)
            <4>1. CASE shift = 0
                <5>1. nextMsgNum[i] - shift = nextMsgNum[i] /\ maxMsgNum - shift = maxMsgNum
                    BY <3>4, <4>1
                <5> QED
                    BY <5>1
            <4>2. CASE shift = MSGNUMWRAPAROUND
                BY <3>4, <4>2, PieceShift
            <4> QED
                BY <1>2, <4>1, <4>2
        <3> QED
            BY <1>1, <3>2, <3>3, <3>5, <3>6, UnreadIs
    <2> QED
        BY <2>1, <2>2
<1>12. Owed' = [i \in Slots |-> IF i \in S THEN <<>> ELSE Owed[i]]
    <2>1. ASSUME NEW i \in Slots
          PROVE  Unread(i)' = IF i \in S THEN <<>> ELSE Unread(i)
        <3>1. CASE i \in S
            BY <1>7, <1>9, <3>1
        <3>2. CASE i \notin S /\ i \in Lost
            BY <1>7, <1>9, <1>10, <3>2
        <3>3. CASE i \notin S /\ i \notin Lost
            BY <1>7, <1>11, <3>3
        <3> QED
            BY <3>1, <3>2, <3>3
    <2> QED
        BY <2>1, Zenon DEF Owed
<1> HIDE DEF S
<1> QED
    BY <1>1, <1>3, <1>6, <1>7, <1>8, <1>12, Zenon

\* Every step is a step of InvalDelivery, or cannot be seen there.
LEMMA DeliveryStep ==
    ASSUME IInv, NEW s \in Slots, Step(s)
    PROVE  Delivery!Next \/ UNCHANGED Delivery!deliveryVars
<1>0. ASSUME OwedKept, UNCHANGED messages PROVE UNCHANGED Delivery!deliveryVars
    BY <1>0, Zenon DEF OwedKept, Owed, Delivery!deliveryVars
<1>1. CASE Attach(s)
    <2>1. CASE s \in SendOnly
        BY <1>1, <1>0, <2>1, AttachOwed DEF OwedKept
    <2>2. CASE s \notin SendOnly
        <3>1. Delivery!Attach(s)
            BY <1>1, <2>2, AttachOwed, Zenon DEF Delivery!Attach, Owed
        <3> QED
            BY <3>1, Zenon DEF Delivery!Next
    <2> QED
        BY <2>1, <2>2
<1>2. CASE Detach(s)
    <2>1. Delivery!Detach(s)
        BY <1>2, DetachOwed, Zenon DEF Delivery!Detach, Owed
    <2> QED
        BY <2>1, Zenon DEF Delivery!Next
<1>3. CASE \E rels \in Sends : AtEOXact_Inval(s, rels)
    <2>1. UNCHANGED messages
        BY <1>3 DEF AtEOXact_Inval, readerVars
    <2> QED
        BY <1>3, <1>0, <2>1, QuietOwed
<1>4. CASE LocalAction(s)
    <2>1. OwedKept
        BY <1>4, QuietOwed
    <2>2. CASE SkipPending(s) \/ ProcessPending(s) \/ ProcessNext(s)
        <3>1. messages[s] # <<>> /\ messages' = [messages EXCEPT ![s] = Tail(@)]
            BY <2>2, Zenon DEF SkipPending, ProcessPending, ProcessNext
        <3>2. Delivery!Use(s)
            BY <2>1, <3>1, Zenon DEF Delivery!Use, OwedKept, Owed
        <3> QED
            BY <3>2, Zenon DEF Delivery!Next
    <2>3. CASE ~(SkipPending(s) \/ ProcessPending(s) \/ ProcessNext(s))
        <3>1. UNCHANGED messages
            BY <1>4, <2>3 DEF LocalAction, AcceptInvalidationMessages, NonePending, LoopEnd,
                              Recurse, Rebuild, ReceiveEnd, CatchupComplete
        <3> QED
            BY <1>0, <2>1, <3>1
    <2> QED
        BY <2>2, <2>3
<1>5. CASE ReceiveReset(s)
    BY <1>5, <1>0, ResetOwed
<1>6. CASE \/ InsertLock(s) \/ CatchupLock(s)
           \/ InsertSignal(s) \/ CatchupSignal(s)
           \/ Kick(s) \/ InsertUnlock(s)
           \/ NothingToRead(s) \/ ReadLock(s)
    <2>1. OwedKept
        BY <1>6, QuietOwed
    <2>2. UNCHANGED messages
        BY <1>6 DEF InsertLock, CatchupLock, AcquireWriteLock, InsertSignal, CatchupSignal,
           SendCatchupSignal, Kick, InsertUnlock, NothingToRead, ReadLock, readerVars
    <2> QED
        BY <1>0, <2>1, <2>2
<1>7. CASE InsertCleanup(s) \/ CatchupCleanup(s)
    <2>1. PICK n \in 0 .. WRITE_QUANTUM :
             /\ n \in 0 .. MAXNUMMESSAGES
             /\ pc[s] \in {"w_check", "c_clean"}
             /\ \E done \in {"w_check", "idle", "r_inval"} : SICleanupQueue(s, n, done)
        <3>1. CASE InsertCleanup(s)
            <4>1. nthistime(s) \in 0 .. MAXNUMMESSAGES /\ nthistime(s) \in 0 .. WRITE_QUANTUM
                <5>1. /\ nthistime(s) \in 0 .. MAXNUMMESSAGES
                      /\ nthistime(s) <= WRITE_QUANTUM
                    BY RoomForBatch, Nthistime DEF IInv
                <5> QED
                    BY <5>1, Sizes
            <4> QED
                BY <3>1, <4>1, Zenon DEF InsertCleanup
        <3>2. CASE CatchupCleanup(s)
            <4>1. 0 \in 0 .. MAXNUMMESSAGES /\ 0 \in 0 .. WRITE_QUANTUM
                  /\ Caller(s) \in {"w_check", "idle", "r_inval"}
                BY Sizes DEF Caller
            <4> QED
                BY <3>2, <4>1, Zenon DEF CatchupCleanup
        <3> QED
            BY <1>7, <3>1, <3>2
    <2>2. PICK S \in SUBSET Slots :
              /\ S \subseteq Receivers
              /\ \A i \in S : Len(Owed[i]) + n > MAXNUMMESSAGES
              /\ Lost' = Lost \cup S
              /\ Owed' = [i \in Slots |-> IF i \in S THEN <<>> ELSE Owed[i]]
              /\ UNCHANGED <<Receivers, messages>>
        BY <2>1, CleanupOwed
    <2>3. CASE S = {}
        <3>1. Lost' = Lost /\ Owed' = Owed
            BY <2>2, <2>3 DEF Owed
        <3> QED
            BY <1>0, <2>2, <3>1 DEF OwedKept
    <2>4. CASE S # {}
        <3>1. Delivery!Drop(S, n)
            BY <2>2, <2>4, Zenon DEF Delivery!Drop, Owed
        <3> QED
            BY <3>1, Zenon DEF Delivery!Next
    <2> QED
        BY <2>3, <2>4
<1>8. CASE WriteEntries(s)
    BY <1>8, <1>0, WriteOwed
<1>9. CASE PublishMax(s)
    <2>0. PICK n \in 0 .. WRITE_QUANTUM : \E msgs \in [1 .. n -> Rels] :
              /\ Owed' = [i \in Slots |-> IF i \in Receivers \ Lost THEN Owed[i] \o msgs
                                          ELSE Owed[i]]
              /\ \A i \in Slots : Len(Owed'[i]) <= MAXNUMMESSAGES
              /\ n = 0 => Owed' = Owed
              /\ UNCHANGED <<Receivers, Lost, messages>>
        BY <1>9, PublishOwed, Zenon
    <2>1. PICK msgs \in [1 .. n -> Rels] :
              /\ Owed' = [i \in Slots |-> IF i \in Receivers \ Lost THEN Owed[i] \o msgs
                                          ELSE Owed[i]]
              /\ \A i \in Slots : Len(Owed'[i]) <= MAXNUMMESSAGES
              /\ n = 0 => Owed' = Owed
              /\ UNCHANGED <<Receivers, Lost, messages>>
        BY <2>0, Zenon
    <2>2. CASE n = 0
        BY <1>0, <2>1, <2>2 DEF OwedKept
    <2>3. CASE n # 0
        <3>1. n \in 1 .. WRITE_QUANTUM
            BY <2>3, Sizes
        <3>2. Delivery!Post(msgs)
            BY <2>1, Zenon DEF Delivery!Post, Owed
        <3> QED
            BY <3>1, <3>2, Zenon DEF Delivery!Next
    <2> QED
        BY <2>2, <2>3
<1>10. CASE ReadMax(s)
    <2>1. CASE s \in Lost
        <3>1. Delivery!Tell(s)
            BY <1>10, <2>1, ReadMaxOwed, Zenon DEF Delivery!Tell, Owed
        <3> QED
            BY <3>1, Zenon DEF Delivery!Next
    <2>2. CASE s \notin Lost
        BY <1>10, <1>0, <2>2, ReadMaxOwed DEF OwedKept
    <2> QED
        BY <2>1, <2>2
<1>11. CASE GetEntries(s)
    <2> DEFINE n == nRead(s)
    <2>1. /\ n \in 0 .. Len(Owed[s]) /\ messages[s] = <<>>
          /\ messages' = [messages EXCEPT ![s] = SubSeq(Owed[s], 1, n)]
          /\ Owed' = [Owed EXCEPT ![s] = SubSeq(@, n + 1, Len(@))]
          /\ n = 0 => UNCHANGED <<Owed, messages>>
          /\ UNCHANGED <<Receivers, Lost>>
        BY <1>11, GetOwed
    <2> HIDE DEF n
    <2>2. CASE n = 0
        BY <1>0, <2>1, <2>2 DEF OwedKept
    <2>3. CASE n # 0
        <3>1. n \in 1 .. Len(Owed[s])
            BY <2>1, <2>3
        <3>2. Delivery!Take(s, n)
            BY <2>1, Zenon DEF Delivery!Take, Owed
        <3> QED
            BY <3>1, <3>2, Zenon DEF Delivery!Next, Owed
    <2> QED
        BY <2>2, <2>3
<1> QED
    BY <1>1, <1>2, <1>3, <1>4, <1>5, <1>6, <1>7, <1>8, <1>9, <1>10, <1>11,
       Zenon DEF Step, QueueAction

(***************************************************************************)
(* SInval implements InvalDelivery: through the circular buffer, the       *)
(* wrap-around of the numbers and the two locks, every backend gets every  *)
(* message posted since it attached once and in order, or is reset, and    *)
(* nobody is reset who leaves room enough.                                 *)
(***************************************************************************)
THEOREM QueueDelivers == Spec => ImplementsDelivery
<1>1. Init => Delivery!Init
    <2> SUFFICES ASSUME Init PROVE Delivery!Init
        OBVIOUS
    <2>1. Receivers = {} /\ Lost = {}
        BY DEF Init, AdtInit, Receivers, Lost
    <2>2. \A i \in Slots : Unread(i) = <<>>
        BY <2>1, UnreadIs
    <2> QED
        BY <2>1, <2>2, Zenon DEF Delivery!Init, Init, AdtInit
<1>2. IInv /\ [Next]_vars => [Delivery!Next]_Delivery!deliveryVars
    <2> SUFFICES ASSUME IInv, [Next]_vars
                 PROVE  Delivery!Next \/ UNCHANGED Delivery!deliveryVars
        OBVIOUS
    <2>1. CASE Next
        <3>1. PICK s \in Slots : Step(s)
            BY <2>1, NextSteps
        <3> QED
            BY <3>1, DeliveryStep
    <2>2. CASE UNCHANGED vars
        <3>1. UNCHANGED <<active, nextMsgNum, resetState, maxMsgNum, buffer, maxRead, pc,
                          messages>>
            BY <2>2 DEF vars, adtVars, procStateVars, segVars, readerVars
        <3> QED
            BY <3>1, Zenon DEF Delivery!deliveryVars, Receivers, Lost, Unread
    <2> QED
        BY <2>1, <2>2
<1> QED
    BY <1>1, <1>2, Invariance, PTL DEF Spec, ImplementsDelivery, Delivery!Spec

=============================================================================
